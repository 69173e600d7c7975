# claudepass in TLA+

`cpass` keeps Secrets in an encrypted Vault and hands them to the commands an
Agent runs, so that the Agent itself only ever sees Handles. This directory is
a formal model of it: TLA+ modules translated from the Go source, TLC
configurations that check them on small instances, and proofs of the most
important properties for instances of any size.

To check a model: `tlc -config <cfg> <module>` as listed under *Runs*. To check
the proofs: `tlapm <module>` for each module whose name ends in `Proofs`.

## The system

Every `cpass` invocation is a process of its own; the MCP server (`cpass mcp`)
is one long-lived process per Agent session that serves several tool calls at
once. They share the files under `CPASS_HOME` and, on Linux, the Broker's
socket. Nothing else is shared: there is no daemon that owns the Vault.

| Part | State | Operations | Hard behaviour |
|---|---|---|---|
| Vault (`internal/vault`, `atomicfile`, `lockfile`) | `vault.cpv`, `vault.cpv.bak`, `vault.cpv.lock` | Create, Open, Update (lock, reopen, change, Save), Save (backup, then Vault), Add, Remove, Rename, MarkExposed, ClearExposed, Rewrap | concurrent writers, crash and power loss between any two system calls, lock timeout, error after the rename |
| CLI commands (`internal/cli`) | none of their own | init, add, capture, rm, mv, mark-exposed, rotate-done, import, intercept, ls, run, unlock, lock | a check long before the write it guards; several values in one write |
| Passphrase key (`broker/passphrase.go`) | `broker.salt`, `broker.kdf` | DeriveKey at init, UnlockPassphrase with its transparent cost upgrade | two files and a Vault updated by two writes; unlocks that race; first uses that race |
| Broker process (`broker/process_unix.go`) | `cpass.sock`, the key in memory | Serve, RequestKey, StopBroker, StartBroker | socket path shared by brokers that come and go; idle timeout against late clients |
| Unlock sources (`broker/broker.go`, `keychain*.go`, `touchid*.go`) | macOS Keychain item | UnlockKey: `CPASS_KEY`, Keychain, Broker; init, keychain upgrade | init stores the item before it creates the Vault; an item is deleted before the new one is added; builds that lack an entitlement; upgrade asks for no Vault, and stores whatever key UnlockKey returns |
| Key cache (`broker/keycache.go`) | key and the time it was derived, the slices handed out | Key, OpenVault, UpdateVault | goes stale when the Vault is locked or rewrapped; must expire even when busy; one call zeroes an expired key while another uses its copy |
| Resolution (`broker/broker.go`, `manifest/refs.go`) | none | Resolve, merged project and global references | missing Handles, colliding Bindings, the CI floor |
| Manifests (`internal/manifest`, `cli/manifestcmd.go`, `globalcmd.go`, `importcmd.go`) | `.claudepass.toml`, `global.toml` and its lock, the imported `.env` file | manifest init, add, global; global, local; add -g; import; Find, Refs | unlocked read-modify-write; second and third steps after the Vault's write; links into nested repositories |
| Run (`internal/run`) | `run/<id>/` with `.pid` and Secret files, the child | newRunDir, sweepStale, destroy, signals, cancellation | a sweep racing a directory being made; a killed owner; a signal before the child is ready |
| Redaction (`internal/redact`) | bytes held back, idle timer | Write, idleFlush, Close, matching | values split across writes; a timer that fires late |
| MCP server (`internal/mcp`) | calls in flight, ids cancelled | tools/call, notifications, notifications/cancelled, EOF | cancellation racing completion; draining at EOF |
| Command Policy (`internal/policy`) | variables known to hold a Secret, scripts the command itself wrote; the files on the disk | Evaluate over the parsed command line | judges commands before any of them has run, by a record of what they will have done; nesting |
| Detection, dotenv, integrate, site | none | parsers and installers | pure text processing |

The parts meet in these places. A write command asks `UnlockKey` for the key
(which may ask the Broker) *before* it takes the Vault's lock, so the key may be
stale by then. `cpass unlock` derives a key, may rewrap the Vault through
`vault.Update`, records the new cost, and starts a Broker with that key. The MCP
server caches the key. `run` resolves Handles by reading the Vault without the
lock, starts the child, and redacts its output with the values it read.
`capture` does the same and then writes the Vault.

## What makes each part correct

* **Vault** - concurrent writers behave as if they ran one after the other; what
  a command reported as stored survives any crash and any power loss; there is a
  whole backup before a generation is replaced; the data key never changes; a
  writer always returns, and gives the lock back.
* **CLI write commands** - a command whose check is long past never overwrites
  what another one wrote; a command that stores several values stores the ones
  it should or none; an Exposed Secret stays Exposed until it is rotated.
* **Passphrase key** - whatever is interrupted, the passphrase opens the Vault;
  a right passphrase is never reported wrong; no Vault made after the cost was
  raised is wrapped at the old cost.
* **Broker** - a Broker that acknowledged a lock answers no later request; one
  that nobody can reach drops its key; a lock that was sent lands, and every
  command returns, although another program holds a connection open.
* **Unlock sources and Keychain** - the key that init made or found in the Keychain
  is there before its Vault is, and stays until an upgrade takes it out. (An
  upgrade may also store a key that opens no Vault, see *What is not modelled*.)
* **MCP server** - one response per request unless it was cancelled in time or is
  a notification; its tables of calls empty themselves; a capture's response says
  what happened; EOF drains; a cancellation reaches a child that would never end.
* **Run** - the Secret files of a live run are never swept; a run that ends leaves
  nothing; a killed one is cleaned up after.
* **Redaction** - output is neither lost, doubled nor reordered; no Secret is
  printed however its bytes are cut into writes; nothing is held for ever.
* **Key cache** - a key is served for at most one idle period after it was
  derived, however busy the server is; no call's key is zeroed under it.
* **Resolution** - a run is given what its project declares or does not run; a
  Global Handle contests no variable, stays inside projects that have a Manifest,
  and is skipped when it is missing; in CI nothing too short is injected.
* **Manifests** - concurrent declarations in the Global Manifest are all kept; an
  import interrupted anywhere has lost nothing.
* **Command Policy** - no command that is let through is given a Secret to print,
  through whatever variables that `simple` tracks, scripts and nested shells it was
  passed; the record of the scripts a command writes is what the files will hold when
  they run, if each is written under one spelling; every command, one that runs itself
  included, is judged in the end. Both conditions are the code's, not the docs', see
  *What is not modelled*.

## Modules

* **VaultEntries** - pure: what each write command does to the entry map
  (`Edits`), as the set of maps it may leave, empty when it refuses. `Command`
  is one record per write command; `Sealed` is what Save would write.
* **AtomicVault** - the abstract specification: a store that changes by one whole
  command at a time, of which a power loss takes back at most what is not yet
  durable.
* **VaultStore** - the implementation: processes that probe, wait for a child or
  a human, take the flock, reopen, edit, back up, sync, rename, sync, release.
  `pc` is the place in `Update`, `Create` or `Save`; `view` is what `Open` read,
  `out` the envelope about to be written; each file is kept as readers see it
  and as a power loss leaves it. `Crash` ends one process at any step and the
  kernel frees its flock; `PowerLoss` ends all of them and may undo each rename
  that was not fsynced.
* **PassphraseUnlock** - `loadOrCreateParams` with each `os.WriteFile` split into
  its truncation and its write, `DeriveKey` for init, `UnlockPassphrase` with the
  fallback derivation, the rewrap, the one retry and the final `broker.kdf`
  write. A key is the triple of passphrase, salt and cost. `vault.Create` and
  `vault.Update` are atomic here, which is what VaultStore is shown to implement.
* **BrokerProcess** - Broker processes (`Serve`: clear a stale socket, bind, chmod,
  accept, answer, time out, close, remove) and the commands that start, stop and
  ask them over the one socket path: `StartBroker`'s poll, `StopBroker`'s LOCK,
  `RequestKey`, and a client that connects and says nothing. A socket file is
  the Broker that bound it, so that unlinking a path, closing a listener and
  exiting are separate facts. A Broker stands for the key it was started with.
* **Keychain** - `cmdInit` and `cmdKeychainUpgrade` on macOS: the lookup, the
  delete, the add, `vault.Create`, and every refusal and kill in between, by a
  plain build, a Touch ID build and one that is signed for it. init has seen no
  Vault; upgrade does not look for one. A key is the number of the `rand.Read` that
  made it, or one of `Others`, which a job is `given` by `CPASS_KEY` or by the Broker
  and which `UnlockKey` takes instead of the item's. `pulled` remembers that an item
  was deleted for one that is not there yet, `apart` the processes whose key was given,
  or was read by an upgrade before there was a Vault, and `foreign` that the item or
  the Vault was last written by one of them.
* **UnlockSources** - the two platforms of `UseKeychain`: PassphraseUnlock's home
  or Keychain's, never both; and `UpgradeElsewhere`, the Keychain item that an upgrade
  leaves where `UseKeychain` is false.
* **KeyCache** - the tool calls of one MCP server over `KeyCache.Key`, its mutex
  and its TTL, `OpenVault` and `UpdateVault`, next to lock, unlock and rewrap by
  other processes. Key slices are buffers on a heap, so that a copy and what is
  zeroed are seen; time is ticks, counted as ages; the Broker's deadlines bound a
  derivation by `MaxDelay`.
* **McpServer** - the reader of `Serve`, one goroutine per slow call, the two maps
  `inflight` and `cancelled`, the channel each call is cancelled through, the
  child from start to the end of its output, and the Vault's write of capture.
  `place` is how far a call has come; `quiet` are the requests sent without an
  id, which `idKey` all maps to one key. Another process may capture the same
  Handle at any time.
* **CommandPolicy** - `Evaluate` next to a shell. A step judges the next simple
  command of a string (assignment, printer, heredoc or `tee`, reader, wrapper,
  `cd`, script, nested shell, `eval`, substitution, any other program, a dump of
  the environment) with what the evaluator knows (`tainted`, `written`, and `disk`,
  the files as they were) and, unless it refuses, runs it on the shell's own
  `env`, `cwd` and `files`. A path is a word: `written` is kept by its text, tidied up by
  `Clean` (filepath.Clean), and `Place` says which file the shell takes it for in which
  directory; a computed one such as `$f` may be any file, and is a key like any other.
  Only the assignments in `Tracked` taint. `shown` are the words by which a command was
  given a Secret to print, `unseen` the variables that one reached past the evaluator. `frames` is the stack of nested shells, each with the
  depth that `maxDepth` limits. `phase = "astray"` is a script judged by other
  text than the one that would run.
* **RunDirs** - the directories of `run/files.go`: every run sweeps what others
  left, makes its directory, writes `.pid` and the Secret, and shreds it again;
  `shredDir` is split at its system calls, since sweeps and `destroy` may shred
  the same directory together. Kills, pids given out again, and age are actions.
* **RedactWriter** - one output stream: `Scan` is the pure matcher (leftmost-longest
  replacement, and the suffix `partialLen` holds back) and the actions are Write,
  a timer that fires, the goroutine it starts getting the mutex, Close, and a
  destination that breaks. A printed byte and a marker with what it hides are
  both pieces of `out`, so that losses and leaks are visible.
* **Resolution** - pure: the `Refs` a directory gives (`Finds` walks the path as it
  is written, `GlobalReaches` the real directories), `WithRef` and `Explicit` for
  what is asked for by name, and `ResolveFromVault` and `ResolveFromEnv` with
  `checkCollision` as `Bind`, one Ref after the other. A result holds what is
  injected, what was skipped and why it failed.
* **Declarations** - the commands that write a Manifest, the Vault's writes of add,
  import and rm as one step each (which VaultStore implements), `UpdateGlobal`'s
  lock, import's three files, and run's reading of the Manifests and the Vault
  while other commands change them. `copy` is the Manifest a process has read,
  `refs` and `result` what its run makes of it.

The `MC*` modules give the constants of the runs. Operators introduced by a
comment that begins with "Mutant:" are altered forms of the definition they
precede, each one a mistake that code could have had; put in that definition's
place, each makes TLC find a violation of the property it is listed with in
`PROJECT.json`. The modules `VaultStoreProofs`, `BrokerProcessProofs`,
`UnlockSourcesProofs`, `KeyCacheProofs`, `McpServerProofs`, `DeclarationsProofs` and
`CommandPolicyProofs` hold the theorems about the modules they are named for, and
`RunProofs` those about the two parts of a run, RunDirs and RedactWriter.
UnlockSourcesProofs reasons about Keychain and PassphraseUnlock through the
composition, since a theorem about either alone would leave the other platform out.

## Runs

`tlc -config <run>.cfg <module>`; two workers take from seconds to three minutes.

| Configuration | Module | Shows |
|---|---|---|
| `MCVaultStore.cfg` | MCVaultStore | two processes running every write command against each other, with crashes, lock timeouts, failing calls and power losses: no update is lost, an acknowledged one survives, the backup comes first, the data key never changes, an exposed value stays so until rotated, every writer returns, and all of it implements AtomicVault |
| `MCUnlockSources.cfg` | MCUnlockSources | three processes, right and wrong passphrases, inits and unlocks, fresh, legacy and half-upgraded homes and those of an interrupted init, crashes at each write; on macOS an init and Keychain upgrades by any build, with and without a Vault, an item and a key from elsewhere |
| `MCPassphraseBackup.cfg` | MCPassphraseUnlock | **violated**: after the upgrade the backup no longer opens with the passphrase |
| `MCKeychain.cfg` | MCKeychain | **violated**: `keychain upgrade --touch-id` by an unsigned build is refused only after the Vault's one stored key was deleted |
| `MCBrokerProcess.cfg` | MCBrokerProcess | two terminals and two Brokers: a locked key stays locked, unreachable Brokers drop theirs, a lock lands and every command returns behind a silent connection |
| `MCKeyCache.cfg` | MCKeyCache | two tool calls, two keys, lock, unlock and rewrap at any tick: keys are fresh and whole, the server catches up, calls return |
| `MCMcpServer.cfg` | MCMcpServer | two requests of any kind, with or without an id, cancelled at any moment, EOF, and another process's capture |
| `MCMcpCancel.cfg` | MCMcpServer | **violated**: a cancelled call whose child is gone but whose output another process holds open does not end |
| `MCRunDirs.cfg` | MCRunDirs | two runs, a kill, reused pids and old directories |
| `MCRedactWriter.cfg` | MCRedactWriter | all outputs of up to five bytes in all cuts into writes, with late timers and a broken destination |
| `MCDeclarations.cfg` | MCDeclarations | two commands at once over two Handles that may want one variable: no Global declaration is lost, a `.env` file goes last, and what runs is given its project's Handles, no contested and no stray Global Handle, nothing too short in CI |
| `MCCommandPolicy.cfg` | MCCommandPolicy | every string of up to three lines out of 30, over three states of the disk: no Secret is given to a printer except through what taints nothing, the record stays exact except where `Follows` says, scripts with an exact record are judged as written, and the judging ends |

What the violated ones disagree with is quoted in `PROJECT.json` under `findings`.

### Bounds, and why they are enough

* Vault: two processes are what a lost update, a stale precheck and a lock held
  by another need; a third only waits. Two Handles let mv collide; one value
  too short to be a Secret makes a write fail in its middle. `MaxSaves` caps the
  nonces handed out: three are an init and one command of each process in the
  other's way, with every write command offered (add is capture without its
  child). The theorems below need none of these bounds.
* Passphrase: the retry of an unlock that lost the race needs two processes, and
  a third to fail the retry if anything could. `MaxSalts` is one salt more than
  the one a home starts with, for each of the first uses that race.
* Keychain: three random keys for repeated inits and one from elsewhere; one terminal
  inits and upgrades, a second one only upgrades. A second init is left out because of what it does,
  see *What is not modelled*.
* Broker: two Brokers are needed for a socket path that changes hands; of two
  terminals one unlocks again and again and the other locks, resolves or holds a
  connection. `Backlog`, the kernel's queue, is as long as there are clients.
* Key cache: one call that derives and one that waits, uses or expires what it
  derived; a period of two ticks, a derivation of at most one.
* Policy: three lines are an assignment or a write, a change to what it did, and
  the use of it; each line may itself nest shells up to `MaxDepth` = 3. A
  script as `t`, `./t` (one key), `~/t` (a key of its own) and a computed `$f`, a Secret
  file, two directories, and a disk that holds
  nothing, a script that runs itself here and another one there, or an older copy.
* MCP: two calls, since a cancellation, a response and a lookup concern one call
  and a wrong lookup needs another; three lines on stdin so that a cancellation
  can wait behind a request and in front of another. Each call may have an id of its
  own or none.
* Run: two runs and two directories give every overlap of one sweep with one
  owner or with another sweep; one kill, because a killed run's directory meets
  only later runs' sweeps.
* Redaction: two Patterns that overlap each other and themselves, with the third
  letter outside both at either end; five bytes hold a Pattern, the start of
  another and what follows it, in up to five Writes.
* Declarations: two processes, since a lost declaration and a run that reads
  between two writes need one other command. Two Handles and two variables that
  the Vault, the Manifests, the `.env` file and `--with` bind differently; a
  directory outside the project, one inside, and a link in it that leads into a
  nested repository. The command lines offered are one of each kind, with both
  Handles where the order of Handles matters.

### Fairness, and why the code justifies it

* VaultStore: a process that is not waiting for its child or for a human takes
  its next step. Acquiring the lock is polling with a deadline, so it needs no
  more than that.
* BrokerProcess: the same for Brokers, whose idle timer and connection deadlines
  end every wait, and for commands; the silent client is under no fairness.
* KeyCache: time passes, a call that has what it needs goes on, and `mu`, a
  `sync.Mutex`, is given in turn to the goroutines that wait for it (strong
  fairness of `Acquires`: Go's mutex hands itself over to a waiter that starves).
* CommandPolicy: `Evaluate` is one function call, which goes on to its end.
* McpServer: the reader and the calls proceed; the children, the client and the
  rest of the machine do as they like.
* RunDirs: commands go on being run and directories grow old, without which
  nothing sweeps.
* RedactWriter: timers fire and a goroutine gets the mutex. The child need never
  write again.

PassphraseUnlock, Keychain and Declarations have no liveness property: their steps wait for
nobody, or give up.

## Proofs

Each theorem is for instances of any size: any number of processes, Handles, calls,
Brokers, runs, keys, texts, and any value of the bounds. `tlapm <module>` checks them.

| Module | Theorem | States |
|---|---|---|
| VaultStoreProofs | `InvariantHolds`, `TypeCorrect` | the inductive invariant `IInv`, and the types in it |
| | `NoUpdateIsLost` | `[]NoLostUpdate`: a Save is of the change its command makes to the Vault as it is |
| | `AckedSaveSurvives` | `[]AckedSurvives`: what was reported as stored is on the disk |
| | `ExposedStaysExposed` | `ExposedUntilRotated`: no command, race or crash clears a mark but a new value or a removal |
| | `BackupFirst` | `BackupBeforeOverwrite`: no generation is replaced before a backup of it is durable |
| | `DataKeyIsForever` | `DataKeyForever`: the data key of a Vault never changes |
| | `Refinement` | `ImplementsAtomicVault`: every step is a step of AtomicVault or none |
| BrokerProcessProofs | `TypeCorrect`, `LockedForGood` | `LockedStaysLocked`: a Broker that acknowledged a LOCK answers no later request |
| UnlockSourcesProofs | `PassphraseTypes`, `PassphraseOpens` | `[]PassphraseAlwaysOpens`: wherever inits and upgrades are killed, the passphrase opens the Vault |
| | `UnlockFinishes` | `[]UnlockFinishesUpgrade`: a successful unlock leaves no upgrade unfinished |
| | `NewHomesAreStrong` | `[]NeverWeak`: a home made by this version never derives the old way |
| | `RightPassphraseIsNeverWrong` | `[]NeverFalselyRefused` |
| | `KeyIsInTheKeychain` | `[]KeychainOpens`: a Vault's key is in the Keychain before the Vault, unless it was given or an upgrade took it out or stored another |
| DeclarationsProofs | `ImportLosesNothing` | `[]PlaintextGoesLast`: the `.env` file goes after what it held is stored and declared |
| | `GlobalIsNeverOverwritten` | `GlobalDeclarationsKept`: no UpdateGlobal undoes another |
| | `ProjectsGetTheirContract` | `[]RunGetsItsContract`: a child has all that its project declares, by its name |
| | `GlobalsStayAmbient` | `[]GlobalIsAmbient`: a Global Handle passed every gate and contests no variable |
| KeyCacheProofs | `TypeCorrect`, `KeysAreWhole` | `[]KeysInUseAreWhole`: no key in use is zeroed, no expired one left |
| | `ServedKeysAreFresh` | `ServedKeyIsFresh`: what Key returns the Broker held within `Idle + MaxDelay` |
| McpServerProofs | `TypeCorrect`, `OneAnswer` | `[]OneAnswerUnlessCancelled` |
| | `NothingLeft`, `CaptureTruth`, `Drains` | `[]NothingIsLeftTracked`, `[]CaptureReportsTheTruth`, `[]EofDrains` |
| RunProofs | `TypeCorrect`, `SecretKept` | `[]LiveSecretKept`: no sweep takes a live run's Secret |
| | `NothingLeft` | `NothingLeftBehind`: destroy returns with the Secret gone |
| | `WriterTypes`, `NothingIsLost` | `[]NothingLost`: what is printed and held is what the child wrote |
| | `SecretsStayHidden` | `[]SecretNeverPrinted`: for any Patterns, overlapping or nested, and any cuts into Writes |
| | `ChunksNeverMatter` | `[]ChunksDoNotMatter`: two scans in a row are one |
| CommandPolicyProofs | `TypeCorrect`, `NothingRevealed` | `[]RevealsNothing`: no Secret reaches a printer but through a variable that was set past the evaluator |
| | `RecordIsKept` | `RecordStaysExact`: within `Follows` the record of a script stays what the file holds |
| | `WrittenIsJudged` | `[]WrittenScriptIsJudged`: while it does, no older copy is judged in its place |

None of the properties is inductive as it stands. In each module an invariant (`IInv`,
or the name given below) is what was added, and one lemma per action or group of actions shows that the step keeps it:

* **VaultStore** - `LockHeld` (the flock belongs to exactly the process between
  Acquire and Release; with two such processes any of the theorems fails),
  `SaveFits` (what that process is about to write is its command's effect on the
  Vault that is there now, and how far the backup has come), `DiskBehind` (the order
  of the generations acknowledged, durable, visible, and to be written).
* **BrokerProcess** - `ToldStops`: a Broker that has acknowledged a LOCK is on its way
  out and serves no connection.
* **PassphraseUnlock** - `PInv`. As long as nobody makes a salt, no file is being written
  in place and `broker.kdf` does not run ahead of the Vault (`Untouched`), and what a
  process read of the home is still true, but for a cost that was upgraded since
  (`Derived`). `Upgrades` is what a process knows of the Vault at each place of an upgrade:
  a key of its own opened it, and once a race was lost the Vault is at the current
  cost, so that there is no second race to lose. Once a salt is made, nothing is at the
  old cost (`MadeStrong`). Three assumptions are named: `HomesOpen` (a home to start
  from opens with its passphrase or has no Vault, which is what earlier versions and
  interrupted commands leave), `ContentsDiffer` (an empty or cut-off file is not a salt)
  and `SaltsAreBounded`.
* **Keychain** - `JobsFit`, what a process runs at each place, and what its key is: unless
  the last write was a foreign one or it is `apart` itself, an init past its store has put
  the key it is about to make a Vault of into the item, and an upgrade holds the Vault's
  own. `NoneElsewhere` is that a home without Keychain has
  no Vault in it. `OneInits` is assumed: one process at
  most may init (the rest upgrade), since two inits break the property.
* **KeyCache** - who holds `mu`; which slices belong to the cache and which to calls;
  that the cached key was the Broker's at most `age + MaxDelay` ticks ago.
* **McpServer** - `QueueFits` (a request waits on stdin once), `TrackFits` (a mark in
  `cancelled` belongs to a call that has a goroutine) and `AnswerFits`, which says at
  each place of a call what a mark means for its response. `OwnIds` is assumed: a
  client gives each request an id of its own, as `idKey`'s comment requires.
* **RunDirs** - `Apart` (no two runs have one directory), `Untouched` (nobody shreds
  the directory of a live run, unless it is too old or was condemned before its
  `.pid`), `Destroying` (what the shred of `destroy` has seen of the Secret file).
* **RedactWriter** - `RInv`: `Released` (what is held is the beginning of a Pattern, and
  a timer or a goroutine will release it), `Armed` (each timer is a Write's), `Clean` (no
  Pattern occurs in what is held) and `Covers`, the heart of it: every byte printed as
  itself is *excused* for every Pattern, because the child's output, as far as it
  has come, already differs from the Pattern there, because something of it is under a
  marker, or because idleFlush or Close cut it. `Covers` speaks of what was written
  and not only of what was printed, so that it needs no look into the future. That two
  scans are one (`ScanOn`) rests on the parse of a buffer being unique and, where
  no Pattern contains another, on the matches that a first scan took staying the matches
  of the longer buffer.
* **Declarations** - `DInv`: what a process holds of a Manifest or the `.env` file at its
  place in the command, that the lock on the Global Manifest has one owner and that its
  copy is the file, and that an import past its Vault's write has stored what it will
  shred. `OfferedAreCommandLines`: what is offered are command lines of the program.
  `RunInv`, for a run: once the files are read each declared Handle has a Ref that is no
  Global one, with a name that was declared or given, and a Global Ref is there only if
  every gate was open (`RefsFollow`); once they are resolved, each of these Refs was
  answered, and the variable of a Global Handle is known to be its own
  (`ResultAnswers` with `Separate`, which is what `checkCollision` keeps). Neither
  mentions the files, so a command that rewrites them in between changes nothing.
  What each fold computes is proved by a walk along its values (`WithRefFolds` and the
  four like it), and that a Manifest gives every Handle a Ref by the order of a finite
  set of numbers (`OrderExists`). `HandlesAreOrdered` says that Handles are finitely
  many numbers, `AbsentIsNoRef` that no Ref is the value for none.
* **CommandPolicy** - every variable that holds a Secret is bound, tainted or `unseen`, in
  the shell and in every environment a nested shell will come back to.

The temporal theorems follow from `IInv` by PTL. Beyond what is said above, the
assumptions are those the modules name: the model values that mean "nothing" are
not among the data, the bounds are numbers, the offered commands are commands.

What is only model-checked: all liveness (it needs fairness and ENABLED, which the
prover does not treat). Every safety invariant of the passing runs is proved. What
recursion and folds compute is proved by way of sets of numbers and the
well-foundedness of `<` (`Induction` and `SeqInduction` in RunProofs, `Reaches` in
DeclarationsProofs), since the library's induction rules take an operator that the
provers cannot instantiate; `Sorted` in Resolution chooses its sequence, since they do
not know `SortSeq`. Of the runs only MCVaultStore lists its `TypeOK`: the types of the
other modules are proved.

## What is not modelled

Things the models reach and no property forbids, because nothing in the repository
promises otherwise:

* the project's Manifest has no lock, so that of two commands that change it one can
  be lost (an opt-out from the Global Manifest, too);
* an unlock that gives up waiting leaves a Broker behind that a lock before its bind
  does not find, until its idle timeout ends it;
* two inits over an empty home leave a salt on the disk that is not the one of the
  Vault that won; two on macOS may leave one's key in the Keychain and the other's
  Vault;
* a capture that is cancelled after its child exited stores its Secret unanswered;
* a client that uses an id again while the cancelled call still runs gets the
  wrong one's answer;
* the record of written scripts does not follow a first append to a file that has
  changed since `cpass` looked, a heredoc into a computed name (kept under its text `$f`,
  by which `bash $f` is then judged, whatever `f` has become), a child shell that
  went to another directory to write, and a write or redirection by another
  spelling of the file: `writtenKey` is a `filepath.Clean` of the word (`policy.go:1080-1085`),
  so that an absolute path, `~/` or a link leaves the old entry as it was, whereas
  `docs/THREATS.md:357-360` says that a rewrite spelled differently cannot slip past.
  `Follows` names all of them, and `RecordStaysExact` excepts them; what a script that is
  then judged by other text prints (`phase = "astray"`) is not counted. An append that
  adds to `~/t` does not find what is there, since `os.ReadFile` expands no `~`;
* `readonly`, `local` and the variable of a `for` loop taint nothing
  (`policy.go:1164-1174`, `1294-1306`), although the comment of `tainted` speaks of any
  variable assigned from a bound one: `RevealsNothing` excepts what went through them
  (`unseen`);
* `keychain upgrade` asks for no Vault and stores whatever `UnlockKey` returns
  (`keychaincmd.go:61-71`): the key of `CPASS_KEY` or of the Broker, whether or not it
  opens the Vault, or the one an interrupted init left, over the one that a later init
  has stored meanwhile. A Vault whose init was given its key has it nowhere.
  `KeychainOpens` excepts them (`foreign`).

Not in any model: cryptography (an envelope is known by the key it is wrapped under and
its nonce), the wording of output, timestamps and exposure reasons, Windows' lock
and lack of directory fsync, the staged files of atomic writes that a kill leaves,
power loss of files that are not synced outside the Vault, the parsers (dotenv,
TOML, JSON), the installers, the site. An init that is given its
key where there is no Keychain (PassphraseUnlock), a home where `CPASS_UNLOCK=socket`
is set for one command and not for the next, the I/O errors that `shredDir` ignores,
that unlinking a file makes its directory young again, and Manifests that do not load
(an unreadable `global.toml` is skipped with a notice). A signal while a child runs is forwarded to it, and its end
is nondeterministic already; at any other time it is one of the kills. `dst.Write` of
the redactor succeeds or fails whole. Of the Command Policy: how `splitCommands` cuts
a text (its result is the input), literals and quoting (what `resolveLiteral` makes of a
variable that was set again, too), `~user`, indirect expansion, file
descriptor aliases, globs, `ProtectedDirs`, the readers' flags, `source`, and the
hook's walk over an Agent's tool input. Detection is regular expressions and entropy
over one prompt, without state. Each component that is left out or partly modelled
is listed in `PROJECT.json` with its reason.

## Plan

Built, in the order of what would hurt most: Vault (VaultEntries, AtomicVault,
VaultStore and its proofs), PassphraseUnlock, BrokerProcess, McpServer, RunDirs,
RedactWriter, Resolution, Declarations, CommandPolicy, KeyCache, Keychain and
UnlockSources, with proofs of the safety of all of them. Next:

1. *Extend the model.* An abstract specification of the Broker (a key that is held or
   not) for BrokerProcess to implement, and one of the redactor (the whole output,
   scanned at once) for RedactWriter. Variants' alignments as arithmetic over
   lengths. `source` and the readers' flags in CommandPolicy.
