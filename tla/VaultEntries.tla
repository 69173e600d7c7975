---------------------------- MODULE VaultEntries ----------------------------
(***************************************************************************)
(* What one Vault write does to the entry map: the pure part of            *)
(* internal/vault/vault.go (Add, Remove, Rename, MarkExposed,              *)
(* ClearExposed, Rewrap) together with the closures the cpass commands     *)
(* hand to vault.Update.                                                   *)
(*                                                                         *)
(* A Secret keeps its value and its Exposed flag.  Bindings, timestamps    *)
(* and exposure reasons are abstracted away.  Handles are well-formed      *)
(* Handles, so ValidateHandle never refuses one; TooShort are the values   *)
(* below MinSecretLength.                                                  *)
(***************************************************************************)
EXTENDS Naturals

CONSTANTS
    Handles,    \* well-formed Handles
    Values,     \* Secret values
    TooShort,   \* the values shorter than MinSecretLength
    Keys,       \* unlock keys
    Absent      \* marks a Handle that has no entry

ASSUME ShortValues == TooShort \subseteq Values

Secret == [value : Values, exposed : BOOLEAN]

ASSUME AbsentIsNoSecret == Absent \notin Secret

\* The map Vault.entries.
Entries == [Handles -> Secret \cup {Absent}]

Empty == [h \in Handles |-> Absent]

Present(e, h) == e[h] # Absent

(***************************************************************************)
(* The write commands.  "add" is cpass add; "capture" is cpass capture and *)
(* the MCP capture tool; "rm" takes its (distinct) arguments as a set;     *)
(* "import" is one .env file; "intercept" is the prompt hook, with the     *)
(* values it detected, blocking or bypassed with !!; "rewrap" is the       *)
(* passphrase upgrade's closure.  "create" is vault.Create.                *)
(***************************************************************************)
Command ==
    [op : {"create"}]
        \cup [op : {"add"}, h : Handles, v : Values, exposed : BOOLEAN]
        \cup [op : {"capture"}, h : Handles, v : Values, exposed : {FALSE}]
        \cup [op : {"rm"}, hs : SUBSET Handles]
        \cup [op : {"mv"}, h : Handles, to : Handles]
        \cup [op : {"mark", "clear"}, h : Handles]
        \cup [op : {"import"}, env : UNION {[S -> Values] : S \in SUBSET Handles}]
        \cup [op : {"intercept"}, found : SUBSET Values, bypass : BOOLEAN]
        \cup [op : {"rewrap"}, newKey : Keys]

New(v, x) == [value |-> v, exposed |-> x]

\* Every Handle in the domain of f gets the Secret f holds for it.
Overlay(e, f) == [h \in Handles |-> IF h \in DOMAIN f THEN f[h] ELSE e[h]]

\* The one-element set {x} if the code goes through with it, else nothing.
Unless(refused, x) == IF refused THEN {} ELSE {x}

\* Vault.Add.  capture's own re-check under the lock is the same test.
AddEdits(e, h, v, x) ==
    Unless(Present(e, h) \/ v \in TooShort, [e EXCEPT ![h] = New(v, x)])

\* cmdRm's loop: the first missing Handle aborts the whole write.
RemoveEdits(e, hs) ==
    Unless(\E h \in hs : ~Present(e, h),
           [h \in Handles |-> IF h \in hs THEN Absent ELSE e[h]])

\* Mutant: mv stores the value again as a new Secret.
RenameAddsAnew(e, from, to) ==
    Unless(~Present(e, from) \/ Present(e, to),
           [e EXCEPT ![to] = New(e[from].value, FALSE), ![from] = Absent])

\* Vault.Rename, which also refuses to rename a Handle to itself.
RenameEdits(e, from, to) ==
    Unless(~Present(e, from) \/ Present(e, to),
           [e EXCEPT ![to] = e[from], ![from] = Absent])

\* Vault.MarkExposed and Vault.ClearExposed.
FlagEdits(e, h, x) ==
    Unless(~Present(e, h), [e EXCEPT ![h] = New(e[h].value, x)])

\* cmdImport's closure: all of the file's entries or none of them.
ImportEdits(e, env) ==
    Unless(\E h \in DOMAIN env : Present(e, h) \/ env[h] \in TooShort,
           Overlay(e, [h \in DOMAIN env |-> New(env[h], FALSE)]))

\* Where intercept may put the values vs: uniqueHandle gives each of them a
\* Handle no entry and no other value of this call uses.
Placements(e, vs) ==
    {at \in [vs -> {h \in Handles : ~Present(e, h)}] :
        \A u, v \in vs : at[u] = at[v] => u = v}

\* The entries once every v in vs is stored, flagged x, at the Handle at[v].
Placed(e, vs, at, x) ==
    [h \in Handles |->
        IF \E v \in vs : at[v] = h
        THEN New(CHOOSE v \in vs : at[v] = h, x)
        ELSE e[h]]

\* cmdIntercept stores every value or none; interceptBypass skips a value
\* Vault.Add refuses, and does not write at all when nothing is left.
InterceptEdits(e, found, bypass) ==
    LET vs == IF bypass THEN found \ TooShort ELSE found
    IN  IF vs = {} \/ vs \cap TooShort # {}
        THEN {}
        ELSE {Placed(e, vs, at, bypass) : at \in Placements(e, vs)}

\* The entry maps command c may leave behind when it finds e; empty when it
\* returns an error and so never Saves.
Edits(c, e) ==
    IF c.op \in {"add", "capture"} THEN AddEdits(e, c.h, c.v, c.exposed)
    ELSE IF c.op = "rm" THEN RemoveEdits(e, c.hs)
    ELSE IF c.op = "mv" THEN RenameEdits(e, c.h, c.to)
    ELSE IF c.op \in {"mark", "clear"} THEN FlagEdits(e, c.h, c.op = "mark")
    ELSE IF c.op = "import" THEN ImportEdits(e, c.env)
    ELSE IF c.op = "intercept" THEN InterceptEdits(e, c.found, c.bypass)
    ELSE IF c.op = "rewrap" THEN {e}
    ELSE {}

\* The unlock key the data key is wrapped under once c is saved (Rewrap).
WrapAfter(c, wrap) == IF c.op = "rewrap" THEN c.newKey ELSE wrap

(***************************************************************************)
(* One generation of vault.cpv.  nonce stands for the fresh randomness     *)
(* every Save seals with; dataKey for the random data key of the Create    *)
(* that made this Vault; wrap for the unlock key the data key is wrapped   *)
(* under.                                                                  *)
(***************************************************************************)
Envelope == [nonce : Nat, wrap : Keys, dataKey : Nat, entries : Entries]

Envelope0(n, k) == [nonce |-> n, wrap |-> k, dataKey |-> n, entries |-> Empty]

\* What Save seals, as generation n, for command c run against generation g.
Sealed(g, c, e, n) ==
    [nonce |-> n, wrap |-> WrapAfter(c, g.wrap),
     dataKey |-> g.dataKey, entries |-> e]
=============================================================================
