-------------------------- MODULE MCUnlockSources --------------------------
(***************************************************************************)
(* The homes of MCPassphraseUnlock, and macOS: one terminal inits and      *)
(* upgrades the Keychain item, another one only upgrades.  Of two inits    *)
(* that race, one may leave its key in the Keychain and the other its      *)
(* Vault on the disk, which nothing in the code promises against.          *)
(***************************************************************************)
EXTENDS UnlockSources, MCPassphraseUnlock

\* Any build, with or without a key from elsewhere; keychain upgrade is of no use
\* without --touch-id, and the build makes no difference to init with such a key.
Jobs(cmd, touchID, builds, given) ==
    [cmd : {cmd}, touchID : touchID, build : builds, given : given]

AnyBuild == {"plain", "touchid", "signed"}
Inits == Jobs("init", BOOLEAN, AnyBuild, {NoItem}) \cup Jobs("init", {FALSE}, {"plain"}, Others)
Upgrades == Jobs("upgrade", {TRUE}, AnyBuild, {NoItem})
            \cup Jobs("upgrade", {TRUE}, {"touchid", "signed"}, Others)

MacOffered == [p \in Procs |-> CASE p = p1 -> Inits \cup Upgrades
                                 [] p = p2 -> Upgrades
                                 [] OTHER  -> {}]

\* Nothing yet, a Vault and its key, and what an interrupted init leaves.
MacHomes == {[vault |-> NoFile, item |-> NoItem],
             [vault |-> 1, item |-> 1],
             [vault |-> NoFile, item |-> 1]}
=============================================================================
