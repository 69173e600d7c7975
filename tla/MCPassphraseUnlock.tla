------------------------- MODULE MCPassphraseUnlock -------------------------
(***************************************************************************)
(* The homes PassphraseUnlock starts from.                                 *)
(***************************************************************************)
EXTENDS PassphraseUnlock, TLC

CONSTANTS p1, p2, p3, right, wrong

Home(v, s, k) == [vault |-> v, salt |-> s, kdf |-> k]

\* Nothing there yet.
Fresh == {Home(NoFile, NoFile, NoFile)}

\* A Vault made by an older cpass, one whose upgrade was interrupted before
\* broker.kdf was written, and one made by this cpass.
Legacy == Home(KeyOf(right, 0, "legacy"), 0, NoFile)
Existing == {Legacy,
             Home(KeyOf(right, 0, "legacy"), 0, "legacy"),
             Home(KeyOf(right, 0, "current"), 0, NoFile),
             Home(KeyOf(right, 0, "current"), 0, "current")}

\* What an interrupted init leaves: broker.kdf, or both files and no Vault yet.
Begun == {Home(NoFile, NoFile, "current"), Home(NoFile, 0, "current")}

AnyHome == Existing \cup Fresh \cup Begun

JustLegacy == {Legacy}
=============================================================================
