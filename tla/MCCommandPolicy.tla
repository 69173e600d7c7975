-------------------------- MODULE MCCommandPolicy --------------------------
(***************************************************************************)
(* A home with the script t, a directory sub with a t of its own, and ~/t, *)
(* which is the home's from anywhere.                                      *)
(***************************************************************************)
EXTENDS CommandPolicy

MCClean == [n \in Name |-> IF n = "./t" THEN "t" ELSE n]

MCPlace == [d \in Dir |-> [n \in Name |-> CASE n = ".env" -> "env"
                                            [] n = "~/t"  -> "home_t"
                                            [] OTHER -> IF d = "home" THEN "home_t" ELSE "sub_t"]]

Let(how, x, w) == [op |-> "assign", how |-> how, var |-> x, arg |-> w]
Echo(w, to, append, b) == [op |-> "say", arg |-> w, to |-> to, append |-> append, text |-> b]
Heredoc(w, to, append, b) == [op |-> "write", arg |-> w, to |-> to, append |-> append, text |-> b]

\* Every Body, as the simple commands in it.  "good" and "self" are also what
\* files hold: "self" is a script that runs itself.
MCScript == [
    good   |-> <<[op |-> "read", arg |-> "t"]>>,
    self   |-> <<Let("plain", "x", "B"), [op |-> "run", arg |-> "./t"]>>,
    roams  |-> <<[op |-> "cd", dir |-> "sub"], Heredoc(None, "t", FALSE, "good")>>,
    copies |-> <<Let("export", "y", "x"), Echo("y", None, FALSE, "good")>>,
    takes  |-> <<Let("plain", "x", "B")>>,
    hides  |-> <<Let("readonly", "x", "B")>>,
    loops  |-> <<Let("for", "y", "x")>>,
    names  |-> <<Let("declare", "y", "t")>>,
    says   |-> <<Echo("y", None, FALSE, "good")>>,
    echoes |-> <<Echo("t", "./t", TRUE, "self")>>,
    spells |-> <<Echo("t", "~/t", FALSE, "self")>>,
    blind  |-> <<Echo("t", "$f", FALSE, "self")>>,
    writes |-> <<Heredoc(None, "./t", FALSE, "self")>>,
    adds   |-> <<Heredoc("x", "t", TRUE, "good")>>,
    homes  |-> <<Heredoc(None, "~/t", TRUE, "good")>>,
    lost   |-> <<Heredoc(None, "$f", FALSE, "good")>>,
    reads  |-> <<[op |-> "read", arg |-> "y"]>>,
    spills |-> <<[op |-> "read", arg |-> ".env"]>>,
    finds  |-> <<[op |-> "wrapread", arg |-> "t", levels |-> 2]>>,
    leaks  |-> <<[op |-> "wrapread", arg |-> ".env", levels |-> 1]>>,
    goes   |-> <<[op |-> "cd", dir |-> "sub"]>>,
    back   |-> <<[op |-> "cd", dir |-> "home"]>>,
    runs   |-> <<[op |-> "run", arg |-> "t"]>>,
    blurs  |-> <<[op |-> "run", arg |-> "$f"]>>,
    wraps  |-> <<[op |-> "wraprun", arg |-> "t"]>>,
    inner  |-> <<[op |-> "inline", text |-> "copies"]>>,
    away   |-> <<[op |-> "inline", text |-> "roams"]>>,
    within |-> <<[op |-> "inline", text |-> "tools"]>>,
    deep   |-> <<[op |-> "inline", text |-> "within"]>>,
    deeper |-> <<[op |-> "inline", text |-> "deep"]>>,
    piped  |-> <<[op |-> "stdin", arg |-> "x", text |-> "writes"]>>,
    evals  |-> <<[op |-> "eval", text |-> "takes"]>>,
    substs |-> <<[op |-> "subst", text |-> "adds"]>>,
    tools  |-> <<[op |-> "tool"]>>,
    dumps  |-> <<[op |-> "dump"]>>]

MCBody == DOMAIN MCScript
MCLines == MCBody \ {"good", "self", "roams", "copies", "within"}

On(t, u) == [home_t |-> t, sub_t |-> u, env |-> None]
MCDisks == {On(None, None), On(<<"self">>, <<"good">>), On(<<"good">>, None)}
=============================================================================
