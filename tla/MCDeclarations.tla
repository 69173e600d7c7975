--------------------------- MODULE MCDeclarations ---------------------------
(***************************************************************************)
(* Two Handles that may ask for one variable, and a directory of each      *)
(* kind: the project's, one below it, a repository cloned into it, a link  *)
(* beside the Manifest that leads into that repository, and one elsewhere. *)
(***************************************************************************)
EXTENDS Declarations

CONSTANTS x, y, top, root, sub, clone, link, p1, p2

MCDefaultName == (1 :> x @@ 2 :> y)

MCLexical ==
    (top :> <<top>> @@ root :> <<root, top>> @@ sub :> <<sub, root, top>>
     @@ clone :> <<clone, root, top>> @@ link :> <<link, root, top>>)

MCPhysical == [MCLexical EXCEPT ![link] = <<sub, clone, root, top>>]

MCEnvFile == (1 :> x @@ 2 :> y)

Run(dir) == [op |-> "run", dir |-> dir, with |-> <<>>, listed |-> FALSE,
             noGlobal |-> FALSE, environ |-> Absent]

MCRuns ==
    {Run(d) : d \in {top, sub, link}}
    \cup {[Run(sub) EXCEPT !.noGlobal = TRUE],
          [Run(sub) EXCEPT !.with = <<[h |-> 1, override |-> y]>>],
          [Run(sub) EXCEPT !.with = <<[h |-> 2, override |-> Absent]>>, !.listed = TRUE]}
    \cup {[Run(sub) EXCEPT !.environ = (x :> e[1] @@ y :> e[2])] :
               e \in {<<"long", "short">>, <<"short", "long">>, <<Absent, "long">>}}

MCOffered ==
    {[op |-> "init", off |-> FALSE],
     [op |-> "toggle", off |-> TRUE],
     [op |-> "declare", h |-> 2, name |-> x],
     [op |-> "global", h |-> 2, name |-> Absent],
     [op |-> "local", h |-> 2],
     [op |-> "add", h |-> 1, name |-> Absent, g |-> TRUE],
     [op |-> "add", h |-> 2, name |-> y, g |-> FALSE],
     [op |-> "import", keep |-> FALSE],
     [op |-> "rm", h |-> 1]}
    \cup MCRuns

Symm == Permutations(Procs)
=============================================================================
