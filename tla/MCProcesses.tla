---------------------------- MODULE MCProcesses ----------------------------
(***************************************************************************)
(* Instances of Processes for TLC: the options that processes are called   *)
(* with, and a file system with links: /link leads to the clone of a       *)
(* discovered repository, which does not exist yet, /l to /srv, and        *)
(* /srv/b/x to ../y.  None of the directories of clones exist.             *)
(*                                                                         *)
(* In the second file system /l leads to /srv/b, so that /l/x is /srv/y,   *)
(* not /y; and /y/z leads to /w, which exists.                             *)
(***************************************************************************)
EXTENDS Processes, TLC

CONSTANTS p1, p2, lower, upper

TwoProcs  == {p1, p2}
Spellings == {lower, upper}
LowerCase == [r \in Spellings |-> lower]

h1 == <<"h1">>
h2 == <<"h2">>
TwoHomes == {h1, h2}

File(home, repo, branch, directory, state) ==
  [home |-> home, repo |-> repo, remote |-> "r", branch |-> branch,
   file |-> TRUE, directory |-> directory, state |-> state]
Discovered ==
  [home |-> h2, repo |-> lower, remote |-> "r", branch |-> "main",
   file |-> FALSE, directory |-> <<>>, state |-> <<>>]

Space    == Workspace(Discovered)
Checkout == Space \o <<"checkout">>
s1       == <<"s1">>

Link(abs, to) == [abs |-> abs, to |-> to]
ThreeLinks ==
  (<<"link">> :> Link(TRUE, Checkout))
    @@ (<<"l">> :> Link(TRUE, <<"srv">>))
    @@ (<<"srv", "b", "x">> :> Link(FALSE, <<"..", "y">>))
ThreeLeads ==
  (<<"link">> :> Checkout) @@ (<<"l">> :> <<"srv">>) @@ (<<"srv", "b", "x">> :> <<"srv", "y">>)
Exist  == {<<>>, <<"srv">>, <<"srv", "b">>, h1, h2}
Leaves == Exist \union {Checkout, <<"srv", "y">>}

\* Another branch, another clone, and a state that is in the clone.
Ways ==
  {Discovered,
   File(h1, lower, "main", <<"link">>, s1),
   File(h1, lower, "dev", <<"link">>, s1),
   File(h1, lower, "main", <<"l", "b", "x">>, s1),
   File(h2, upper, "main", <<"l", "b", "x">>, s1),
   File(h1, lower, "main", <<"link">>, Checkout \o <<"state">>)}

StatePlaces == {s1, Space \o <<"state">>, Checkout \o <<"state">>}
ClonePlaces == {Checkout, <<"srv", "y">>, <<"link">>, <<"srv", "b", "x">>}

CrossLinks ==
  (<<"l">> :> Link(TRUE, <<"srv", "b">>))
    @@ (<<"srv", "b", "x">> :> Link(FALSE, <<"..", "y">>))
    @@ (<<"y", "z">> :> Link(TRUE, <<"w">>))
CrossLeads ==
  (<<"l">> :> <<"srv", "b">>) @@ (<<"srv", "b", "x">> :> <<"srv", "y">>) @@ (<<"y", "z">> :> <<"w">>)
CrossExist  == {<<>>, <<"srv">>, <<"srv", "b">>, <<"y">>, <<"w">>, h1}
CrossLeaves == CrossExist \union {<<"srv", "y">>}
StateInside == {File(h1, lower, "main", <<"l", "x", "z">>, <<"w", "state">>)}
CrossStates == {<<"w", "state">>}
CrossClones == {<<"y", "z">>, <<"srv", "y", "z">>}

Symmetry == Permutations(TwoProcs)

=============================================================================
