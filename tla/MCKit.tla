-------------------------------- MODULE MCKit --------------------------------
(***************************************************************************)
(* Values for the constants of Kit in the run of TLC.                      *)
(***************************************************************************)
EXTENDS Kit, TLC

\* Two syncs side by side; the whole set-up for both types of account, and
\* its gate; the canary and the gate that reads its evidence.
MCTogether == {"sync", "second sync"}
MCOffers ==
  {<<"User", MCTogether>>,
   <<"User", {"install", "resolve", "sync", "gate"}>>,
   <<"Organization", {"install", "resolve", "sync", "gate"}>>,
   <<"User", {"canary", "gate"}>>}
MCOrder == <<"t1", "t2">>

\* One file of each class that check-pr tells apart, and one to come.
MCSpare == {<<"src", "a", "new">>}
MCPaths ==
  MCSpare \cup
  {PolicyFile, <<"scripts", "autopilot.py">>,
   <<".github", "workflows", "extra.yml">>, Adr, <<"src", "a", "x">>,
   <<"src", "b", "x">>, <<"tests", "a">>, <<"tests", "b">>}

Glob(p) == [path |-> p, glob |-> TRUE]
Blank ==
  [kind |-> "implementation", high |-> FALSE, owned |-> {}, coordinated |-> {},
   oracle |-> {}, tests |-> {}, invalidates |-> {}, supersedes |-> {}]

DraftA ==
  [Blank EXCEPT !.high = TRUE, !.owned = {Glob(<<"src", "a">>)},
                !.oracle = {Exactly(<<"tests", "a">>)}, !.tests = {<<"tests", "a">>}]

\* Owns the scripts, kernel and all, and the tests of others in coordination.
DraftB ==
  [Blank EXCEPT !.owned = {Glob(<<"src", "b">>), Glob(<<"scripts">>)},
                !.coordinated = {Glob(<<"tests">>)},
                !.oracle = {Exactly(<<"tests", "b">>)}, !.tests = {<<"tests", "b">>}]

\* Takes the paths of A over, and makes its own old product its oracle.
DraftBAnew ==
  [Blank EXCEPT !.owned = {Glob(<<"src", "a">>)}, !.supersedes = {"A"},
                !.oracle = {Glob(<<"src", "b">>)}, !.tests = {<<"src", "b", "x">>}]

DraftC == [Blank EXCEPT !.kind = "contract-change"]
DraftG ==
  [Blank EXCEPT !.kind = "governance-change", !.high = TRUE,
                !.owned = {Glob(<<"governance">>)}]

MCDrafts ==
  ("A" :> {DraftA}) @@ ("B" :> {DraftB, DraftBAnew}) @@ ("C" :> {DraftC}) @@ ("G" :> {DraftG})
MCSeed == ("A" :> DraftA) @@ ("C" :> DraftC) @@ ("G" :> DraftG)
=============================================================================
