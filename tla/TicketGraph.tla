---------------------------- MODULE TicketGraph ----------------------------
(***************************************************************************)
(* The dependencies between the tickets of a repository, as the kit walks  *)
(* them: governance.py validate_ticket_graph looks for cycles with a       *)
(* coloured depth-first search, autopilot.py critical_path for the longest *)
(* chain of what is left, remembering the chains it has found.             *)
(*                                                                         *)
(* Both are recursive functions there; here the call stack is a variable   *)
(* and each step of a call is an action.  Orders of dictionaries and lists *)
(* are left open.                                                          *)
(***************************************************************************)
EXTENDS Naturals, Sequences, FiniteSets

CONSTANT Nodes  \* ticket ids

ASSUME TicketGraphAssumption == IsFiniteSet(Nodes)

VARIABLES
  dependencies,  \* of each ticket
  phase,         \* "visit", "paths" or "done"
  calls,         \* the call stack, innermost call last
  color,         \* of the search: "white", "grey", "black"
  cycle,         \* TICKET_DAG_CYCLE was reported
  done,          \* the tickets that have been verified after their merge
  dropped,       \* the tickets another one invalidates or supersedes
  roots,         \* tickets critical_path has still to start from
  memo,          \* the chains it remembers, << >> for none
  deepest        \* the longest chain so far

graphVars == <<dependencies, phase, calls, color, cycle, done, dropped, roots,
               memo, deepest>>

\* A call: its ticket, the dependencies it has still to look at, and the
\* longest chain among those it has looked at.
Call(n, todo) == [at |-> n, todo |-> todo, best |-> << >>]

Top == calls[Len(calls)]
Return == SubSeq(calls, 1, Len(calls) - 1)
Looked(d) == [calls EXCEPT ![Len(calls)].todo = @ \ {d}]

Chains == UNION {[1 .. k -> Nodes] : k \in 0 .. Cardinality(Nodes)}

TicketGraphTypeOK ==
  /\ dependencies \in [Nodes -> SUBSET Nodes]
  /\ phase \in {"visit", "paths", "done"}
  /\ \A i \in DOMAIN calls :
       calls[i].at \in Nodes /\ calls[i].todo \subseteq Nodes /\ calls[i].best \in Chains
  /\ color \in [Nodes -> {"white", "grey", "black"}]
  /\ cycle \in BOOLEAN
  /\ done \subseteq Nodes /\ dropped \subseteq Nodes /\ roots \subseteq Nodes
  /\ memo \in [Nodes -> Chains] /\ deepest \in Chains

TicketGraphInit ==
  /\ dependencies \in [Nodes -> SUBSET Nodes]
  /\ phase = "visit"
  /\ calls = << >>
  /\ color = [n \in Nodes |-> "white"]
  /\ cycle = FALSE
  /\ done = {} /\ dropped = {} /\ roots = {}
  /\ memo = [n \in Nodes |-> << >>]
  /\ deepest = << >>

-----------------------------------------------------------------------------
\* governance.py: visit.

StartVisit(n) ==
  /\ phase = "visit" /\ calls = << >>
  /\ color[n] = "white"
  /\ color' = [color EXCEPT ![n] = "grey"]
  /\ calls' = <<Call(n, dependencies[n])>>
  /\ UNCHANGED <<dependencies, phase, cycle, done, dropped, roots, memo, deepest>>

\* Defective variant: every ticket that was met before is on the way.
VisitMet(d) ==
  /\ cycle' = (cycle \/ color[d] # "white")
  /\ IF color[d] = "white"
     THEN /\ color' = [color EXCEPT ![d] = "grey"]
          /\ calls' = Append(Looked(d), Call(d, dependencies[d]))
     ELSE UNCHANGED color /\ calls' = Looked(d)

\* A grey dependency closes a cycle, a white one is visited, a black one is
\* known.
VisitOne(d) ==
  /\ cycle' = (cycle \/ color[d] = "grey")
  /\ IF color[d] = "white"
     THEN /\ color' = [color EXCEPT ![d] = "grey"]
          /\ calls' = Append(Looked(d), Call(d, dependencies[d]))
     ELSE UNCHANGED color /\ calls' = Looked(d)

VisitDependency ==
  /\ phase = "visit" /\ calls # << >>
  /\ \E d \in Top.todo : VisitOne(d)
  /\ UNCHANGED <<dependencies, phase, done, dropped, roots, memo, deepest>>

VisitReturns ==
  /\ phase = "visit" /\ calls # << >> /\ Top.todo = {}
  /\ color' = [color EXCEPT ![Top.at] = "black"]
  /\ calls' = Return
  /\ UNCHANGED <<dependencies, phase, cycle, done, dropped, roots, memo, deepest>>

-----------------------------------------------------------------------------
\* autopilot.py: open_tickets, compute_ready, critical_path.

Open(verified) == Nodes \ (dropped \cup verified)

Ready(verified) == {n \in Open(verified) : dependencies[n] \subseteq verified}

\* reconcile, for any facts about the tickets, on any graph.
StartPaths ==
  /\ phase = "visit" /\ calls = << >>
  /\ \A n \in Nodes : color[n] = "black"
  /\ phase' = "paths"
  /\ done' \in SUBSET Nodes
  /\ dropped' \in SUBSET (Nodes \ done')
  /\ roots' = Nodes \ (done' \cup dropped')
  /\ UNCHANGED <<dependencies, calls, color, cycle, memo, deepest>>

\* Defective variant: the chain that comes last is kept.
Later(c, d) == c

Longer(c, d) == IF Len(c) > Len(d) THEN c ELSE d

StartLongest(n) ==
  /\ phase = "paths" /\ calls = << >> /\ n \in roots
  /\ roots' = roots \ {n}
  /\ IF memo[n] = << >>
     THEN calls' = <<Call(n, dependencies[n])>> /\ UNCHANGED deepest
     ELSE deepest' = Longer(memo[n], deepest) /\ UNCHANGED calls
  /\ UNCHANGED <<dependencies, phase, color, cycle, done, dropped, memo>>

Visiting == {calls[i].at : i \in DOMAIN calls}

\* The chain of a dependency: one that is not open or on the way is passed
\* over, one that is remembered is compared, any other is called.
LongestDependency ==
  /\ phase = "paths" /\ calls # << >>
  /\ \E d \in Top.todo :
       calls' = IF d \notin Open(done) THEN Looked(d)
                ELSE IF memo[d] # << >>
                THEN [Looked(d) EXCEPT ![Len(calls)].best = Longer(memo[d], @)]
                ELSE IF d \in Visiting THEN Looked(d)
                ELSE Append(Looked(d), Call(d, dependencies[d]))
  /\ UNCHANGED <<dependencies, phase, color, cycle, done, dropped, roots, memo, deepest>>

\* The result goes to the caller.
Hand(chain) == [Return EXCEPT ![Len(Return)].best = Longer(chain, @)]

LongestReturns ==
  /\ phase = "paths" /\ calls # << >> /\ Top.todo = {}
  /\ LET chain == Append(Top.best, Top.at) IN
       /\ memo' = [memo EXCEPT ![Top.at] = chain]
       /\ IF Return = << >>
          THEN calls' = << >> /\ deepest' = Longer(chain, deepest)
          ELSE calls' = Hand(chain) /\ UNCHANGED deepest
  /\ UNCHANGED <<dependencies, phase, color, cycle, done, dropped, roots>>

PathsEnd ==
  /\ phase = "paths" /\ calls = << >> /\ roots = {}
  /\ phase' = "done"
  /\ UNCHANGED <<dependencies, calls, color, cycle, done, dropped, roots, memo, deepest>>

TicketGraphNext ==
  \/ \E n \in Nodes : StartVisit(n) \/ StartLongest(n)
  \/ VisitDependency \/ VisitReturns
  \/ StartPaths \/ LongestDependency \/ LongestReturns \/ PathsEnd

-----------------------------------------------------------------------------
\* A graph has a cycle when one can go on for ever within some of its nodes.
Cyclic == \E S \in (SUBSET Nodes) \ {{}} : \A n \in S : dependencies[n] \cap S # {}

(***************************************************************************)
(* The search reports a cycle exactly when there is one, in whatever order *)
(* tickets and dependencies are listed: two ways to the same ticket are    *)
(* not taken for one (governance.py:497-512).                              *)
(***************************************************************************)
CyclesAreFound == phase # "visit" => cycle = Cyclic

\* What is verified when k times everything that was ready has been delivered.
Rounds ==
  LET after[k \in 0 .. Cardinality(Nodes)] ==
        IF k = 0 THEN done ELSE after[k - 1] \cup Ready(after[k - 1])
  IN  after

\* Tickets that are never ready: they wait, at some distance, for a ticket
\* that is dropped.
Stuck == Open(done) \ Rounds[Cardinality(Nodes)]

(***************************************************************************)
(* On a graph that was accepted the depth is the number of rounds that are *)
(* left: after as many, every ticket is delivered that ever can be, and    *)
(* one round earlier the end of the chain is not (autopilot.py:232-263).   *)
(* The tickets that ever can be are all but those that wait for a dropped  *)
(* one, which critical_path counts as if they waited for nothing.          *)
(***************************************************************************)
DepthIsRounds ==
  phase = "done" /\ ~cycle =>
    /\ Len(deepest) <= Cardinality(Nodes)
    /\ Open(Rounds[Len(deepest)]) = Stuck
    /\ deepest # << >> =>
         deepest[Len(deepest)] \in Open(Rounds[Len(deepest) - 1])
    /\ \A n \in Stuck : dependencies[n] \cap (dropped \cup Stuck) # {}
=============================================================================
