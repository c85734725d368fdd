--------------------------- MODULE ChangeControl ---------------------------
(***************************************************************************)
(* The contract of a governed repository over a history of pull requests:  *)
(* what a ticket may say (governance.py validate) and what a pull request  *)
(* may change (governance.py check-pr), both judged on the head, whose     *)
(* tickets are part of what the pull request changes.                      *)
(*                                                                         *)
(* A path is the sequence of its segments; a pattern is a path, or with    *)
(* glob the directory whose files it stands for.  A pull request changes   *)
(* one ticket file and one other file at most: check-pr looks at the       *)
(* changed files one by one.  Each is up to date with its base.            *)
(***************************************************************************)
EXTENDS Naturals, Sequences, FiniteSets

CONSTANTS
  Paths,       \* files of the repository, tickets aside
  Spare,       \* those that are not there at the beginning
  Drafts,      \* for each ticket id, what people may write into its file
  Seed,        \* the tickets of the beginning
  MaxLandings  \* bound on merges

VARIABLES
  tree,     \* for each path whether it is there, and who changed it last
  tickets,  \* docs/tickets: a function of the ids in use
  landings, \* merges so far
  last,     \* auxiliary: for each ticket that was merged its last merge
  recast    \* auxiliary: tickets rewritten or removed after a merge

changeVars == <<tree, tickets, landings, last, recast>>

-----------------------------------------------------------------------------
\* Paths and patterns.

Exactly(p) == [path |-> p, glob |-> FALSE]

Begins(s, t) == Len(s) <= Len(t) /\ SubSeq(t, 1, Len(s)) = s

\* path_matches on texts: src/** matches src/x, src/x/** and itself.
Matches(a, b) ==
  IF a.glob THEN Begins(a.path, b.path) /\ (Len(b.path) > Len(a.path) \/ b.glob)
  ELSE a = b

AnyMatch(patterns, p) == \E a \in patterns : Matches(a, Exactly(p))

KernelFiles == {<<"scripts", "autopilot.py">>, <<".github", "workflows", "ci.yml">>}

\* is_kernel_path, which is asked about patterns too: scripts/** is none.
KernelText(a) ==
  \/ a.path[1] = "governance"
  \/ ~a.glob /\ a.path \in KernelFiles

Kernel(p) == KernelText(Exactly(p))
IsWorkflow(p) == Begins(<<".github", "workflows">>, p)
IsDocument(p) == p[1] = "docs"

TicketFile(t) == <<"docs", "tickets", t>>
Adr == <<"docs", "adr", "ADR-0001">>
PolicyFile == <<"governance", "policy.v1.json">>

-----------------------------------------------------------------------------
\* Tickets.

Kinds == {"implementation", "contract-change", "governance-change", "rollback"}
Executable == {"implementation", "rollback"}

\* validate_ticket_meta.
MetaHolds(m) ==
  /\ m.kind \in Executable => m.owned # {}
  /\ m.kind = "rollback" => m.invalidates # {}
  /\ \A o \in m.oracle, w \in m.owned : ~Matches(w, o) /\ ~Matches(o, w)
  /\ m.kind # "governance-change" => \A w \in m.owned : ~KernelText(w)
  /\ m.kind = "governance-change" => m.high
  /\ m.kind = "implementation" => m.tests # {}
  /\ m.oracle # {} => \A p \in m.tests : AnyMatch(m.oracle, p)

\* R is the ticket of a rollback.
Ids == DOMAIN Drafts \cup {"R"}

Path == Seq(STRING) \ {<< >>}
Pattern == [path : Path, glob : BOOLEAN]
Ticket ==
  [kind : Kinds, high : BOOLEAN, owned : SUBSET Pattern,
   coordinated : SUBSET Pattern, oracle : SUBSET Pattern, tests : SUBSET Paths,
   invalidates : SUBSET Ids, supersedes : SUBSET Ids]

\* No person writes the ticket of a rollback or the one a revert would need;
\* genesis marks the files of the beginning.
ASSUME ChangeControlAssumption ==
  /\ Paths \subseteq Path /\ {PolicyFile, Adr} \subseteq Paths
  /\ DOMAIN Drafts \cap {"R", "fresh", "genesis"} = {}
  /\ \A t \in DOMAIN Drafts : Drafts[t] \subseteq Ticket
  /\ DOMAIN Seed \subseteq DOMAIN Drafts
  /\ \A t \in DOMAIN Seed : Seed[t] \in Ticket
  /\ MaxLandings \in Nat

Refs(m) == m.invalidates \cup m.supersedes

Terminal(ts) == UNION {Refs(ts[t]) : t \in DOMAIN ts}

\* Defective variant: a ticket that was replaced still owns its paths.
ActiveForever(ts) == DOMAIN ts

Active(ts) == DOMAIN ts \ Terminal(ts)

Linked(ts, a, b) == b \in Refs(ts[a]) \/ a \in Refs(ts[b])

Overlap(v, w) ==
  v = w \/ Matches(v, Exactly(w.path)) \/ Matches(w, Exactly(v.path))

\* validate_ticket_graph, the cycles aside: references and ownership.
GraphHolds(ts) ==
  /\ Terminal(ts) \subseteq DOMAIN ts
  /\ \A a, b \in Active(ts) :
       a = b \/ Linked(ts, a, b)
       \/ \A v \in ts[a].owned, w \in ts[b].owned : ~Overlap(v, w)

There(f, p) == f[p].is = "there"

\* validate_oracles, and the ADR every implementation refers to.
OraclesHold(f, ts) ==
  \A t \in DOMAIN ts :
    ts[t].kind = "implementation" =>
      /\ There(f, Adr)
      /\ ts[t].high => \A p \in ts[t].tests : There(f, p)

\* validate, as far as pull requests change it.
RepoHolds(f, ts) ==
  /\ There(f, PolicyFile)
  /\ \A t \in DOMAIN ts : MetaHolds(ts[t])
  /\ GraphHolds(ts)
  /\ OraclesHold(f, ts)

\* autopilot.py rollback: the ticket it writes.
RollbackOf(ts, t) ==
  [kind |-> "rollback", high |-> ts[t].high, owned |-> ts[t].owned,
   coordinated |-> {}, oracle |-> {}, tests |-> {},
   invalidates |-> {t}, supersedes |-> {}]

-----------------------------------------------------------------------------
\* Pull requests.

\* Defective variant: what a ticket owns it may change, whatever it is.
MayImplementOwned(t, m, p) ==
  AnyMatch(m.owned \cup m.coordinated, p)

MayImplement(t, m, p) ==
  /\ p \notin {TicketFile(t), Adr}
  /\ ~Kernel(p) /\ ~IsWorkflow(p)
  /\ ~AnyMatch(m.oracle, p)
  /\ AnyMatch(m.owned \cup m.coordinated, p)

\* product_code_paths: documents, kernel and every oracle are no product.
MayContract(ts, p) ==
  /\ ~Kernel(p)
  /\ IsDocument(p) \/ \E u \in DOMAIN ts : AnyMatch(ts[u].oracle, p)

MayGovern(t, p) ==
  \/ Kernel(p) \/ p[1] = ".github"
  \/ p = TicketFile(t) \/ Begins(<<"docs", "adr">>, p)

MayRollBack(ts, t, p) ==
  \/ Begins(<<"docs", "tickets">>, p)
  \/ AnyMatch(ts[t].owned, p)
  \/ \E u \in ts[t].invalidates \cap DOMAIN ts : AnyMatch(ts[u].owned \cup ts[u].oracle, p)

InScope(ts, t, p) ==
  CASE ts[t].kind = "implementation"    -> MayImplement(t, ts[t], p)
    [] ts[t].kind = "contract-change"   -> MayContract(ts, p)
    [] ts[t].kind = "governance-change" -> MayGovern(t, p)
    [] OTHER                            -> MayRollBack(ts, t, p)

\* check_pr: t is the ticket the body names, shown what git diff lists, f and
\* ts the head.
CheckPR(f, ts, t, shown) ==
  /\ t \in DOMAIN ts
  /\ \A c \in shown : InScope(ts, t, c.path)
  /\ \A c \in shown, u \in DOMAIN ts \ {t} :
       c.status = "D" /\ AnyMatch(ts[u].oracle, c.path) => u \in Refs(ts[t])
  /\ ts[t].kind \in Executable => \A p \in ts[t].tests : There(f, p)
  /\ RepoHolds(f, ts)

\* changed_files_from_git: a file that is moved is listed under its new name
\* only.
Shown(c) == [status |-> c.status, path |-> c.path]

\* What can happen to a file.
Changes ==
  [status : {"A"}, path : {p \in Paths : ~There(tree, p)}]
  \cup [status : {"M", "D"}, path : {p \in Paths : There(tree, p)}]
  \cup [status : {"R"}, path : {p \in Paths : ~There(tree, p)},
        from : {p \in Paths : There(tree, p)}]

Applied(c, t, kind) ==
  LET me(is) == [is |-> is, by |-> t, kind |-> kind] IN
  IF c.status = "R" THEN [tree EXCEPT ![c.path] = me("there"), ![c.from] = me("moved")]
  ELSE [tree EXCEPT ![c.path] = me(IF c.status = "D" THEN "gone" ELSE "there")]

\* What can happen to a ticket file: as is empty when it is removed.
TicketChanges ==
  [id : DOMAIN tickets, as : {{}}]
  \cup (UNION {[id : {t}, as : {{m} : m \in Drafts[t]}] : t \in DOMAIN Drafts})
  \cup {[id |-> r, as |-> {RollbackOf(tickets, t)}] :
          r \in {"R"} \ DOMAIN tickets, t \in DOMAIN tickets}

With(f, t, x) == [u \in DOMAIN f \cup {t} |-> IF u = t THEN x ELSE f[u]]

Retold(e) ==
  IF e.as = {} THEN [t \in DOMAIN tickets \ {e.id} |-> tickets[t]]
  ELSE With(tickets, e.id, CHOOSE m \in e.as : TRUE)

FileChange(e) ==
  [status |-> IF e.as = {} THEN "D" ELSE IF e.id \in DOMAIN tickets THEN "M" ELSE "A",
   path |-> TicketFile(e.id)]

-----------------------------------------------------------------------------
FileState == [is : {"there", "gone", "moved", "never"}, by : Ids \cup {"genesis"},
              kind : Kinds \cup {"genesis"}]

ChangeControlTypeOK ==
  /\ tree \in [Paths -> FileState]
  /\ DOMAIN tickets \subseteq Ids
  /\ DOMAIN last \subseteq Ids
  /\ landings \in 0 .. MaxLandings
  /\ recast \subseteq DOMAIN last

ChangeControlInit ==
  /\ tree = [p \in Paths |-> [is |-> IF p \in Spare THEN "never" ELSE "there",
                              by |-> "genesis", kind |-> "genesis"]]
  /\ tickets = Seed
  /\ landings = 0
  /\ last = << >>
  /\ recast = {}

\* The change of a ticket file that takes e back.
Back(e) ==
  [id |-> e.id, as |-> IF e.id \in DOMAIN tickets THEN {tickets[e.id]} ELSE {}]

\* What a revert of the merge has to undo: files, and ticket files.
Lands(t, kind, files, retold) ==
  /\ landings' = landings + 1
  /\ last' = With(last, t, [files |-> files, back |-> {Back(e) : e \in retold},
                            kind |-> kind])

\* A pull request that changes one file.
MergeFile(t, c) ==
  /\ t \in DOMAIN tickets
  /\ LET f == Applied(c, t, tickets[t].kind) IN
       /\ CheckPR(f, tickets, t, {Shown(c)})
       /\ tree' = f
  /\ Lands(t, tickets[t].kind, {c}, {})
  /\ UNCHANGED <<tickets, recast>>

\* A pull request that changes a ticket file, perhaps its own.
MergeTicket(t, e) ==
  /\ CheckPR(tree, Retold(e), t, {FileChange(e)})
  /\ tickets' = Retold(e)
  /\ Lands(t, Retold(e)[t].kind, {}, {e})
  /\ recast' = recast \cup ({e.id} \cap DOMAIN last)
  /\ UNCHANGED tree

\* A pull request that changes both.
MergeBoth(t, e, c) ==
  /\ t \in DOMAIN Retold(e)
  /\ LET f == Applied(c, t, Retold(e)[t].kind) IN
       /\ CheckPR(f, Retold(e), t, {Shown(c), FileChange(e)})
       /\ tree' = f
  /\ tickets' = Retold(e)
  /\ Lands(t, Retold(e)[t].kind, {c}, {e})
  /\ recast' = recast \cup ({e.id} \cap DOMAIN last)

ChangeControlNext ==
  /\ landings < MaxLandings
  /\ \E t \in Ids :
       \/ \E c \in Changes : MergeFile(t, c)
       \/ \E e \in TicketChanges : MergeTicket(t, e)
       \/ \E e \in TicketChanges, c \in Changes : MergeBoth(t, e, c)

-----------------------------------------------------------------------------
Protected == {p \in Paths : Kernel(p) \/ IsWorkflow(p)}

(***************************************************************************)
(* Whatever else the tickets hand out and however they are rewritten, an   *)
(* implementation never changes the kernel or a workflow, and a landed one *)
(* is judged by tests it has not written (policy: worker_can_modify_       *)
(* governance and worker_can_modify_oracles are false).  Exempt is what    *)
(* the code lets through: a file may be moved away, since the diff shows   *)
(* its new name only; a ticket rewritten after a merge may point at tests  *)
(* it once wrote as product; and one that names no oracle, which validate  *)
(* accepts, may write its tests like any other file it owns.               *)
(***************************************************************************)
WorkersKeepOff ==
  /\ \A p \in Protected :
       tree[p].is \in {"there", "gone"} => tree[p].kind # "implementation"
  /\ \A t \in DOMAIN tickets \cap DOMAIN last :
       tickets[t].kind = "implementation" /\ tickets[t].oracle # {} /\ t \notin recast =>
         \A p \in tickets[t].tests : tree[p].is = "there" => tree[p].by # t

Undone(c) ==
  [c EXCEPT !.status = IF @ = "A" THEN "D" ELSE IF @ = "D" THEN "A" ELSE "M"]

\* git revert -m 1 of the last merge of t: every file that it changed, ticket
\* files too, is what it was before.
RevertedTree(t) ==
  IF last[t].files = {} THEN tree
  ELSE Applied(Undone(CHOOSE c \in last[t].files : TRUE), "fresh", "rollback")

RevertedTickets(t) ==
  IF last[t].back = {} THEN tickets ELSE Retold(CHOOSE e \in last[t].back : TRUE)

\* The pull request of that revert, on the ticket that rollback writes for t.
RevertPasses(t) ==
  CheckPR(RevertedTree(t),
          With(RevertedTickets(t), "fresh", RollbackOf(tickets, t)), "fresh",
          {Undone(c) : c \in last[t].files}
            \cup {FileChange(e) : e \in last[t].back}
            \cup {[status |-> "A", path |-> TicketFile("fresh")]})

\* What the rollback of a file takes for granted: the ticket owns it, and no
\* ticket rests on it.  A coordinated path and a move are out of the scope of
\* a rollback; an oracle, a test or the ADR is not removed.
Revertible(t, c) ==
  /\ c.status # "R" /\ c.path # Adr
  /\ AnyMatch(tickets[t].owned, c.path)
  /\ \A u \in DOMAIN tickets :
       ~AnyMatch(tickets[u].oracle, c.path) /\ c.path \notin tickets[u].tests

(***************************************************************************)
(* The last merge of an executable ticket that is active can be reverted   *)
(* by the ticket that the autopilot writes for it, whoever took over whose *)
(* paths meanwhile: the new ticket is valid beside all others and the      *)
(* revert is in its scope.  That is so for a merge of product alone.  One  *)
(* that brought the very ticket, as the merge of a rollback does, cannot   *)
(* be reverted: the revert takes the ticket along, and the new one then    *)
(* invalidates a ticket that is not there.  Nothing is said of merges that *)
(* change other ticket files.                                              *)
(***************************************************************************)
RollbackIsPossible ==
  \A t \in Active(tickets) \cap DOMAIN last :
    /\ /\ tickets[t].kind \in Executable
       /\ last[t].back = {}
       /\ \A c \in last[t].files : Revertible(t, c)
       => RevertPasses(t)
    /\ [id |-> t, as |-> {}] \in last[t].back => ~RevertPasses(t)
=============================================================================
