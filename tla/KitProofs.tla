----------------------------- MODULE KitProofs -----------------------------
(***************************************************************************)
(* What holds of the ticket graph and of the pull requests of Kit,         *)
(* whatever tickets, files and drafts there are.                           *)
(***************************************************************************)
EXTENDS SetupProofs

-----------------------------------------------------------------------------
\* Pull requests.

Change == [status : {"A", "M", "D"}, path : Paths]
          \cup [status : {"R"}, path : Paths, from : Paths]

\* What a merge leaves to be undone: one file and one ticket file at most.
Undoable(r) ==
  /\ r.files \subseteq Change
  /\ \A c, d \in r.files : c = d
  /\ \A e, d \in r.back : e = d

\* Whoever changed a file has been merged, and what a merge leaves has passed
\* validate.
ChangeInv ==
  /\ ChangeControlTypeOK
  /\ \A t \in DOMAIN tickets : tickets[t] \in Ticket
  /\ \A p \in Paths : tree[p].by \in DOMAIN last \cup {"genesis"}
  /\ \A t \in DOMAIN last : Undoable(last[t])
  /\ DOMAIN last # {} => RepoHolds(tree, tickets)

\* What a merge for t does, whatever it changes.
FileLanded(t, p) ==
  \/ tree'[p] = tree[p]
  \/ /\ tree'[p].by = t /\ tree'[p].kind = tickets'[t].kind
     /\ tree'[p].is = "moved" \/ InScope(tickets', t, p)

Landed(t) ==
  /\ t \in DOMAIN tickets' /\ t \in Ids
  /\ \A u \in DOMAIN tickets' : tickets'[u] \in Ticket
  /\ \A u \in DOMAIN tickets' \cap DOMAIN last :
       u \notin recast' => u \in DOMAIN tickets /\ tickets'[u] = tickets[u]
  /\ recast \subseteq recast' /\ recast' \subseteq DOMAIN last
  /\ DOMAIN tickets' \subseteq Ids
  /\ tree' \in [Paths -> FileState]
  /\ \A p \in Paths : FileLanded(t, p)
  /\ DOMAIN last' = DOMAIN last \cup {t}
  /\ \A u \in DOMAIN last : u # t => last'[u] = last[u]
  /\ Undoable(last'[t])
  /\ landings' \in 0 .. MaxLandings
  /\ RepoHolds(tree', tickets')

-----------------------------------------------------------------------------
\* What becomes of the tickets.
LEMMA RetoldTickets ==
  ASSUME ChangeInv, NEW e \in TicketChanges
  PROVE  /\ e.id \in Ids
         /\ DOMAIN Retold(e) \subseteq Ids
         /\ \A u \in DOMAIN Retold(e) : Retold(e)[u] \in Ticket
         /\ \A u \in DOMAIN Retold(e) :
              u # e.id => u \in DOMAIN tickets /\ Retold(e)[u] = tickets[u]
<1>1. DOMAIN tickets \subseteq Ids /\ \A u \in DOMAIN tickets : tickets[u] \in Ticket
  BY DEF ChangeInv, ChangeControlTypeOK, Ids
<1>2. CASE e.id \in DOMAIN tickets /\ e.as = {}
  <2>1. Retold(e) = [t \in DOMAIN tickets \ {e.id} |-> tickets[t]]
    BY <1>2 DEF Retold
  <2> QED BY <1>1, <1>2, <2>1
<1>3. ASSUME NEW m \in Ticket, e.id \in Ids, e.as = {m}
      PROVE  /\ DOMAIN Retold(e) \subseteq Ids
             /\ \A u \in DOMAIN Retold(e) : Retold(e)[u] \in Ticket
             /\ \A u \in DOMAIN Retold(e) :
                  u # e.id => u \in DOMAIN tickets /\ Retold(e)[u] = tickets[u]
  <2>1. (CHOOSE x \in e.as : TRUE) = m
    BY <1>3
  <2>2. Retold(e) = With(tickets, e.id, m)
    BY <1>3, <2>1 DEF Retold
  <2> QED BY <1>1, <1>3, <2>2 DEF With
<1>4. CASE \E t \in DOMAIN Drafts : e.id = t /\ \E m \in Drafts[t] : e.as = {m}
  BY <1>3, <1>4, ChangeControlAssumption DEF Ids
<1>5. CASE e.id = "R" /\ \E t \in DOMAIN tickets : e.as = {RollbackOf(tickets, t)}
  <2>1. PICK t \in DOMAIN tickets : e.as = {RollbackOf(tickets, t)}
    BY <1>5
  <2>2. tickets[t] \in Ticket /\ t \in Ids
    BY <1>1
  <2>3. RollbackOf(tickets, t) \in Ticket
    BY <2>2 DEF RollbackOf, Ticket, Kinds
  <2> QED BY <1>3, <1>5, <2>1, <2>3 DEF Ids
<1>6. \/ e.id \in DOMAIN tickets /\ e.as = {}
      \/ \E t \in DOMAIN Drafts : e.id = t /\ \E m \in Drafts[t] : e.as = {m}
      \/ e.id = "R" /\ \E t \in DOMAIN tickets : e.as = {RollbackOf(tickets, t)}
  BY DEF TicketChanges
<1> QED BY <1>1, <1>2, <1>4, <1>5, <1>6

\* What becomes of the files.
LEMMA AppliedFiles ==
  ASSUME ChangeInv, NEW c \in Changes, NEW t \in Ids, NEW kind \in Kinds
  PROVE  /\ Applied(c, t, kind) \in [Paths -> FileState]
         /\ \A p \in Paths :
              \/ Applied(c, t, kind)[p] = tree[p]
              \/ /\ Applied(c, t, kind)[p].by = t /\ Applied(c, t, kind)[p].kind = kind
                 /\ Applied(c, t, kind)[p].is = "moved" \/ p = c.path
         /\ c \in Change /\ Shown(c).path = c.path
<1> DEFINE Me(is) == [is |-> is, by |-> t, kind |-> kind]
<1>1. tree \in [Paths -> FileState]
  BY DEF ChangeInv, ChangeControlTypeOK
<1>2. \A is \in {"there", "gone", "moved"} :
        Me(is) \in FileState /\ Me(is).by = t /\ Me(is).kind = kind /\ Me(is).is = is
  BY DEF FileState, Ids
<1>3. /\ c.status \in {"A", "M", "D", "R"} /\ c.path \in Paths
      /\ c.status = "R" => c.from \in Paths
      /\ c \in Change
  BY DEF Changes, Change
<1>4. Applied(c, t, kind) =
        IF c.status = "R" THEN [tree EXCEPT ![c.path] = Me("there"), ![c.from] = Me("moved")]
        ELSE [tree EXCEPT ![c.path] = Me(IF c.status = "D" THEN "gone" ELSE "there")]
  BY DEF Applied
<1>5. Shown(c).path = c.path
  BY DEF Shown
<1> HIDE DEF Me
<1> QED BY <1>1, <1>2, <1>3, <1>4, <1>5

LEMMA MergesLand ==
  ASSUME ChangeInv, ChangeControlNext
  PROVE  \E t \in Ids : Landed(t)
<1> USE DEF Landed, FileLanded
<1>1. /\ DOMAIN tickets \subseteq Ids /\ \A u \in DOMAIN tickets : tickets[u] \in Ticket
      /\ tree \in [Paths -> FileState] /\ landings \in 0 .. MaxLandings
      /\ recast \subseteq DOMAIN last
  BY DEF ChangeInv, ChangeControlTypeOK
<1>2. landings + 1 \in 0 .. MaxLandings
  BY <1>1, ChangeControlAssumption DEF ChangeControlNext
<1>3. \A m \in Ticket : m.kind \in Kinds
  BY DEF Ticket
<1>4. ASSUME NEW t \in Ids, NEW kind, NEW files \in SUBSET Change, NEW retold,
             \A c, d \in files : c = d, \A e, d \in retold : e = d,
             Lands(t, kind, files, retold)
      PROVE  /\ landings' \in 0 .. MaxLandings
             /\ DOMAIN last' = DOMAIN last \cup {t}
             /\ \A u \in DOMAIN last : u # t => last'[u] = last[u]
             /\ Undoable(last'[t])
  <2> DEFINE r == [files |-> files, back |-> {Back(e) : e \in retold}, kind |-> kind]
  <2>1. Undoable(r)
    BY <1>4 DEF Undoable
  <2> QED BY <1>2, <1>4, <2>1 DEF Lands, With
<1>5. ASSUME NEW f, NEW ts, NEW t, NEW shown, CheckPR(f, ts, t, shown)
      PROVE  /\ t \in DOMAIN ts /\ RepoHolds(f, ts)
             /\ \A c \in shown : InScope(ts, t, c.path)
  BY <1>5 DEF CheckPR
<1>6. ASSUME NEW t \in Ids, NEW c \in Changes, MergeFile(t, c)
      PROVE  Landed(t)
  <2>1. tickets[t].kind \in Kinds
    BY <1>1, <1>3, <1>6 DEF MergeFile
  <2>2. CheckPR(tree', tickets', t, {Shown(c)})
    BY <1>6 DEF MergeFile
  <2>3. /\ t \in DOMAIN tickets' /\ RepoHolds(tree', tickets') /\ InScope(tickets', t, c.path)
    BY <1>5, <2>2, <2>1, AppliedFiles
  <2>4. /\ tree' = Applied(c, t, tickets[t].kind) /\ Lands(t, tickets[t].kind, {c}, {})
        /\ tickets' = tickets /\ recast' = recast
    BY <1>6 DEF MergeFile
  <2>5. /\ tree' \in [Paths -> FileState] /\ c \in Change
        /\ \A p \in Paths : FileLanded(t, p)
    BY <2>1, <2>3, <2>4, AppliedFiles
  <2>6. {c} \in SUBSET Change
    BY <2>5
  <2> QED BY <1>1, <1>4, <2>3, <2>4, <2>5, <2>6
<1>7. ASSUME NEW t \in Ids, NEW e \in TicketChanges, MergeTicket(t, e)
      PROVE  Landed(t)
  <2>1. /\ tickets' = Retold(e) /\ tree' = tree
        /\ recast' = recast \cup ({e.id} \cap DOMAIN last)
        /\ Lands(t, Retold(e)[t].kind, {}, {e})
        /\ CheckPR(tree, Retold(e), t, {FileChange(e)})
    BY <1>7 DEF MergeTicket
  <2>2. t \in DOMAIN tickets' /\ RepoHolds(tree', tickets')
    BY <1>5, <2>1
  <2>3. /\ landings' \in 0 .. MaxLandings /\ DOMAIN last' = DOMAIN last \cup {t}
        /\ \A u \in DOMAIN last : u # t => last'[u] = last[u]
        /\ Undoable(last'[t])
    <3> DEFINE none == {}
               one == {e}
    <3>1. none \in SUBSET Change /\ (\A d, b \in none : d = b) /\ \A d, b \in one : d = b
      OBVIOUS
    <3>2. Lands(t, Retold(e)[t].kind, none, one)
      BY <2>1
    <3> HIDE DEF none, one
    <3> QED BY <1>4, <3>1, <3>2
  <2> QED BY <1>1, <2>1, <2>2, <2>3, RetoldTickets
<1>8. ASSUME NEW t \in Ids, NEW e \in TicketChanges, NEW c \in Changes, MergeBoth(t, e, c)
      PROVE  Landed(t)
  <2>1. /\ tickets' = Retold(e) /\ t \in DOMAIN tickets'
        /\ tree' = Applied(c, t, tickets'[t].kind)
        /\ recast' = recast \cup ({e.id} \cap DOMAIN last)
        /\ Lands(t, Retold(e)[t].kind, {c}, {e})
        /\ CheckPR(tree', tickets', t, {Shown(c), FileChange(e)})
    BY <1>8 DEF MergeBoth
  <2>2. tickets'[t].kind \in Kinds
    BY <1>3, <2>1, RetoldTickets
  <2>3. /\ RepoHolds(tree', tickets') /\ InScope(tickets', t, c.path)
    BY <1>5, <2>1, <2>2, AppliedFiles
  <2>4. /\ tree' \in [Paths -> FileState] /\ c \in Change
        /\ \A p \in Paths : FileLanded(t, p)
    BY <2>1, <2>2, <2>3, AppliedFiles
  <2>5. /\ landings' \in 0 .. MaxLandings /\ DOMAIN last' = DOMAIN last \cup {t}
        /\ \A u \in DOMAIN last : u # t => last'[u] = last[u]
        /\ Undoable(last'[t])
    <3>1. {c} \in SUBSET Change /\ (\A d, b \in {c} : d = b) /\ \A d, b \in {e} : d = b
      BY <2>4
    <3> QED BY <1>4, <2>1, <3>1
  <2> QED BY <1>1, <2>1, <2>3, <2>4, <2>5, RetoldTickets
<1> QED BY <1>6, <1>7, <1>8 DEF ChangeControlNext

LEMMA ChangeInvKept ==
  ASSUME ChangeInv, NEW t \in Ids, Landed(t)
  PROVE  ChangeInv'
<1>1. ChangeControlTypeOK'
  BY DEF ChangeInv, ChangeControlTypeOK, Landed
<1>2. \A u \in DOMAIN tickets' : tickets'[u] \in Ticket
  BY DEF Landed
<1>3. \A p \in Paths : tree'[p].by \in DOMAIN last' \cup {"genesis"}
  BY DEF Landed, FileLanded, ChangeInv
<1>4. \A u \in DOMAIN last' : Undoable(last'[u])
  BY DEF Landed, ChangeInv
<1>5. RepoHolds(tree', tickets')
  BY DEF Landed
<1> QED BY <1>1, <1>2, <1>3, <1>4, <1>5 DEF ChangeInv

LEMMA ChangeInvBegins ==
  ASSUME ChangeControlInit
  PROVE  ChangeInv
<1>1. /\ DOMAIN last = {} /\ DOMAIN Seed \subseteq Ids
      /\ \A t \in DOMAIN Seed : Seed[t] \in Ticket
      /\ landings \in 0 .. MaxLandings /\ recast = {} /\ tickets = Seed
  BY ChangeControlAssumption DEF ChangeControlInit, Ids
<1>2. tree \in [Paths -> FileState] /\ \A p \in Paths : tree[p].by = "genesis"
  BY DEF ChangeControlInit, FileState
<1> QED BY <1>1, <1>2 DEF ChangeInv, ChangeControlTypeOK

-----------------------------------------------------------------------------
LEMMA WorkersKept ==
  ASSUME ChangeInv, WorkersKeepOff, NEW t \in Ids, Landed(t)
  PROVE  WorkersKeepOff'
<1>1. ASSUME NEW p \in Paths, tickets'[t].kind = "implementation", InScope(tickets', t, p)
      PROVE  /\ ~ Kernel(p) /\ ~ IsWorkflow(p)
             /\ ~ AnyMatch(tickets'[t].oracle, p)
  BY <1>1 DEF InScope, MayImplement
<1>2. \A p \in Paths :
        \/ tree'[p] = tree[p]
        \/ /\ tree'[p].by = t /\ tree'[p].kind = tickets'[t].kind
           /\ tree'[p].is = "moved" \/ InScope(tickets', t, p)
  BY DEF Landed, FileLanded
<1>3. ASSUME NEW p \in Protected, tree'[p].is \in {"there", "gone"}
      PROVE  tree'[p].kind # "implementation"
  BY <1>1, <1>2, <1>3 DEF WorkersKeepOff, Protected
<1>4. ASSUME NEW u \in DOMAIN tickets' \cap DOMAIN last',
             tickets'[u].kind = "implementation", tickets'[u].oracle # {}, u \notin recast',
             NEW p \in tickets'[u].tests, tree'[p].is = "there"
      PROVE  tree'[p].by # u
  <2>1. AnyMatch(tickets'[u].oracle, p)
    <3>1. MetaHolds(tickets'[u])
      BY <1>4 DEF Landed, RepoHolds
    <3> QED BY <1>4, <3>1 DEF MetaHolds
  <2>2. p \in Paths /\ u \in Ids /\ u # "genesis"
    <3>1. tickets'[u] \in Ticket /\ u \in Ids
      BY <1>4 DEF Landed
    <3> QED BY <3>1, ChangeControlAssumption DEF Ticket, Ids
  <2>3. CASE tree'[p] = tree[p]
    <3>1. CASE u \in DOMAIN last
      <4>1. u \in DOMAIN tickets /\ tickets'[u] = tickets[u] /\ u \notin recast
        BY <1>4, <3>1 DEF Landed
      <4> QED BY <1>4, <2>3, <3>1, <4>1 DEF WorkersKeepOff
    <3>2. CASE u \notin DOMAIN last
      BY <2>2, <2>3, <3>2 DEF ChangeInv
    <3> QED BY <3>1, <3>2
  <2>4. CASE tree'[p].by = t /\ InScope(tickets', t, p)
    BY <1>1, <1>4, <2>1, <2>2, <2>4
  <2> QED BY <1>2, <1>4, <2>2, <2>3, <2>4
<1> QED BY <1>3, <1>4 DEF WorkersKeepOff, Protected

\* What rests while another part of the kit is at work stays as it is.
LEMMA ChangesRest ==
  ASSUME UNCHANGED changeVars
  PROVE  /\ ChangeInv => ChangeInv'
         /\ WorkersKeepOff => WorkersKeepOff'
<1>1. ChangeInv => ChangeInv'
  BY DEF changeVars, ChangeInv, ChangeControlTypeOK, RepoHolds
<1>2. WorkersKeepOff => WorkersKeepOff'
  BY DEF changeVars, WorkersKeepOff, Protected
<1> QED BY <1>1, <1>2

LEMMA MergesAreChecked == Spec => []ChangeInv
<1>1. Init => ChangeInv
  BY ChangeInvBegins DEF Init
<1>2. ChangeInv /\ [Next]_kitVars => ChangeInv'
  <2> SUFFICES ASSUME ChangeInv, [Next]_kitVars PROVE ChangeInv'
    OBVIOUS
  <2>1. CASE ChangeControlNext
    BY <2>1, MergesLand, ChangeInvKept
  <2>2. CASE UNCHANGED changeVars
    BY <2>2, ChangesRest
  <2> QED BY <2>1, <2>2 DEF Next, kitVars
<1> QED BY <1>1, <1>2, PTL DEF Spec

(***************************************************************************)
(* Whatever files and tickets there are: an implementation never changes   *)
(* the kernel or a workflow, and one that landed is judged by oracles it   *)
(* has not written (governance.py check_pr and validate_ticket_meta).      *)
(***************************************************************************)
THEOREM WorkersStayOff == Spec => []WorkersKeepOff
<1>1. Init => WorkersKeepOff
  BY DEF Init, ChangeControlInit, WorkersKeepOff, Protected
<1>2. WorkersKeepOff /\ ChangeInv /\ [Next]_kitVars => WorkersKeepOff'
  <2> SUFFICES ASSUME WorkersKeepOff, ChangeInv, [Next]_kitVars PROVE WorkersKeepOff'
    OBVIOUS
  <2>1. CASE ChangeControlNext
    BY <2>1, MergesLand, WorkersKept
  <2>2. CASE UNCHANGED changeVars
    BY <2>2, ChangesRest
  <2> QED BY <2>1, <2>2 DEF Next, kitVars
<1> QED BY <1>1, <1>2, MergesAreChecked, PTL DEF Spec

-----------------------------------------------------------------------------
\* Nobody but a governance change owns what the kernel is made of.
LEMMA PolicyIsNotOwned ==
  ASSUME NEW m \in Ticket, MetaHolds(m), m.kind # "governance-change"
  PROVE  ~ AnyMatch(m.owned, PolicyFile)
<1> SUFFICES ASSUME NEW w \in m.owned, Matches(w, Exactly(PolicyFile)) PROVE FALSE
  BY DEF AnyMatch
<1>1. ~ KernelText(w) /\ w \in Pattern
  BY DEF MetaHolds, Ticket
<1>2. w.path \in Seq(STRING) /\ w.path # << >> /\ w.path[1] # "governance"
  BY <1>1 DEF KernelText, Pattern, Path
<1>3. CASE w.glob
  <2>1. /\ Len(w.path) <= Len(PolicyFile) /\ SubSeq(PolicyFile, 1, Len(w.path)) = w.path
    BY <1>3 DEF Matches, Begins, Exactly
  <2>2. Len(w.path) \in Nat /\ Len(w.path) >= 1
    BY <1>2, EmptySeq, LenProperties
  <2>3. SubSeq(PolicyFile, 1, Len(w.path))[1] = PolicyFile[1]
    BY <2>1, <2>2 DEF PolicyFile
  <2> QED BY <1>2, <2>1, <2>3 DEF PolicyFile
<1>4. CASE ~ w.glob
  <2>1. w = Exactly(PolicyFile)
    BY <1>4 DEF Matches
  <2> QED BY <1>2, <2>1 DEF Exactly, PolicyFile
<1> QED BY <1>3, <1>4

\* The ticket of the revert takes the place of the one it invalidates.
LEMMA RevertFitsIn ==
  ASSUME NEW ts, NEW t \in Active(ts), GraphHolds(ts), t \in Ids, "fresh" \notin DOMAIN ts
  PROVE  GraphHolds(With(ts, "fresh", RollbackOf(ts, t)))
<1> DEFINE new == With(ts, "fresh", RollbackOf(ts, t))
           m == RollbackOf(ts, t)
<1>1. /\ DOMAIN new = DOMAIN ts \cup {"fresh"} /\ new["fresh"] = m
      /\ \A u \in DOMAIN ts : new[u] = ts[u]
  BY DEF With
<1>2. Refs(m) = {t} /\ m.owned = ts[t].owned
  BY DEF Refs, RollbackOf
<1> HIDE DEF new, m
<1>3. Terminal(ts) \subseteq DOMAIN ts /\ t \in DOMAIN ts /\ t \notin Terminal(ts)
  BY DEF GraphHolds, Active
<1>4. Terminal(new) = Terminal(ts) \cup {t}
  <2>1. \A u \in DOMAIN ts : Refs(new[u]) = Refs(ts[u])
    BY <1>1
  <2> QED BY <1>1, <1>2, <2>1 DEF Terminal
<1>5. Active(new) = (Active(ts) \ {t}) \cup {"fresh"}
  BY <1>1, <1>3, <1>4 DEF Active
<1>6. \A a, b \in Active(ts) : ~ Linked(ts, a, b)
  BY DEF Active, Linked, Terminal
<1>7. ASSUME NEW a \in Active(new), NEW b \in Active(new), a # b,
             NEW v \in new[a].owned, NEW w \in new[b].owned
      PROVE  ~ Overlap(v, w)
  <2> DEFINE Old(x) == IF x = "fresh" THEN t ELSE x
  <2>1. /\ Old(a) \in Active(ts) /\ Old(b) \in Active(ts) /\ Old(a) # Old(b)
    BY <1>5, <1>7
  <2>2. v \in ts[Old(a)].owned /\ w \in ts[Old(b)].owned
    BY <1>1, <1>2, <1>5, <1>7 DEF Active
  <2> HIDE DEF Old
  <2> QED BY <1>6, <2>1, <2>2 DEF GraphHolds
<1>8. Terminal(new) \subseteq DOMAIN new
  BY <1>1, <1>3, <1>4
<1>9. GraphHolds(new)
  BY <1>7, <1>8 DEF GraphHolds
<1> QED BY <1>9 DEF new

\* A merge of product alone.
LEMMA RevertsPass ==
  ASSUME ChangeInv, NEW t \in Active(tickets) \cap DOMAIN last,
         tickets[t].kind \in Executable, last[t].back = {},
         \A c \in last[t].files : Revertible(t, c)
  PROVE  RevertPasses(t)
<1> DEFINE m == RollbackOf(tickets, t)
           ts == With(tickets, "fresh", m)
           f == RevertedTree(t)
           added == [status |-> "A", path |-> TicketFile("fresh")]
<1>1. /\ t \in DOMAIN tickets /\ tickets[t] \in Ticket /\ t \in Ids
      /\ "fresh" \notin DOMAIN tickets /\ t # "fresh"
  BY ChangeControlAssumption DEF ChangeInv, ChangeControlTypeOK, Active, Ids
<1>2. /\ There(tree, PolicyFile) /\ \A u \in DOMAIN tickets : MetaHolds(tickets[u])
      /\ GraphHolds(tickets) /\ OraclesHold(tree, tickets)
  BY DEF ChangeInv, RepoHolds
<1>3. /\ last[t].files \subseteq Change /\ \A c, d \in last[t].files : c = d
      /\ \A c \in last[t].files : c.status # "R" /\ c \in [status : {"A", "M", "D"}, path : Paths]
  BY DEF ChangeInv, Undoable, Change, Revertible
<1>4. \A c \in last[t].files : Undone(c).path = c.path /\ Undone(c).status \in {"A", "M", "D"}
  BY <1>3 DEF Undone
<1>5. \A p \in Paths : (\A c \in last[t].files : p # c.path) => f[p] = tree[p]
  <2>1. tree \in [Paths -> FileState]
    BY DEF ChangeInv, ChangeControlTypeOK
  <2>2. CASE last[t].files = {}
    BY <2>2 DEF RevertedTree
  <2>3. CASE last[t].files # {}
    <3>1. PICK c \in last[t].files : c = CHOOSE x \in last[t].files : TRUE
      BY <2>3
    <3>2. f = Applied(Undone(c), "fresh", "rollback")
      BY <2>3, <3>1 DEF RevertedTree
    <3> QED BY <1>4, <2>1, <3>2 DEF Applied
  <2> QED BY <2>2, <2>3
<1>6. /\ DOMAIN ts = DOMAIN tickets \cup {"fresh"} /\ ts["fresh"] = m
      /\ \A u \in DOMAIN tickets : ts[u] = tickets[u]
  BY <1>1 DEF With
<1>7. /\ m.kind = "rollback" /\ m.owned = tickets[t].owned /\ m.tests = {} /\ m.oracle = {}
      /\ m.invalidates = {t}
  BY DEF RollbackOf
<1>8. GraphHolds(ts)
  BY <1>1, <1>2, RevertFitsIn
<1> HIDE DEF m, ts, f
<1>9. MetaHolds(tickets[t]) /\ tickets[t].kind # "governance-change"
  BY <1>1, <1>2 DEF Executable
<1>10. \A c \in last[t].files : c.path # PolicyFile
  BY <1>1, <1>9, PolicyIsNotOwned DEF Revertible
<1>11. There(f, PolicyFile)
  BY <1>2, <1>5, <1>10, ChangeControlAssumption DEF There
<1>12. \A u \in DOMAIN ts : MetaHolds(ts[u])
  <2>1. MetaHolds(m)
    BY <1>7, <1>9 DEF MetaHolds, Executable
  <2> QED BY <1>2, <1>6, <2>1
<1>13. OraclesHold(f, ts)
  <2> SUFFICES ASSUME NEW u \in DOMAIN ts, ts[u].kind = "implementation"
               PROVE  /\ There(f, Adr)
                      /\ ts[u].high => \A p \in ts[u].tests : There(f, p)
    BY DEF OraclesHold
  <2>1. u \in DOMAIN tickets /\ ts[u] = tickets[u] /\ tickets[u] \in Ticket
    BY <1>6, <1>7 DEF ChangeInv
  <2>2. There(tree, Adr) /\ (ts[u].high => \A p \in ts[u].tests : There(tree, p))
    BY <1>2, <2>1 DEF OraclesHold
  <2>3. There(f, Adr)
    BY <1>5, <2>2, ChangeControlAssumption DEF There, Revertible
  <2>4. \A p \in ts[u].tests : p \in Paths /\ \A c \in last[t].files : p # c.path
    BY <2>1 DEF Ticket, Revertible
  <2> QED BY <1>5, <2>2, <2>3, <2>4 DEF There
<1>14. RepoHolds(f, ts)
  BY <1>8, <1>11, <1>12, <1>13 DEF RepoHolds
<1>15. /\ \A c \in last[t].files : InScope(ts, "fresh", c.path)
       /\ InScope(ts, "fresh", TicketFile("fresh"))
  <2>1. Begins(<<"docs", "tickets">>, TicketFile("fresh"))
    <3> DEFINE s == <<"docs", "tickets", "fresh">>
               d == <<"docs", "tickets">>
    <3>1. Len(s) = 3 /\ Len(d) = 2
      OBVIOUS
    <3>2. SubSeq(s, 1, 2) = d
      <4> DEFINE Words == {"docs", "tickets", "fresh"}
      <4>1. s \in Seq(Words) /\ d \in Seq(Words) /\ s[1] = d[1] /\ s[2] = d[2]
        OBVIOUS
      <4> HIDE DEF s, d, Words
      <4>2. /\ SubSeq(s, 1, 2) \in Seq(Words) /\ Len(SubSeq(s, 1, 2)) = 2
            /\ \A i \in 1 .. 2 : SubSeq(s, 1, 2)[i] = s[i]
        BY <3>1, <4>1
      <4> QED BY <3>1, <4>1, <4>2, SeqEqual
    <3>3. TicketFile("fresh") = s
      BY DEF TicketFile
    <3> HIDE DEF s, d
    <3>4. Begins(d, s)
      BY <3>1, <3>2 DEF Begins
    <3> QED BY <3>3, <3>4 DEF d
  <2>2. \A c \in last[t].files : AnyMatch(ts["fresh"].owned, c.path)
    BY <1>6, <1>7 DEF Revertible
  <2>3. /\ \A c \in last[t].files : MayRollBack(ts, "fresh", c.path)
        /\ MayRollBack(ts, "fresh", TicketFile("fresh"))
    BY <2>1, <2>2 DEF MayRollBack
  <2> QED BY <1>6, <1>7, <2>3 DEF InScope
<1> DEFINE shown == {Undone(c) : c \in last[t].files} \cup {added}
<1>16. CheckPR(f, ts, "fresh", shown)
  <2>1. \A x \in shown : InScope(ts, "fresh", x.path)
    BY <1>4, <1>15
  <2>2. ASSUME NEW x \in shown, NEW u \in DOMAIN ts \ {"fresh"}, x.status = "D"
        PROVE  ~ AnyMatch(ts[u].oracle, x.path)
    <3>1. PICK c \in last[t].files : x = Undone(c)
      BY <2>2
    <3> QED BY <1>4, <1>6, <2>2, <3>1 DEF Revertible
  <2> QED BY <1>6, <1>7, <1>14, <2>1, <2>2 DEF CheckPR, Executable
<1>17. /\ RevertedTickets(t) = tickets
       /\ shown = {Undone(c) : c \in last[t].files} \cup {FileChange(e) : e \in last[t].back}
                    \cup {added}
  BY DEF RevertedTickets
<1> HIDE DEF shown, added
<1> QED BY <1>16, <1>17 DEF RevertPasses, f, ts, m, added

\* A merge that brought the very ticket: the revert takes the ticket along.
LEMMA OwnMergeStays ==
  ASSUME ChangeInv, NEW t \in Active(tickets) \cap DOMAIN last,
         [id |-> t, as |-> {}] \in last[t].back
  PROVE  ~ RevertPasses(t)
<1> DEFINE e == [id |-> t, as |-> {}]
           ts == With(RevertedTickets(t), "fresh", RollbackOf(tickets, t))
<1>1. (CHOOSE x \in last[t].back : TRUE) = e /\ last[t].back # {}
  BY DEF ChangeInv, Undoable
<1>2. RevertedTickets(t) = [u \in DOMAIN tickets \ {t} |-> tickets[u]]
  <2>1. RevertedTickets(t) = Retold(e)
    <3> HIDE DEF e
    <3> QED BY <1>1 DEF RevertedTickets
  <2>2. e.as = {} /\ e.id = t
    OBVIOUS
  <2> HIDE DEF e
  <2> QED BY <2>1, <2>2 DEF Retold
<1>3. t # "fresh"
  BY ChangeControlAssumption DEF ChangeInv, ChangeControlTypeOK, Active, Ids
<1>4. /\ t \notin DOMAIN ts
      /\ "fresh" \in DOMAIN ts /\ ts["fresh"] = RollbackOf(tickets, t)
  BY <1>2, <1>3 DEF With
<1>5. t \in Terminal(ts)
  BY <1>4 DEF Terminal, Refs, RollbackOf
<1>6. ~ RepoHolds(RevertedTree(t), ts)
  BY <1>4, <1>5 DEF RepoHolds, GraphHolds
<1> QED BY <1>6 DEF RevertPasses, CheckPR

(***************************************************************************)
(* Whatever tickets and merges there have been: the last merge of an       *)
(* active executable ticket can be reverted by the ticket that the         *)
(* autopilot writes, if it changed no ticket file and nobody else rests on *)
(* its file; and the merge that brought the ticket, as that of a rollback  *)
(* does, can never be (autopilot.py cmd_rollback, governance.py check_pr). *)
(***************************************************************************)
THEOREM MergesCanBeReverted == Spec => []RollbackIsPossible
<1>1. ChangeInv => RollbackIsPossible
  BY RevertsPass, OwnMergeStays DEF RollbackIsPossible
<1> QED BY <1>1, MergesAreChecked, PTL

-----------------------------------------------------------------------------
\* The ticket graph.

CallRecord == [at : Nodes, todo : SUBSET Nodes, best : Seq(Nodes)]

GraphShape ==
  /\ dependencies \in [Nodes -> SUBSET Nodes]
  /\ phase \in {"visit", "paths", "done"}
  /\ calls \in Seq(CallRecord)
  /\ color \in [Nodes -> {"white", "grey", "black"}]
  /\ cycle \in BOOLEAN
  /\ done \subseteq Nodes /\ dropped \subseteq Nodes /\ roots \subseteq Nodes
  /\ memo \in [Nodes -> Seq(Nodes)] /\ deepest \in Seq(Nodes)

\* The calls are a way through the graph, on which no ticket comes twice.
OnWay ==
  /\ \A i, j \in DOMAIN calls : calls[i].at = calls[j].at => i = j
  /\ \A i \in DOMAIN calls : calls[i].todo \subseteq dependencies[calls[i].at]
  /\ \A i \in DOMAIN calls :
       i + 1 \in DOMAIN calls => calls[i + 1].at \in dependencies[calls[i].at]

Black == {n \in Nodes : color[n] = "black"}

\* While no cycle was met, black tickets depend on black ones only, without a
\* cycle, and what a call has looked at is black or the next call.
SearchInv ==
  /\ \A n \in Nodes : color[n] = "grey" <=> n \in Visiting
  /\ cycle => Cyclic
  /\ ~ cycle =>
       /\ \A i \in DOMAIN calls : \A d \in dependencies[calls[i].at] \ calls[i].todo :
            d \in Black \/ (i + 1 \in DOMAIN calls /\ d = calls[i + 1].at)
       /\ \A n \in Black : dependencies[n] \subseteq Black
       /\ \A S \in SUBSET Black : S # {} => \E n \in S : dependencies[n] \cap S = {}

GraphInv ==
  /\ GraphShape /\ OnWay
  /\ phase = "visit" => SearchInv
  /\ CyclesAreFound

-----------------------------------------------------------------------------
\* The call stack.
LEMMA StackType ==
  ASSUME GraphShape
  PROVE  /\ Len(calls) \in Nat /\ DOMAIN calls = 1 .. Len(calls)
         /\ \A i \in DOMAIN calls : calls[i] \in CallRecord
         /\ \A i \in DOMAIN calls :
              calls[i].at \in Nodes /\ calls[i].todo \subseteq Nodes /\ calls[i].best \in Seq(Nodes)
         /\ calls # << >> => Len(calls) \in DOMAIN calls /\ Len(calls) >= 1
<1>1. calls \in Seq(CallRecord)
  BY DEF GraphShape
<1>2. Len(calls) \in Nat /\ DOMAIN calls = 1 .. Len(calls)
  BY <1>1, LenProperties
<1>3. \A i \in DOMAIN calls : calls[i] \in CallRecord
  BY <1>1, ElementOfSeq, <1>2
<1>4. calls # << >> => Len(calls) # 0
  BY <1>1, EmptySeq
<1> QED BY <1>2, <1>3, <1>4 DEF CallRecord

LEMMA LookedAt ==
  ASSUME GraphShape, calls # << >>, NEW d \in Nodes
  PROVE  /\ Looked(d) \in Seq(CallRecord) /\ Len(Looked(d)) = Len(calls)
         /\ \A i \in DOMAIN calls :
              /\ Looked(d)[i].at = calls[i].at /\ Looked(d)[i].best = calls[i].best
              /\ Looked(d)[i].todo = IF i = Len(calls) THEN Top.todo \ {d} ELSE calls[i].todo
<1>1. calls \in Seq(CallRecord)
  BY DEF GraphShape
<1>2. Looked(d) = [calls EXCEPT ![Len(calls)] = [Top EXCEPT !.todo = @ \ {d}]]
  BY StackType DEF Looked, Top, CallRecord
<1>3. Top \in CallRecord
  BY StackType DEF Top
<1>4. [Top EXCEPT !.todo = @ \ {d}] \in CallRecord
  BY <1>3 DEF CallRecord
<1>5. Looked(d) \in Seq(CallRecord) /\ Len(Looked(d)) = Len(calls)
  BY <1>1, <1>2, <1>4, StackType, ExceptSeq
<1>6. \A i \in DOMAIN calls :
        Looked(d)[i] = IF i = Len(calls) THEN [Top EXCEPT !.todo = @ \ {d}] ELSE calls[i]
  BY <1>1, <1>2, StackType
<1>7. /\ [Top EXCEPT !.todo = @ \ {d}].at = Top.at
      /\ [Top EXCEPT !.todo = @ \ {d}].best = Top.best
      /\ [Top EXCEPT !.todo = @ \ {d}].todo = Top.todo \ {d}
  BY <1>3 DEF CallRecord
<1> QED BY <1>5, <1>6, <1>7 DEF Top

LEMMA Called ==
  ASSUME GraphShape, calls # << >>, NEW d \in Nodes
  PROVE  LET s == Append(Looked(d), Call(d, dependencies[d]))
             n == Len(calls)
         IN  /\ s \in Seq(CallRecord) /\ Len(s) = n + 1 /\ DOMAIN s = 1 .. n + 1
             /\ \A i \in 1 .. n : s[i] = Looked(d)[i]
             /\ s[n + 1].at = d /\ s[n + 1].todo = dependencies[d] /\ s[n + 1].best = << >>
<1>1. Call(d, dependencies[d]) \in CallRecord
  BY EmptySeq DEF Call, CallRecord, GraphShape
<1>2. Looked(d) \in Seq(CallRecord) /\ Len(Looked(d)) = Len(calls) /\ Len(calls) \in Nat
  BY LookedAt, StackType
<1>3. LET s == Append(Looked(d), Call(d, dependencies[d]))
          n == Len(calls)
      IN  /\ s \in Seq(CallRecord) /\ Len(s) = n + 1 /\ DOMAIN s = 1 .. n + 1
          /\ \A i \in 1 .. n : s[i] = Looked(d)[i]
          /\ s[n + 1] = Call(d, dependencies[d])
  BY <1>1, <1>2, AppendProperties, LenProperties
<1> QED BY <1>3 DEF Call

LEMMA Returned ==
  ASSUME GraphShape, calls # << >>
  PROVE  /\ Return \in Seq(CallRecord) /\ Len(Return) = Len(calls) - 1
         /\ DOMAIN Return = 1 .. Len(calls) - 1
         /\ \A i \in 1 .. Len(calls) - 1 : Return[i] = calls[i]
<1>1. /\ Len(calls) \in Nat /\ Len(calls) >= 1
      /\ \A i \in 1 .. Len(calls) - 1 : calls[i] \in CallRecord
  BY StackType
<1>2. /\ Return \in Seq(CallRecord)
      /\ Len(Return) = Len(calls) - 1
      /\ \A i \in 1 .. Len(calls) - 1 : Return[i] = calls[i]
  <2> DEFINE m == Len(calls) - 1
  <2>1. m \in Int /\ 1 \in Int /\ m \in Nat /\ m - 1 + 1 = m /\ \A i \in 1 .. m : 1 + i - 1 = i
    BY <1>1
  <2>2. \A i \in 1 .. m : calls[i] \in CallRecord
    BY <1>1
  <2>3. Return = SubSeq(calls, 1, m)
    BY DEF Return
  <2> HIDE DEF m
  <2>4. /\ Return \in Seq(CallRecord)
        /\ Len(Return) = IF 1 <= m THEN m - 1 + 1 ELSE 0
        /\ \A i \in 1 .. m - 1 + 1 : Return[i] = calls[1 + i - 1]
    BY <2>1, <2>2, <2>3, SubSeqProperties
  <2>5. /\ Return \in Seq(CallRecord) /\ Len(Return) = m
        /\ \A i \in 1 .. m : Return[i] = calls[i]
    BY <2>1, <2>4
  <2> QED BY <2>5 DEF m
<1> QED BY <1>1, <1>2, LenProperties

LEMMA First ==
  ASSUME GraphShape, NEW n \in Nodes
  PROVE  LET s == <<Call(n, dependencies[n])>>
         IN  /\ s \in Seq(CallRecord) /\ Len(s) = 1 /\ DOMAIN s = 1 .. 1
             /\ s[1].at = n /\ s[1].todo = dependencies[n] /\ s[1].best = << >>
<1>1. Call(n, dependencies[n]) \in CallRecord
  BY EmptySeq DEF Call, CallRecord, GraphShape
<1> QED BY <1>1 DEF Call

-----------------------------------------------------------------------------
\* A step of the search.
LEMMA VisitBegins ==
  ASSUME GraphInv, NEW n \in Nodes, StartVisit(n)
  PROVE  GraphInv'
<1> DEFINE s == <<Call(n, dependencies[n])>>
<1>1. /\ calls' = s /\ calls = << >> /\ color' = [color EXCEPT ![n] = "grey"]
      /\ color[n] = "white" /\ phase' = "visit" /\ phase = "visit" /\ cycle' = cycle
      /\ dependencies' = dependencies /\ done' = done /\ dropped' = dropped
      /\ roots' = roots /\ memo' = memo /\ deepest' = deepest
  BY DEF StartVisit
<1>2. /\ s \in Seq(CallRecord) /\ DOMAIN s = 1 .. 1
      /\ s[1].at = n /\ s[1].todo = dependencies[n]
  BY First DEF GraphInv
<1> HIDE DEF s
<1>3. GraphShape /\ SearchInv
  BY <1>1 DEF GraphInv
<1>4. GraphShape'
  BY <1>1, <1>2, <1>3 DEF GraphShape
<1>5. OnWay'
  BY <1>1, <1>2 DEF OnWay
<1>6. Black' = Black /\ (Cyclic' <=> Cyclic)
  BY <1>1, <1>3 DEF Black, Cyclic, GraphShape
<1>7. SearchInv'
  <2>1. Visiting = {} /\ Visiting' = {n}
    BY <1>1, <1>2 DEF Visiting
  <2>2. \A x \in Nodes : color'[x] = "grey" <=> x \in Visiting'
    BY <1>1, <1>3, <2>1 DEF SearchInv, GraphShape
  <2> QED BY <1>1, <1>2, <1>3, <1>6, <2>2 DEF SearchInv
<1>8. CyclesAreFound'
  BY <1>1 DEF CyclesAreFound
<1> QED BY <1>4, <1>5, <1>7, <1>8 DEF GraphInv

\* A ticket that is on the way closes a cycle.
LEMMA WayIsCycle ==
  ASSUME GraphShape, OnWay, calls # << >>, NEW d \in Top.todo, d \in Visiting
  PROVE  Cyclic
<1>1. PICK j \in DOMAIN calls : d = calls[j].at
  BY DEF Visiting
<1> DEFINE S == {calls[i].at : i \in {k \in DOMAIN calls : j <= k}}
<1>2. S \subseteq Nodes /\ S # {}
  BY <1>1, StackType
<1>3. ASSUME NEW i \in DOMAIN calls, j <= i
      PROVE  dependencies[calls[i].at] \cap S # {}
  <2>1. CASE i = Len(calls)
    <3>1. d \in dependencies[calls[i].at]
      BY <2>1, StackType DEF OnWay, Top
    <3> QED BY <1>1, <3>1, StackType
  <2>2. CASE i # Len(calls)
    <3>1. i + 1 \in DOMAIN calls /\ j <= i + 1
      BY <1>1, <1>3, <2>2, StackType
    <3> QED BY <3>1 DEF OnWay
  <2> QED BY <2>1, <2>2
<1>4. \A n \in S : dependencies[n] \cap S # {}
  BY <1>3
<1> HIDE DEF S
<1>5. S \in (SUBSET Nodes) \ {{}}
  BY <1>2
<1> QED BY <1>4, <1>5 DEF Cyclic

LEMMA VisitKeeps ==
  ASSUME GraphInv, VisitDependency
  PROVE  GraphInv'
<1>1. PICK d \in Top.todo : VisitOne(d)
  BY DEF VisitDependency
<1>2. /\ phase = "visit" /\ calls # << >> /\ phase' = phase
      /\ dependencies' = dependencies /\ done' = done /\ dropped' = dropped
      /\ roots' = roots /\ memo' = memo /\ deepest' = deepest
  BY DEF VisitDependency
<1>3. GraphShape /\ OnWay /\ SearchInv
  BY <1>2 DEF GraphInv
<1> DEFINE n == Len(calls)
<1>4. /\ n \in Nat /\ n >= 1 /\ DOMAIN calls = 1 .. n /\ n \in DOMAIN calls /\ Top = calls[n]
      /\ \A i \in DOMAIN calls : calls[i].at \in Nodes /\ calls[i].todo \subseteq Nodes
      /\ d \in Nodes /\ d \in dependencies[calls[n].at]
  BY <1>2, <1>3, StackType DEF Top, OnWay
<1>5. Cyclic' <=> Cyclic
  BY <1>2 DEF Cyclic
<1>6. cycle' \in BOOLEAN /\ (cycle' <=> cycle \/ color[d] = "grey")
  BY <1>1, <1>3 DEF VisitOne, GraphShape
<1>7. cycle' => Cyclic
  BY <1>2, <1>3, <1>4, <1>6, WayIsCycle DEF SearchInv
<1>8. CyclesAreFound'
  BY <1>2 DEF CyclesAreFound
<1>9. /\ Looked(d) \in Seq(CallRecord) /\ Len(Looked(d)) = n /\ DOMAIN Looked(d) = 1 .. n
      /\ \A i \in 1 .. n : /\ Looked(d)[i].at = calls[i].at
                           /\ Looked(d)[i].todo = IF i = n THEN calls[n].todo \ {d}
                                                   ELSE calls[i].todo
  BY <1>2, <1>3, <1>4, LookedAt, LenProperties
<1>10. CASE color[d] = "white"
  <2>1. color' = [color EXCEPT ![d] = "grey"] /\ calls' = Append(Looked(d), Call(d, dependencies[d]))
    BY <1>1, <1>10 DEF VisitOne
  <2>2. /\ calls' \in Seq(CallRecord) /\ DOMAIN calls' = 1 .. n + 1
        /\ \A i \in 1 .. n : calls'[i] = Looked(d)[i]
        /\ calls'[n + 1].at = d /\ calls'[n + 1].todo = dependencies[d]
    BY <1>2, <1>3, <1>4, <2>1, Called
  <2>3. \A i \in 1 .. n : /\ calls'[i].at = calls[i].at
                          /\ calls'[i].todo = IF i = n THEN calls[n].todo \ {d} ELSE calls[i].todo
    BY <1>9, <2>2
  <2>4. d \notin Visiting
    BY <1>3, <1>4, <1>10 DEF SearchInv
  <2> HIDE DEF n
  <2>5. GraphShape'
    BY <1>2, <1>3, <1>6, <2>1, <2>2 DEF GraphShape
  <2>6. OnWay'
    <3>1. \A i, j \in DOMAIN calls' : calls'[i].at = calls'[j].at => i = j
      BY <1>3, <1>4, <2>2, <2>3, <2>4 DEF OnWay, Visiting
    <3>2. \A i \in DOMAIN calls' : calls'[i].todo \subseteq dependencies'[calls'[i].at]
      BY <1>2, <1>3, <1>4, <2>2, <2>3 DEF OnWay
    <3>3. ASSUME NEW i \in DOMAIN calls', i + 1 \in DOMAIN calls'
          PROVE  calls'[i + 1].at \in dependencies'[calls'[i].at]
      <4>1. CASE i = n
        BY <1>2, <1>4, <2>2, <2>3, <4>1
      <4>2. CASE i # n
        <5>1. i \in 1 .. n /\ i + 1 \in 1 .. n
          BY <1>4, <2>2, <3>3, <4>2
        <5> QED BY <1>2, <1>3, <1>4, <2>3, <5>1 DEF OnWay
      <4> QED BY <4>1, <4>2
    <3> QED BY <3>1, <3>2, <3>3 DEF OnWay
  <2>7. Black' = Black
    BY <1>3, <1>10, <2>1 DEF Black, GraphShape
  <2>8. Visiting' = Visiting \cup {d}
    BY <1>4, <2>2, <2>3 DEF Visiting
  <2>9. \A x \in Nodes : color'[x] = "grey" <=> x \in Visiting'
    BY <1>3, <1>4, <2>1, <2>8 DEF SearchInv, GraphShape
  <2>10. ASSUME ~ cycle', NEW i \in DOMAIN calls',
                NEW e \in dependencies'[calls'[i].at] \ calls'[i].todo
         PROVE  e \in Black' \/ (i + 1 \in DOMAIN calls' /\ e = calls'[i + 1].at)
    <3>1. CASE i = n + 1
      BY <1>2, <2>2, <2>10, <3>1
    <3>2. CASE i \in 1 .. n
      <4>1. e \in dependencies[calls[i].at] /\ (e \notin calls[i].todo \/ (i = n /\ e = d))
        BY <1>2, <1>4, <2>3, <2>10, <3>2
      <4>2. CASE i = n /\ e = d
        BY <1>4, <2>2, <4>2
      <4>3. CASE e \notin calls[i].todo
        <5>1. e \in Black \/ (i + 1 \in 1 .. n /\ e = calls[i + 1].at)
          BY <1>3, <1>4, <1>6, <2>10, <3>2, <4>1, <4>3 DEF SearchInv
        <5> QED BY <1>4, <2>2, <2>3, <2>7, <5>1
      <4> QED BY <4>1, <4>2, <4>3
    <3> QED BY <1>4, <2>2, <2>10, <3>1, <3>2
  <2>11. SearchInv'
    BY <1>2, <1>3, <1>5, <1>6, <1>7, <2>7, <2>9, <2>10 DEF SearchInv
  <2> QED BY <1>8, <2>5, <2>6, <2>11 DEF GraphInv
<1>11. CASE color[d] # "white"
  <2>1. color' = color /\ calls' = Looked(d)
    BY <1>1, <1>11 DEF VisitOne
  <2>2. /\ DOMAIN calls' = 1 .. n
        /\ \A i \in 1 .. n : /\ calls'[i].at = calls[i].at
                             /\ calls'[i].todo = IF i = n THEN calls[n].todo \ {d} ELSE calls[i].todo
    BY <1>9, <2>1
  <2>3. calls' \in Seq(CallRecord)
    BY <1>9, <2>1
  <2> HIDE DEF n
  <2>4. GraphShape'
    BY <1>2, <1>3, <1>6, <2>1, <2>3 DEF GraphShape
  <2>5. OnWay'
    BY <1>2, <1>3, <1>4, <2>2 DEF OnWay
  <2>6. Black' = Black /\ Visiting' = Visiting
    BY <1>4, <2>1, <2>2 DEF Black, Visiting
  <2>7. ASSUME ~ cycle', NEW i \in DOMAIN calls',
               NEW e \in dependencies'[calls'[i].at] \ calls'[i].todo
        PROVE  e \in Black' \/ (i + 1 \in DOMAIN calls' /\ e = calls'[i + 1].at)
    <3>1. e \in dependencies[calls[i].at] /\ (e \notin calls[i].todo \/ (i = n /\ e = d))
      BY <1>2, <1>4, <2>2, <2>7
    <3>2. d \in Black
      BY <1>3, <1>4, <1>6, <1>11, <2>7 DEF Black, GraphShape
    <3>3. CASE e \notin calls[i].todo
      <4>1. e \in Black \/ (i + 1 \in 1 .. n /\ e = calls[i + 1].at)
        BY <1>3, <1>4, <1>6, <2>2, <2>7, <3>1, <3>3 DEF SearchInv
      <4> QED BY <2>2, <2>6, <4>1
    <3> QED BY <2>6, <3>1, <3>2, <3>3
  <2>8. SearchInv'
    BY <1>2, <1>3, <1>5, <1>6, <1>7, <2>1, <2>6, <2>7 DEF SearchInv
  <2> QED BY <1>8, <2>4, <2>5, <2>8 DEF GraphInv
<1> QED BY <1>10, <1>11

\* What is black stays without a cycle: one would not need the new ticket.
LEMMA VisitReturnKeeps ==
  ASSUME GraphInv, VisitReturns
  PROVE  GraphInv'
<1> DEFINE n == Len(calls)
           x == Top.at
<1>1. /\ phase = "visit" /\ calls # << >> /\ Top.todo = {} /\ phase' = phase
      /\ color' = [color EXCEPT ![x] = "black"] /\ calls' = Return
      /\ dependencies' = dependencies /\ done' = done /\ dropped' = dropped /\ cycle' = cycle
      /\ roots' = roots /\ memo' = memo /\ deepest' = deepest
  BY DEF VisitReturns
<1>2. GraphShape /\ OnWay /\ SearchInv
  BY <1>1 DEF GraphInv
<1>3. /\ n \in Nat /\ n >= 1 /\ DOMAIN calls = 1 .. n /\ n \in DOMAIN calls /\ Top = calls[n]
      /\ \A i \in DOMAIN calls : calls[i].at \in Nodes /\ calls[i].todo \subseteq Nodes
      /\ x \in Nodes
  BY <1>1, <1>2, StackType DEF Top
<1>4. /\ calls' \in Seq(CallRecord) /\ DOMAIN calls' = 1 .. n - 1
      /\ \A i \in 1 .. n - 1 : calls'[i] = calls[i]
  BY <1>1, <1>2, Returned
<1>5. calls[n].at = x /\ calls[n].todo = {}
  BY <1>1, <1>3
<1> HIDE DEF n, x
<1>6. GraphShape'
  BY <1>1, <1>2, <1>3, <1>4 DEF GraphShape
<1>7. OnWay'
  BY <1>1, <1>2, <1>3, <1>4 DEF OnWay
<1>8. Black' = Black \cup {x} /\ (Cyclic' <=> Cyclic)
  BY <1>1, <1>2, <1>3 DEF Black, Cyclic, GraphShape
<1>9. \A y \in Nodes : color'[y] = "grey" <=> y \in Visiting'
  <2>1. Visiting = {calls[i].at : i \in 1 .. n}
    BY <1>3 DEF Visiting
  <2>2. Visiting' = {calls[i].at : i \in 1 .. n - 1}
    BY <1>4 DEF Visiting
  <2>3. \A i \in 1 .. n - 1 : i \in 1 .. n /\ i # n
    BY <1>3
  <2>4. \A i \in 1 .. n : i = n \/ i \in 1 .. n - 1
    BY <1>3
  <2>5. \A i \in 1 .. n - 1 : calls[i].at # x
    BY <1>2, <1>3, <1>5, <2>3 DEF OnWay
  <2>6. Visiting' = Visiting \ {x}
    BY <1>3, <1>5, <2>1, <2>2, <2>3, <2>4, <2>5
  <2>7. \A y \in Nodes : color'[y] = IF y = x THEN "black" ELSE color[y]
    BY <1>1, <1>2, <1>3 DEF GraphShape
  <2> QED BY <1>2, <2>6, <2>7 DEF SearchInv
<1>10. ASSUME ~ cycle
       PROVE  /\ x \notin Black /\ dependencies[x] \subseteq Black
              /\ \A i \in DOMAIN calls' : \A d \in dependencies[calls[i].at] \ calls[i].todo :
                   d \in Black' \/ (i + 1 \in DOMAIN calls' /\ d = calls[i + 1].at)
  <2>1. color[x] = "grey"
    BY <1>2, <1>3, <1>5 DEF SearchInv, Visiting
  <2>2. x \notin Black
    BY <2>1 DEF Black
  <2>3. \A i \in DOMAIN calls : \A d \in dependencies[calls[i].at] \ calls[i].todo :
          d \in Black \/ (i + 1 \in DOMAIN calls /\ d = calls[i + 1].at)
    BY <1>2, <1>10 DEF SearchInv
  <2>4. ~ (n + 1 \in DOMAIN calls)
    BY <1>3
  <2>5. dependencies[x] \subseteq Black
    BY <1>3, <1>5, <2>3, <2>4
  <2>6. ASSUME NEW i \in DOMAIN calls', NEW d \in dependencies[calls[i].at] \ calls[i].todo
        PROVE  d \in Black' \/ (i + 1 \in DOMAIN calls' /\ d = calls[i + 1].at)
    <3>1. i \in DOMAIN calls /\ (i + 1 = n \/ i + 1 \in DOMAIN calls')
      BY <1>3, <1>4, <2>6
    <3>2. d \in Black \/ d = calls[i + 1].at
      BY <2>3, <2>6, <3>1
    <3> QED BY <1>5, <1>8, <3>1, <3>2
  <2> QED BY <2>2, <2>5, <2>6
<1>11. ASSUME ~ cycle, NEW S \in SUBSET Black', S # {}
       PROVE  \E y \in S : dependencies[y] \cap S = {}
  <2>1. \A T \in SUBSET Black : T # {} => \E y \in T : dependencies[y] \cap T = {}
    BY <1>2, <1>11 DEF SearchInv
  <2>2. CASE x \notin S
    BY <1>8, <1>11, <2>1, <2>2
  <2>3. CASE S \ {x} = {}
    <3>1. S = {x} /\ dependencies[x] \cap S = {}
      BY <1>10, <1>11, <2>3
    <3> QED BY <3>1
  <2>4. CASE x \in S /\ S \ {x} # {}
    <3>1. S \ {x} \in SUBSET Black
      BY <1>8, <1>11
    <3>2. PICK y \in S \ {x} : dependencies[y] \cap (S \ {x}) = {}
      BY <2>1, <2>4, <3>1
    <3>3. dependencies[y] \subseteq Black
      BY <1>2, <1>11, <3>1, <3>2 DEF SearchInv
    <3> QED BY <1>10, <1>11, <3>2, <3>3
  <2> QED BY <2>2, <2>3, <2>4
<1>12. ASSUME ~ cycle, NEW y \in Black'
       PROVE  dependencies[y] \subseteq Black'
  BY <1>2, <1>8, <1>10, <1>12 DEF SearchInv
<1>13. \A i \in DOMAIN calls' : calls'[i] = calls[i] /\ (i + 1 \in DOMAIN calls' => calls'[i + 1] = calls[i + 1])
  BY <1>3, <1>4
<1>14. SearchInv'
  <2>1. cycle' => Cyclic'
    BY <1>1, <1>2, <1>8 DEF SearchInv
  <2>2. ASSUME ~ cycle', NEW i \in DOMAIN calls',
               NEW d \in dependencies'[calls'[i].at] \ calls'[i].todo
        PROVE  d \in Black' \/ (i + 1 \in DOMAIN calls' /\ d = calls'[i + 1].at)
    BY <1>1, <1>10, <1>13, <2>2
  <2> QED BY <1>1, <1>9, <1>11, <1>12, <2>1, <2>2 DEF SearchInv
<1>15. CyclesAreFound'
  BY <1>1 DEF CyclesAreFound
<1> QED BY <1>6, <1>7, <1>14, <1>15 DEF GraphInv

\* When every ticket is black the search has told the truth.
LEMMA SearchEnds ==
  ASSUME GraphInv, StartPaths
  PROVE  GraphInv'
<1>1. /\ phase = "visit" /\ calls = << >> /\ (\A n \in Nodes : color[n] = "black")
      /\ phase' = "paths" /\ done' \subseteq Nodes /\ dropped' \subseteq Nodes
      /\ roots' \subseteq Nodes /\ dependencies' = dependencies /\ calls' = calls
      /\ color' = color /\ cycle' = cycle /\ memo' = memo /\ deepest' = deepest
  BY DEF StartPaths
<1>2. GraphShape /\ OnWay /\ SearchInv
  BY <1>1 DEF GraphInv
<1>3. cycle = Cyclic
  <2>1. Black = Nodes
    BY <1>1 DEF Black
  <2>2. ~ cycle => ~ Cyclic
    BY <1>2, <2>1 DEF SearchInv, Cyclic
  <2>3. cycle => Cyclic
    BY <1>2 DEF SearchInv
  <2>4. cycle \in BOOLEAN /\ Cyclic \in BOOLEAN
    BY <1>2 DEF GraphShape, Cyclic
  <2> QED BY <2>2, <2>3, <2>4
<1>4. CyclesAreFound'
  BY <1>1, <1>3 DEF CyclesAreFound, Cyclic
<1>5. GraphShape'
  BY <1>1, <1>2 DEF GraphShape
<1>6. OnWay'
  BY <1>1, <1>2 DEF OnWay
<1> QED BY <1>1, <1>4, <1>5, <1>6 DEF GraphInv

-----------------------------------------------------------------------------
\* The longest chains: a chain holds no ticket twice, and only such as have
\* a chain of their own, which those on the way have not yet.

Sound(m, c) ==
  /\ c \in Seq(Nodes)
  /\ \A k, l \in DOMAIN c : c[k] = c[l] => k = l
  /\ \A k \in DOMAIN c : m[c[k]] # << >>

ChainInv ==
  /\ phase = "visit" => \A n \in Nodes : memo[n] = << >>
  /\ \A i \in DOMAIN calls : memo[calls[i].at] = << >> /\ Sound(memo, calls[i].best)
  /\ \A n \in Nodes : Sound(memo, memo[n])
  /\ Sound(memo, deepest)

LEMMA EmptyIsSound == \A m : Sound(m, << >>)
<1>1. << >> \in Seq(Nodes) /\ DOMAIN << >> = {}
  BY EmptySeq
<1> QED BY <1>1 DEF Sound

LEMMA LongerIsSound ==
  ASSUME NEW m, NEW c, NEW d, Sound(m, c), Sound(m, d)
  PROVE  Sound(m, Longer(c, d))
BY DEF Longer

\* A chain is handed to a call.
LEMMA Handed ==
  ASSUME NEW s \in Seq(CallRecord), NEW n \in DOMAIN s, NEW c \in Seq(Nodes)
  PROVE  LET t == [s EXCEPT ![n].best = Longer(c, @)]
         IN  /\ t \in Seq(CallRecord) /\ DOMAIN t = DOMAIN s
             /\ \A i \in DOMAIN s :
                  /\ t[i].at = s[i].at /\ t[i].todo = s[i].todo
                  /\ t[i].best = IF i = n THEN Longer(c, s[i].best) ELSE s[i].best
<1> DEFINE e == [s[n] EXCEPT !.best = Longer(c, @)]
           t == [s EXCEPT ![n] = e]
<1>1. DOMAIN s = 1 .. Len(s) /\ n \in 1 .. Len(s) /\ \A i \in DOMAIN s : s[i] \in CallRecord
  BY LenProperties, ElementOfSeq
<1>2. Longer(c, s[n].best) \in Seq(Nodes)
  BY <1>1 DEF Longer, CallRecord
<1>3. e \in CallRecord /\ e.at = s[n].at /\ e.todo = s[n].todo /\ e.best = Longer(c, s[n].best)
  BY <1>1, <1>2 DEF CallRecord
<1> HIDE DEF e
<1>4. t \in Seq(CallRecord) /\ Len(t) = Len(s)
  BY <1>1, <1>3, ExceptSeq
<1>5. DOMAIN t = DOMAIN s /\ \A i \in DOMAIN s : t[i] = IF i = n THEN e ELSE s[i]
  BY <1>1, <1>4, LenProperties
<1>6. [s EXCEPT ![n].best = Longer(c, @)] = t
  BY DEF e
<1> HIDE DEF t
<1> QED BY <1>3, <1>4, <1>5, <1>6

LEMMA Extended ==
  ASSUME GraphShape, NEW c, Sound(memo, c), NEW x \in Nodes, memo[x] = << >>
  PROVE  /\ Append(c, x) \in Seq(Nodes) /\ Append(c, x) # << >>
         /\ \A k, l \in DOMAIN Append(c, x) : Append(c, x)[k] = Append(c, x)[l] => k = l
         /\ \A k \in DOMAIN Append(c, x) :
              [memo EXCEPT ![x] = Append(c, x)][Append(c, x)[k]] # << >>
<1> DEFINE m == [memo EXCEPT ![x] = Append(c, x)]
           a == Append(c, x)
           n == Len(c)
<1>1. /\ c \in Seq(Nodes) /\ n \in Nat /\ DOMAIN c = 1 .. n
      /\ \A k \in 1 .. n : c[k] \in Nodes /\ c[k] # x /\ memo[c[k]] # << >>
      /\ \A k, l \in 1 .. n : c[k] = c[l] => k = l
  BY LenProperties, ElementOfSeq DEF Sound
<1>2. a \in Seq(Nodes) /\ Len(a) = n + 1
  BY <1>1, AppendProperties
<1>3. /\ \A k \in 1 .. n : a[k] = c[k]
      /\ a[n + 1] = x
  BY <1>1, AppendProperties
<1>4. DOMAIN a = 1 .. n + 1
  BY <1>2, LenProperties
<1> HIDE DEF a, n
<1>5. a # << >>
  <2>1. n + 1 # 0 /\ Len(<< >>) = 0
    BY <1>1, EmptySeq
  <2> QED BY <1>2, <2>1
<1>6. m \in [Nodes -> Seq(Nodes)] /\ m[x] = a /\ \A y \in Nodes : y # x => m[y] = memo[y]
  BY <1>2 DEF GraphShape, a
<1> HIDE DEF m
<1>7. \A k \in 1 .. n + 1 : k = n + 1 \/ k \in 1 .. n
  BY <1>1
<1>8. \A k, l \in DOMAIN a : a[k] = a[l] => k = l
  BY <1>1, <1>3, <1>4, <1>7
<1>9. \A k \in DOMAIN a : m[a[k]] # << >>
  <2> SUFFICES ASSUME NEW k \in 1 .. n + 1 PROVE m[a[k]] # << >>
    BY <1>4
  <2>1. CASE k = n + 1
    BY <1>3, <1>5, <1>6, <2>1
  <2>2. CASE k \in 1 .. n
    <3>1. a[k] \in Nodes /\ a[k] # x /\ memo[a[k]] # << >>
      BY <1>1, <1>3, <2>2
    <3> QED BY <1>6, <3>1
  <2> QED BY <1>7, <2>1, <2>2
<1> QED BY <1>2, <1>5, <1>8, <1>9 DEF a, m

-----------------------------------------------------------------------------
\* A step of the longest chain.
LEMMA LongestBegins ==
  ASSUME GraphInv, ChainInv, NEW n \in Nodes, StartLongest(n)
  PROVE  GraphInv' /\ ChainInv'
<1> DEFINE s == <<Call(n, dependencies[n])>>
<1>1. /\ phase = "paths" /\ calls = << >> /\ phase' = phase /\ dependencies' = dependencies
      /\ color' = color /\ cycle' = cycle /\ done' = done /\ dropped' = dropped /\ memo' = memo
      /\ roots' = roots \ {n}
      /\ \/ memo[n] = << >> /\ calls' = s /\ deepest' = deepest
         \/ deepest' = Longer(memo[n], deepest) /\ calls' = calls
  BY DEF StartLongest
<1>2. /\ s \in Seq(CallRecord) /\ DOMAIN s = 1 .. 1
      /\ s[1].at = n /\ s[1].todo = dependencies[n] /\ s[1].best = << >>
  BY First DEF GraphInv
<1> HIDE DEF s
<1>3. GraphShape /\ OnWay /\ CyclesAreFound
  BY <1>1 DEF GraphInv
<1>5. deepest' \in Seq(Nodes) /\ Sound(memo', deepest')
  BY <1>1, LongerIsSound DEF ChainInv, Sound
<1>6. GraphShape'
  BY <1>1, <1>2, <1>3, <1>5 DEF GraphShape
<1>7. OnWay'
  BY <1>1, <1>2, <1>3 DEF OnWay
<1>8. CyclesAreFound'
  BY <1>1, <1>3 DEF CyclesAreFound, Cyclic
<1>9. ChainInv'
  BY <1>1, <1>2, <1>5, EmptyIsSound DEF ChainInv
<1> QED BY <1>1, <1>6, <1>7, <1>8, <1>9 DEF GraphInv

LEMMA LongestKeeps ==
  ASSUME GraphInv, ChainInv, LongestDependency
  PROVE  GraphInv' /\ ChainInv'
<1>1. /\ phase = "paths" /\ calls # << >> /\ phase' = phase /\ dependencies' = dependencies
      /\ color' = color /\ cycle' = cycle /\ done' = done /\ dropped' = dropped /\ memo' = memo
      /\ roots' = roots /\ deepest' = deepest
  BY DEF LongestDependency
<1>2. PICK d \in Top.todo :
        \/ calls' = Looked(d)
        \/ calls' = [Looked(d) EXCEPT ![Len(calls)].best = Longer(memo[d], @)]
        \/ /\ memo[d] = << >> /\ d \notin Visiting
           /\ calls' = Append(Looked(d), Call(d, dependencies[d]))
  BY DEF LongestDependency
<1>3. GraphShape /\ OnWay /\ CyclesAreFound
  BY <1>1 DEF GraphInv
<1> DEFINE n == Len(calls)
<1>4. /\ n \in Nat /\ n >= 1 /\ DOMAIN calls = 1 .. n /\ n \in DOMAIN calls /\ Top = calls[n]
      /\ \A i \in DOMAIN calls : calls[i].at \in Nodes /\ calls[i].todo \subseteq Nodes
      /\ d \in Nodes /\ d \in dependencies[calls[n].at]
  BY <1>1, <1>3, StackType DEF Top, OnWay
<1>5. /\ Looked(d) \in Seq(CallRecord) /\ DOMAIN Looked(d) = 1 .. n
      /\ \A i \in 1 .. n : /\ Looked(d)[i].at = calls[i].at
                           /\ Looked(d)[i].todo \subseteq calls[i].todo
                           /\ Looked(d)[i].best = calls[i].best
  BY <1>1, <1>3, <1>4, LookedAt, LenProperties
<1>6. memo[d] \in Seq(Nodes)
  BY <1>3, <1>4 DEF GraphShape
<1> HIDE DEF n
<1>8. CASE \/ calls' = Looked(d)
           \/ calls' = [Looked(d) EXCEPT ![Len(calls)].best = Longer(memo[d], @)]
  <2>1. /\ calls' \in Seq(CallRecord) /\ DOMAIN calls' = 1 .. n
        /\ \A i \in 1 .. n :
             /\ calls'[i].at = calls[i].at /\ calls'[i].todo \subseteq calls[i].todo
             /\ calls'[i].best \in {calls[i].best, Longer(memo[d], calls[i].best)}
    <3>1. CASE calls' = Looked(d)
      BY <1>5, <3>1
    <3>2. CASE calls' = [Looked(d) EXCEPT ![Len(calls)].best = Longer(memo[d], @)]
      <4>1. Len(calls) \in DOMAIN Looked(d)
        BY <1>4, <1>5 DEF n
      <4> DEFINE s == Looked(d)
                 top == Len(calls)
                 c == memo[d]
      <4> HIDE DEF s, top, c
      <4>2. /\ s \in Seq(CallRecord) /\ top \in DOMAIN s /\ c \in Seq(Nodes)
            /\ calls' = [s EXCEPT ![top].best = Longer(c, @)]
        BY <1>5, <1>6, <3>2, <4>1 DEF s, top, c
      <4>3. /\ calls' \in Seq(CallRecord) /\ DOMAIN calls' = DOMAIN s
            /\ \A i \in DOMAIN s :
                 /\ calls'[i].at = s[i].at /\ calls'[i].todo = s[i].todo
                 /\ calls'[i].best = IF i = top THEN Longer(c, s[i].best) ELSE s[i].best
        BY <4>2, Handed
      <4> QED BY <1>5, <4>3 DEF s, c
    <3> QED BY <1>8, <3>1, <3>2
  <2>2. GraphShape'
    BY <1>1, <1>3, <2>1 DEF GraphShape
  <2>3. OnWay'
    <3>1. \A i, j \in DOMAIN calls' : calls'[i].at = calls'[j].at => i = j
      BY <1>3, <1>4, <2>1 DEF OnWay
    <3>2. \A i \in DOMAIN calls' : calls'[i].todo \subseteq dependencies'[calls'[i].at]
      BY <1>1, <1>3, <1>4, <2>1 DEF OnWay
    <3>3. \A i \in DOMAIN calls' :
            i + 1 \in DOMAIN calls' => calls'[i + 1].at \in dependencies'[calls'[i].at]
      BY <1>1, <1>3, <1>4, <2>1 DEF OnWay
    <3> QED BY <3>1, <3>2, <3>3 DEF OnWay
  <2>4. CyclesAreFound'
    BY <1>1, <1>3 DEF CyclesAreFound, Cyclic
  <2>5. \A i \in DOMAIN calls' : Sound(memo, calls'[i].best)
    BY <1>4, <2>1, LongerIsSound DEF ChainInv
  <2>6. ChainInv'
    BY <1>1, <1>4, <2>1, <2>5 DEF ChainInv
  <2> QED BY <1>1, <2>2, <2>3, <2>4, <2>6 DEF GraphInv
<1>9. CASE /\ memo[d] = << >> /\ d \notin Visiting
           /\ calls' = Append(Looked(d), Call(d, dependencies[d]))
  <2>1. /\ calls' \in Seq(CallRecord) /\ DOMAIN calls' = 1 .. n + 1
        /\ \A i \in 1 .. n : calls'[i] = Looked(d)[i]
        /\ calls'[n + 1].at = d /\ calls'[n + 1].todo = dependencies[d]
        /\ calls'[n + 1].best = << >>
    BY <1>1, <1>3, <1>4, <1>9, Called DEF n
  <2>2. \A i \in 1 .. n : /\ calls'[i].at = calls[i].at
                          /\ calls'[i].todo \subseteq calls[i].todo
                          /\ calls'[i].best = calls[i].best
    BY <1>5, <2>1
  <2>3. GraphShape'
    BY <1>1, <1>3, <2>1 DEF GraphShape
  <2>6. \A i \in 1 .. n + 1 : i = n + 1 \/ i \in 1 .. n
    BY <1>4
  <2>4. OnWay'
    <3>1. \A i, j \in DOMAIN calls' : calls'[i].at = calls'[j].at => i = j
      BY <1>3, <1>4, <1>9, <2>1, <2>2 DEF OnWay, Visiting
    <3>2. \A i \in 1 .. n : calls[i].todo \subseteq dependencies[calls[i].at]
      BY <1>3, <1>4 DEF OnWay
    <3>3. ASSUME NEW i \in 1 .. n + 1
          PROVE  calls'[i].todo \subseteq dependencies[calls'[i].at]
      <4>1. CASE i = n + 1
        BY <2>1, <4>1
      <4>2. CASE i \in 1 .. n
        BY <2>2, <3>2, <4>2
      <4> QED BY <2>6, <4>1, <4>2
    <3>4. \A i \in DOMAIN calls' : calls'[i].todo \subseteq dependencies'[calls'[i].at]
      BY <1>1, <2>1, <3>3
    <3>5. ASSUME NEW i \in DOMAIN calls', i + 1 \in DOMAIN calls'
          PROVE  calls'[i + 1].at \in dependencies'[calls'[i].at]
      <4>1. CASE i = n
        BY <1>1, <1>4, <2>1, <2>2, <4>1
      <4>2. CASE i # n
        <5>1. i \in 1 .. n /\ i + 1 \in 1 .. n
          BY <1>4, <2>1, <3>5, <4>2
        <5> QED BY <1>1, <1>3, <1>4, <2>2, <5>1 DEF OnWay
      <4> QED BY <4>1, <4>2
    <3> QED BY <3>1, <3>4, <3>5 DEF OnWay
  <2>5. CyclesAreFound'
    BY <1>1, <1>3 DEF CyclesAreFound, Cyclic
  <2>7. \A i \in DOMAIN calls' : memo[calls'[i].at] = << >> /\ Sound(memo, calls'[i].best)
    BY <1>4, <1>9, <2>1, <2>2, <2>6, EmptyIsSound DEF ChainInv
  <2>8. ChainInv'
    BY <1>1, <2>7 DEF ChainInv
  <2> QED BY <1>1, <2>3, <2>4, <2>5, <2>8 DEF GraphInv
<1> QED BY <1>2, <1>8, <1>9

LEMMA LongestReturnKeeps ==
  ASSUME GraphInv, ChainInv, LongestReturns
  PROVE  GraphInv' /\ ChainInv'
<1> DEFINE n == Len(calls)
           x == Top.at
           chain == Append(Top.best, x)
<1>1. /\ phase = "paths" /\ calls # << >> /\ phase' = phase /\ dependencies' = dependencies
      /\ color' = color /\ cycle' = cycle /\ done' = done /\ dropped' = dropped
      /\ roots' = roots /\ memo' = [memo EXCEPT ![x] = chain]
      /\ \/ Return = << >> /\ calls' = << >> /\ deepest' = Longer(chain, deepest)
         \/ Return # << >> /\ calls' = Hand(chain) /\ deepest' = deepest
  BY DEF LongestReturns
<1>2. GraphShape /\ OnWay /\ CyclesAreFound
  BY <1>1 DEF GraphInv
<1>3. /\ n \in Nat /\ n >= 1 /\ DOMAIN calls = 1 .. n /\ n \in DOMAIN calls /\ Top = calls[n]
      /\ \A i \in DOMAIN calls : calls[i].at \in Nodes
      /\ x \in Nodes /\ x = calls[n].at
  BY <1>1, <1>2, StackType DEF Top
<1>4. /\ Return \in Seq(CallRecord) /\ Len(Return) = n - 1 /\ DOMAIN Return = 1 .. n - 1
      /\ \A i \in 1 .. n - 1 : Return[i] = calls[i]
  BY <1>1, <1>2, Returned
<1>5. memo[x] = << >> /\ Sound(memo, Top.best)
  BY <1>3 DEF ChainInv
<1> HIDE DEF x
<1>6. /\ chain \in Seq(Nodes) /\ chain # << >>
      /\ \A k, l \in DOMAIN chain : chain[k] = chain[l] => k = l
      /\ \A k \in DOMAIN chain : memo'[chain[k]] # << >>
  BY <1>1, <1>2, <1>3, <1>5, Extended
<1> HIDE DEF chain, n
<1>7. /\ memo' \in [Nodes -> Seq(Nodes)] /\ memo'[x] = chain
      /\ \A y \in Nodes : y # x => memo'[y] = memo[y]
  BY <1>1, <1>2, <1>3, <1>6 DEF GraphShape
<1>8. Sound(memo', chain)
  BY <1>6 DEF Sound
<1>9. ASSUME NEW c, Sound(memo, c)
      PROVE  Sound(memo', c)
  <2>1. c \in Seq(Nodes) /\ \A k \in DOMAIN c : c[k] \in Nodes
    BY <1>9, LenProperties, ElementOfSeq DEF Sound
  <2>2. \A k \in DOMAIN c : memo'[c[k]] # << >>
    BY <1>6, <1>7, <1>9, <2>1 DEF Sound
  <2> QED BY <1>9, <2>2 DEF Sound
<1>11. /\ calls' \in Seq(CallRecord) /\ DOMAIN calls' = 1 .. n - 1
       /\ \A i \in 1 .. n - 1 :
            /\ calls'[i].at = calls[i].at /\ calls'[i].todo = calls[i].todo
            /\ calls'[i].best \in {calls[i].best, Longer(chain, calls[i].best)}
  <2>1. CASE Return = << >>
    <3>1. n - 1 = 0
      BY <1>4, <2>1, EmptySeq
    <3> QED BY <1>1, <1>4, <2>1, <3>1
  <2>2. CASE Return # << >>
    <3>1. Len(Return) \in DOMAIN Return
      BY <1>3, <1>4, <2>2, EmptySeq
    <3>2. calls' = [Return EXCEPT ![Len(Return)].best = Longer(chain, @)]
      BY <1>1, <2>2 DEF Hand
    <3> QED BY <1>4, <1>6, <3>1, <3>2, Handed
  <2> QED BY <2>1, <2>2
<1>13. deepest' \in {deepest, chain}
  BY <1>1 DEF Longer
<1>14. Sound(memo', deepest')
  BY <1>8, <1>9, <1>13 DEF ChainInv
<1>15. deepest' \in Seq(Nodes)
  BY <1>14 DEF Sound
<1>16. GraphShape'
  BY <1>1, <1>2, <1>7, <1>11, <1>15 DEF GraphShape
<1>17. \A i \in 1 .. n - 1 : i \in 1 .. n /\ i # n
  BY <1>3
<1>18. OnWay'
  <2>1. \A i, j \in DOMAIN calls' : calls'[i].at = calls'[j].at => i = j
    BY <1>2, <1>3, <1>11, <1>17 DEF OnWay
  <2>2. \A i \in DOMAIN calls' : calls'[i].todo \subseteq dependencies'[calls'[i].at]
    BY <1>1, <1>2, <1>3, <1>11, <1>17 DEF OnWay
  <2>3. \A i \in DOMAIN calls' :
          i + 1 \in DOMAIN calls' => calls'[i + 1].at \in dependencies'[calls'[i].at]
    BY <1>1, <1>2, <1>3, <1>11, <1>17 DEF OnWay
  <2> QED BY <2>1, <2>2, <2>3 DEF OnWay
<1>19. CyclesAreFound'
  BY <1>1, <1>2 DEF CyclesAreFound, Cyclic
<1>20. ASSUME NEW i \in DOMAIN calls'
       PROVE  memo'[calls'[i].at] = << >> /\ Sound(memo', calls'[i].best)
  <2>1. i \in 1 .. n - 1 /\ i \in DOMAIN calls /\ i # n
    BY <1>3, <1>11, <1>17, <1>20
  <2>2. calls'[i].at # x
    BY <1>2, <1>3, <1>11, <2>1 DEF OnWay
  <2>3. memo[calls[i].at] = << >> /\ Sound(memo, calls[i].best)
    BY <2>1 DEF ChainInv
  <2>4. memo'[calls'[i].at] = << >>
    BY <1>3, <1>7, <1>11, <2>1, <2>2, <2>3
  <2>5. calls'[i].best \in {calls[i].best, chain}
    BY <1>11, <2>1 DEF Longer
  <2>7. Sound(memo', calls'[i].best)
    BY <1>8, <1>9, <2>3, <2>5
  <2> QED BY <2>4, <2>7
<1>21. ASSUME NEW y \in Nodes
       PROVE  Sound(memo', memo'[y])
  <2>1. CASE y = x
    BY <1>7, <1>8, <2>1
  <2>2. CASE y # x
    <3>1. memo'[y] = memo[y] /\ Sound(memo, memo[y])
      BY <1>7, <2>2 DEF ChainInv
    <3> QED BY <1>9, <3>1
  <2> QED BY <2>1, <2>2
<1>22. ChainInv'
  BY <1>1, <1>14, <1>20, <1>21 DEF ChainInv
<1> QED BY <1>1, <1>16, <1>18, <1>19, <1>22 DEF GraphInv

-----------------------------------------------------------------------------
LEMMA PathsEndKeeps ==
  ASSUME GraphInv, ChainInv, PathsEnd
  PROVE  GraphInv' /\ ChainInv'
<1>1. /\ phase = "paths" /\ phase' = "done" /\ calls' = calls /\ dependencies' = dependencies
      /\ color' = color /\ cycle' = cycle /\ done' = done /\ dropped' = dropped /\ memo' = memo
      /\ roots' = roots /\ deepest' = deepest
  BY DEF PathsEnd
<1>2. GraphShape /\ OnWay /\ CyclesAreFound
  BY <1>1 DEF GraphInv
<1>3. GraphShape' /\ OnWay' /\ CyclesAreFound'
  BY <1>1, <1>2 DEF GraphShape, OnWay, CyclesAreFound, Cyclic
<1>4. ChainInv'
  BY <1>1 DEF ChainInv
<1> QED BY <1>1, <1>3, <1>4 DEF GraphInv

\* Before the search ends no chain is longer than nothing.
LEMMA SearchLeavesChains ==
  ASSUME GraphInv, GraphInv', ChainInv, memo' = memo, deepest' = deepest,
         \/ \E n \in Nodes : StartVisit(n)
         \/ VisitDependency
         \/ VisitReturns
         \/ StartPaths
  PROVE  ChainInv'
<1>1. GraphShape /\ GraphShape'
  BY DEF GraphInv
<1>2. phase = "visit" /\ \A n \in Nodes : memo'[n] = << >>
  BY DEF ChainInv, StartVisit, VisitDependency, VisitReturns, StartPaths
<1>3. \A i \in DOMAIN calls' : calls'[i].at \in Nodes
  <2>1. calls' \in Seq(CallRecord)
    BY <1>1 DEF GraphShape
  <2>2. \A i \in DOMAIN calls' : calls'[i] \in CallRecord
    BY <2>1, LenProperties, ElementOfSeq
  <2> QED BY <2>2 DEF CallRecord
<1>4. \A i \in DOMAIN calls' : Sound(memo, calls'[i].best)
  <2>1. ASSUME NEW n \in Nodes, StartVisit(n)
        PROVE  \A i \in DOMAIN calls' : calls'[i].best = << >>
    <3> DEFINE s == <<Call(n, dependencies[n])>>
    <3>1. calls' = s
      BY <2>1 DEF StartVisit
    <3>2. DOMAIN s = 1 .. 1 /\ s[1].best = << >>
      BY <1>1, First
    <3> HIDE DEF s
    <3> QED BY <3>1, <3>2
  <2>2. CASE VisitDependency
    <3>1. PICK d \in Top.todo : VisitOne(d)
      BY <2>2 DEF VisitDependency
    <3>2. /\ calls # << >> /\ d \in Nodes /\ Len(calls) \in Nat /\ DOMAIN calls = 1 .. Len(calls)
      BY <1>1, <2>2, StackType DEF VisitDependency, Top
    <3>3. /\ DOMAIN Looked(d) = DOMAIN calls
          /\ \A i \in DOMAIN calls : Looked(d)[i].best = calls[i].best
      BY <1>1, <3>2, LookedAt, LenProperties
    <3> DEFINE s == Append(Looked(d), Call(d, dependencies[d]))
               n == Len(calls)
    <3>4. /\ DOMAIN s = 1 .. n + 1 /\ s[n + 1].best = << >>
          /\ \A i \in 1 .. n : s[i] = Looked(d)[i]
      BY <1>1, <3>2, Called
    <3>5. calls' \in {Looked(d), s}
      BY <3>1 DEF VisitOne
    <3>6. \A i \in 1 .. n + 1 : i = n + 1 \/ i \in DOMAIN calls
      BY <3>2
    <3>7. DOMAIN calls = 1 .. n
      BY <3>2
    <3> HIDE DEF s, n
    <3>8. CASE calls' = s
      BY <3>3, <3>4, <3>6, <3>7, <3>8, EmptyIsSound DEF ChainInv
    <3>9. CASE calls' = Looked(d)
      BY <3>3, <3>9 DEF ChainInv
    <3> QED BY <3>5, <3>8, <3>9
  <2>3. CASE VisitReturns
    <3>1. calls' = Return /\ calls # << >>
      BY <2>3 DEF VisitReturns
    <3>2. \A i \in DOMAIN Return : i \in DOMAIN calls /\ Return[i] = calls[i]
      BY <1>1, <3>1, Returned, StackType
    <3> QED BY <3>1, <3>2 DEF ChainInv
  <2>4. CASE StartPaths
    BY <2>4 DEF StartPaths, ChainInv
  <2> QED BY <2>1, <2>2, <2>3, <2>4, EmptyIsSound
<1>5. (\A n \in Nodes : Sound(memo', memo'[n])) /\ Sound(memo', deepest')
  BY DEF ChainInv
<1> QED BY <1>2, <1>3, <1>4, <1>5 DEF ChainInv

LEMMA GraphStep ==
  ASSUME GraphInv, ChainInv, TicketGraphNext
  PROVE  GraphInv' /\ ChainInv'
<1>1. ASSUME NEW n \in Nodes, StartVisit(n)
      PROVE  GraphInv' /\ ChainInv'
  <2>1. memo' = memo /\ deepest' = deepest
    BY <1>1 DEF StartVisit
  <2> QED BY <1>1, <2>1, VisitBegins, SearchLeavesChains
<1>2. CASE VisitDependency
  <2>1. memo' = memo /\ deepest' = deepest
    BY <1>2 DEF VisitDependency
  <2> QED BY <1>2, <2>1, VisitKeeps, SearchLeavesChains
<1>3. CASE VisitReturns
  <2>1. memo' = memo /\ deepest' = deepest
    BY <1>3 DEF VisitReturns
  <2> QED BY <1>3, <2>1, VisitReturnKeeps, SearchLeavesChains
<1>4. CASE StartPaths
  <2>1. memo' = memo /\ deepest' = deepest
    BY <1>4 DEF StartPaths
  <2> QED BY <1>4, <2>1, SearchEnds, SearchLeavesChains
<1> QED BY <1>1, <1>2, <1>3, <1>4, LongestBegins, LongestKeeps, LongestReturnKeeps,
           PathsEndKeeps DEF TicketGraphNext

LEMMA GraphBegins ==
  ASSUME TicketGraphInit
  PROVE  GraphInv /\ ChainInv
<1>1. << >> \in Seq(CallRecord) /\ << >> \in Seq(Nodes) /\ DOMAIN << >> = {}
  BY EmptySeq
<1>2. GraphShape
  BY <1>1 DEF TicketGraphInit, GraphShape
<1>3. OnWay
  BY <1>1 DEF TicketGraphInit, OnWay
<1>4. SearchInv
  <2>1. Black = {} /\ Visiting = {}
    BY <1>1 DEF TicketGraphInit, Black, Visiting
  <2> QED BY <1>1, <2>1 DEF TicketGraphInit, SearchInv
<1>5. CyclesAreFound
  BY DEF TicketGraphInit, CyclesAreFound
<1>6. ChainInv
  BY <1>1, EmptyIsSound DEF TicketGraphInit, ChainInv
<1> QED BY <1>2, <1>3, <1>4, <1>5, <1>6 DEF GraphInv

LEMMA GraphsRest ==
  ASSUME GraphInv, ChainInv, UNCHANGED graphVars
  PROVE  GraphInv' /\ ChainInv'
<1> USE DEF graphVars
<1>1. GraphShape' /\ OnWay'
  BY DEF GraphInv, GraphShape, OnWay
<1>2. CyclesAreFound'
  BY DEF GraphInv, CyclesAreFound, Cyclic
<1>3. phase' = "visit" => SearchInv'
  BY DEF GraphInv, SearchInv, Black, Visiting, Cyclic
<1>4. ChainInv'
  BY DEF ChainInv
<1> QED BY <1>1, <1>2, <1>3, <1>4 DEF GraphInv

LEMMA GraphAlways == Spec => [](GraphInv /\ ChainInv)
<1>1. Init => GraphInv /\ ChainInv
  BY GraphBegins DEF Init, GraphRests
<1>2. (GraphInv /\ ChainInv) /\ [Next]_kitVars => (GraphInv /\ ChainInv)'
  <2> SUFFICES ASSUME GraphInv, ChainInv, [Next]_kitVars PROVE GraphInv' /\ ChainInv'
    OBVIOUS
  <2>1. CASE TicketGraphNext
    BY <2>1, GraphStep
  <2>2. CASE UNCHANGED graphVars
    BY <2>2, GraphsRest
  <2> QED BY <2>1, <2>2 DEF Next, kitVars
<1> QED BY <1>1, <1>2, PTL DEF Spec

(***************************************************************************)
(* Whatever tickets there are and whatever they depend on: when the        *)
(* coloured search is over, it has reported a cycle exactly when there is  *)
(* one, in whatever order it went (governance.py validate_ticket_graph).   *)
(***************************************************************************)
THEOREM SearchFindsCycles == Spec => []CyclesAreFound
<1>1. GraphInv /\ ChainInv => CyclesAreFound
  BY DEF GraphInv
<1> QED BY <1>1, GraphAlways, PTL

\* A chain without repetition is no longer than there are tickets.
LEMMA SoundIsShort ==
  ASSUME NEW m, NEW c, Sound(m, c)
  PROVE  Len(c) \in 0 .. Cardinality(Nodes)
<1> DEFINE k == Len(c)
<1>1. k \in Nat /\ c \in [1 .. k -> Nodes]
  BY LenProperties DEF Sound
<1>2. c \in Injection(1 .. k, Nodes)
  BY <1>1 DEF Sound, Injection, IsInjective
<1>3. Cardinality(1 .. k) <= Cardinality(Nodes)
  BY <1>2, TicketGraphAssumption, FS_Injection
<1>4. Cardinality(1 .. k) = k
  BY <1>1, FS_Interval
<1>5. Cardinality(Nodes) \in Nat
  BY TicketGraphAssumption, FS_CardinalityType
<1> QED BY <1>1, <1>3, <1>4, <1>5

LEMMA SoundIsChain ==
  ASSUME NEW m, NEW c, Sound(m, c)
  PROVE  c \in Chains
<1>1. c \in [1 .. Len(c) -> Nodes]
  BY LenProperties DEF Sound
<1> QED BY <1>1, SoundIsShort DEF Chains

PartInv == part \in {"setup", "graph", "change"}

(***************************************************************************)
(* Every variable of the kit keeps its type; in particular no chain of     *)
(* tickets outgrows their number, even on a graph with cycles, where the   *)
(* check of autopilot.py critical_path for tickets on the way is all that  *)
(* ends the recursion.                                                     *)
(***************************************************************************)
THEOREM KitKeepsTypes == Spec => []TypeOK
<1>1. CommandsInv /\ ChangeInv /\ (GraphInv /\ ChainInv) /\ PartInv => TypeOK
  <2> SUFFICES ASSUME CommandsInv, ChangeInv, GraphInv, ChainInv, PartInv PROVE TypeOK
    OBVIOUS
  <2>1. GraphShape
    BY DEF GraphInv
  <2>2. \A i \in DOMAIN calls :
          calls[i].at \in Nodes /\ calls[i].todo \subseteq Nodes /\ calls[i].best \in Chains
    BY <2>1, StackType, SoundIsChain DEF ChainInv
  <2>3. memo \in [Nodes -> Chains] /\ deepest \in Chains
    BY <2>1, SoundIsChain DEF ChainInv, GraphShape
  <2>4. TicketGraphTypeOK
    BY <2>1, <2>2, <2>3 DEF TicketGraphTypeOK, GraphShape
  <2> QED BY <2>4 DEF TypeOK, CommandsInv, ChangeInv, PartInv
<1>2. Spec => []PartInv
  <2>1. Init => PartInv
    BY DEF Init, PartInv
  <2>2. PartInv /\ [Next]_kitVars => PartInv'
    BY DEF Next, kitVars, PartInv
  <2> QED BY <2>1, <2>2, PTL DEF Spec
<1> QED BY <1>1, <1>2, CommandsKeepTypes, MergesAreChecked, GraphAlways, PTL

-----------------------------------------------------------------------------
\* The depth and the rounds of delivery, on a graph without a cycle.

Before(n) == dependencies[n] \cap Open(done)

\* What is remembered of the tickets that n waits for.
Ways(n) == {<< >>} \cup {memo[d] : d \in Before(n)}

\* The chain of n goes on from the longest of those.
Remembered(n) ==
  \E c \in Ways(n) :
    /\ memo[n] = Append(c, n)
    /\ \A d \in Before(n) : memo[d] # << >> /\ Len(memo[d]) <= Len(c)

\* So does the best of a call, as far as it has looked.
CallKnows(i) ==
  LET n == calls[i].at
      c == calls[i].best
  IN  /\ n \in Open(done) /\ c \in Ways(n)
      /\ \A d \in Before(n) \ calls[i].todo :
           \/ memo[d] # << >> /\ Len(memo[d]) <= Len(c)
           \/ i + 1 \in DOMAIN calls /\ d = calls[i + 1].at

PathsInv ==
  /\ \A i \in DOMAIN calls : CallKnows(i)
  /\ \A n \in Nodes : memo[n] # << >> => n \in Open(done) /\ Remembered(n)
  /\ roots \subseteq Open(done)
  /\ \A n \in Open(done) \ roots :
       \/ calls # << >> /\ calls[1].at = n
       \/ memo[n] # << >> /\ Len(memo[n]) <= Len(deepest)
  /\ deepest = << >> \/ \E n \in Open(done) : deepest = memo[n]

DepthInv ==
  /\ phase = "visit" => deepest = << >>
  /\ phase # "visit" /\ ~cycle => PathsInv
  /\ phase = "done" => calls = << >> /\ roots = {}

\* What a step of the longest chain finds.
LEMMA PathsShape ==
  ASSUME GraphInv, ChainInv
  PROVE  /\ GraphShape /\ OnWay /\ CyclesAreFound
         /\ memo \in [Nodes -> Seq(Nodes)] /\ deepest \in Seq(Nodes)
         /\ dependencies \in [Nodes -> SUBSET Nodes]
         /\ \A n : Before(n) \subseteq Nodes
         /\ Open(done) \subseteq Nodes
BY DEF GraphInv, GraphShape, Before, Open

LEMMA LongerIsLong ==
  ASSUME NEW c \in Seq(Nodes), NEW d \in Seq(Nodes)
  PROVE  /\ Longer(c, d) \in {c, d}
         /\ Len(c) \in Nat /\ Len(d) \in Nat /\ Len(Longer(c, d)) \in Nat
         /\ Len(c) <= Len(Longer(c, d)) /\ Len(d) <= Len(Longer(c, d))
<1>1. Len(c) \in Nat /\ Len(d) \in Nat
  BY LenProperties
<1> QED BY <1>1 DEF Longer

LEMMA DepthBegins ==
  ASSUME GraphInv, ChainInv, DepthInv, StartPaths
  PROVE  DepthInv'
<1>1. /\ phase = "visit" /\ calls = << >> /\ phase' = "paths" /\ calls' = calls
      /\ memo' = memo /\ deepest' = deepest /\ done' \subseteq Nodes
      /\ roots' = Nodes \ (done' \cup dropped')
  BY DEF StartPaths
<1>2. deepest = << >> /\ \A n \in Nodes : memo[n] = << >>
  BY <1>1 DEF DepthInv, ChainInv
<1>3. roots' = Open(done)'
  BY <1>1 DEF Open
<1>4. DOMAIN calls' = {}
  BY <1>1, EmptySeq
<1>5. PathsInv'
  BY <1>1, <1>2, <1>3, <1>4 DEF PathsInv
<1> QED BY <1>1, <1>5 DEF DepthInv

LEMMA DepthStarts ==
  ASSUME GraphInv, ChainInv, DepthInv, NEW n \in Nodes, StartLongest(n)
  PROVE  DepthInv'
<1> DEFINE s == <<Call(n, dependencies[n])>>
<1>1. /\ phase = "paths" /\ calls = << >> /\ n \in roots /\ phase' = phase
      /\ dependencies' = dependencies /\ cycle' = cycle /\ done' = done
      /\ dropped' = dropped /\ memo' = memo /\ roots' = roots \ {n}
      /\ \/ memo[n] = << >> /\ calls' = s /\ deepest' = deepest
         \/ memo[n] # << >> /\ deepest' = Longer(memo[n], deepest) /\ calls' = calls
  BY DEF StartLongest
<1>2. /\ s \in Seq(CallRecord) /\ DOMAIN s = 1 .. 1 /\ Len(s) = 1
      /\ s[1].at = n /\ s[1].todo = dependencies[n] /\ s[1].best = << >>
  BY First DEF GraphInv
<1> HIDE DEF s
<1> SUFFICES ASSUME ~cycle PROVE PathsInv'
  BY <1>1 DEF DepthInv
<1>3. PathsInv
  BY <1>1 DEF DepthInv
<1>4. Open(done)' = Open(done) /\ \A y : Before(y)' = Before(y) /\ Ways(y)' = Ways(y)
  BY <1>1 DEF Open, Before, Ways
<1>5. \A y \in Nodes : memo'[y] # << >> => y \in Open(done)' /\ Remembered(y)'
  BY <1>1, <1>3, <1>4 DEF PathsInv, Remembered
<1>6. roots' \subseteq Open(done)'
  BY <1>1, <1>3, <1>4 DEF PathsInv
<1>7. memo[n] \in Seq(Nodes) /\ deepest \in Seq(Nodes)
  BY PathsShape
<1>8. \A y \in Open(done) \ roots :
        memo[y] \in Seq(Nodes) /\ memo[y] # << >> /\ Len(memo[y]) <= Len(deepest)
  BY <1>1, <1>3, PathsShape DEF PathsInv
<1>9. CASE memo[n] = << >> /\ calls' = s /\ deepest' = deepest
  <2>1. s # << >>
    <3>1. DOMAIN << >> = {} /\ 1 \in DOMAIN s
      BY <1>2, EmptySeq
    <3> QED BY <3>1
  <2>2. ASSUME NEW i \in DOMAIN calls'
        PROVE  CallKnows(i)'
    <3>1. i = 1
      BY <1>2, <1>9, <2>2
    <3>2. n \in Open(done) /\ << >> \in Ways(n)
      BY <1>1, <1>3 DEF PathsInv, Ways
    <3>3. Before(n) \ dependencies[n] = {}
      BY DEF Before
    <3> QED BY <1>1, <1>2, <1>4, <1>9, <3>1, <3>2, <3>3 DEF CallKnows
  <2>3. \A y \in Open(done)' \ roots' :
          \/ calls' # << >> /\ calls'[1].at = y
          \/ memo'[y] # << >> /\ Len(memo'[y]) <= Len(deepest')
    BY <1>1, <1>2, <1>4, <1>8, <1>9, <2>1
  <2>4. deepest' = << >> \/ \E y \in Open(done)' : deepest' = memo'[y]
    BY <1>1, <1>3, <1>4, <1>9 DEF PathsInv
  <2> QED BY <1>5, <1>6, <2>2, <2>3, <2>4 DEF PathsInv
<1>10. CASE memo[n] # << >> /\ deepest' = Longer(memo[n], deepest) /\ calls' = calls
  <2>1. /\ deepest' \in {memo[n], deepest} /\ Len(memo[n]) <= Len(deepest')
        /\ Len(deepest) <= Len(deepest')
        /\ {Len(memo[n]), Len(deepest), Len(deepest')} \subseteq Nat
    BY <1>7, <1>10, LongerIsLong
  <2>2. DOMAIN calls' = {}
    BY <1>1, <1>10, EmptySeq
  <2>3. ASSUME NEW y \in Open(done) \ roots'
        PROVE  memo[y] # << >> /\ Len(memo[y]) <= Len(deepest')
    <3>1. CASE y = n
      BY <1>10, <2>1, <3>1
    <3>2. CASE y # n
      <4>1. memo[y] # << >> /\ Len(memo[y]) <= Len(deepest) /\ Len(memo[y]) \in Nat
        BY <1>1, <1>8, <2>3, <3>2, LenProperties
      <4> QED BY <2>1, <4>1
    <3> QED BY <3>1, <3>2
  <2>4. deepest' = << >> \/ \E y \in Open(done)' : deepest' = memo'[y]
    <3>1. n \in Open(done)
      BY <1>1, <1>3 DEF PathsInv
    <3> QED BY <1>1, <1>3, <1>4, <2>1, <3>1 DEF PathsInv
  <2> QED BY <1>1, <1>4, <1>5, <1>6, <2>2, <2>3, <2>4 DEF PathsInv
<1> QED BY <1>1, <1>9, <1>10

LEMMA DepthLooks ==
  ASSUME GraphInv, ChainInv, DepthInv, LongestDependency
  PROVE  DepthInv'
<1>1. /\ phase = "paths" /\ calls # << >> /\ phase' = phase /\ dependencies' = dependencies
      /\ cycle' = cycle /\ done' = done /\ dropped' = dropped /\ memo' = memo
      /\ roots' = roots /\ deepest' = deepest
  BY DEF LongestDependency
<1> SUFFICES ASSUME ~cycle PROVE PathsInv'
  BY <1>1 DEF DepthInv
<1>2. PathsInv /\ GraphShape /\ OnWay
  BY <1>1, PathsShape DEF DepthInv
<1>3. ~Cyclic
  BY <1>1, PathsShape DEF CyclesAreFound
<1>4. PICK d \in Top.todo :
        calls' = IF d \notin Open(done) THEN Looked(d)
                 ELSE IF memo[d] # << >>
                 THEN [Looked(d) EXCEPT ![Len(calls)].best = Longer(memo[d], @)]
                 ELSE IF d \in Visiting THEN Looked(d)
                 ELSE Append(Looked(d), Call(d, dependencies[d]))
  BY DEF LongestDependency
<1>5. d \notin Visiting
  BY <1>1, <1>2, <1>3, WayIsCycle
<1> DEFINE n == Len(calls)
<1>6. /\ n \in Nat /\ n >= 1 /\ DOMAIN calls = 1 .. n /\ n \in DOMAIN calls /\ Top = calls[n]
      /\ \A i \in DOMAIN calls :
           /\ calls[i].at \in Nodes /\ calls[i].todo \subseteq Nodes
           /\ calls[i].best \in Seq(Nodes)
      /\ d \in Nodes /\ d \in dependencies[calls[n].at]
  BY <1>1, <1>2, StackType DEF Top, OnWay
<1>7. /\ Looked(d) \in Seq(CallRecord) /\ DOMAIN Looked(d) = 1 .. n
      /\ \A i \in 1 .. n :
           /\ Looked(d)[i].at = calls[i].at /\ Looked(d)[i].best = calls[i].best
           /\ Looked(d)[i].todo = IF i = n THEN calls[n].todo \ {d} ELSE calls[i].todo
  BY <1>1, <1>2, <1>6, LookedAt, LenProperties
<1>8. memo[d] \in Seq(Nodes)
  BY <1>2, <1>6 DEF GraphShape
<1>9. Open(done)' = Open(done) /\ \A y : Before(y)' = Before(y) /\ Ways(y)' = Ways(y)
  BY <1>1 DEF Open, Before, Ways
<1> HIDE DEF n
<1>10. SUFFICES /\ calls' # << >> /\ calls'[1].at = calls[1].at
                /\ \A i \in DOMAIN calls' : CallKnows(i)'
  <2>1. \A y \in Nodes : memo'[y] # << >> => y \in Open(done)' /\ Remembered(y)'
    BY <1>1, <1>2, <1>9 DEF PathsInv, Remembered
  <2> QED BY <1>1, <1>2, <1>9, <1>10, <2>1 DEF PathsInv
<1>11. \A i \in 1 .. n : CallKnows(i)
  BY <1>2, <1>6 DEF PathsInv
<1>12. CASE \/ d \notin Open(done) /\ calls' = Looked(d)
            \/ /\ d \in Open(done) /\ memo[d] # << >>
               /\ calls' = [Looked(d) EXCEPT ![Len(calls)].best = Longer(memo[d], @)]
  <2>1. /\ DOMAIN calls' = 1 .. n
        /\ \A i \in 1 .. n :
             /\ calls'[i].at = calls[i].at
             /\ calls'[i].todo = IF i = n THEN calls[n].todo \ {d} ELSE calls[i].todo
             /\ \/ i # n /\ calls'[i].best = calls[i].best
                \/ i = n /\ d \notin Open(done) /\ calls'[n].best = calls[n].best
                \/ /\ i = n /\ d \in Open(done) /\ memo[d] # << >>
                   /\ calls'[n].best = Longer(memo[d], calls[n].best)
    <3>1. CASE d \notin Open(done) /\ calls' = Looked(d)
      BY <1>7, <3>1
    <3>2. CASE /\ d \in Open(done) /\ memo[d] # << >>
               /\ calls' = [Looked(d) EXCEPT ![Len(calls)].best = Longer(memo[d], @)]
      <4> DEFINE s == Looked(d)
                 c == memo[d]
      <4>1. s \in Seq(CallRecord) /\ n \in DOMAIN s /\ c \in Seq(Nodes) /\ DOMAIN s = 1 .. n
        BY <1>6, <1>7, <1>8
      <4> HIDE DEF s, c
      <4>2. calls' = [s EXCEPT ![n].best = Longer(c, @)]
        BY <3>2 DEF s, c, n
      <4>3. /\ DOMAIN calls' = DOMAIN s
            /\ \A i \in DOMAIN s :
                 /\ calls'[i].at = s[i].at /\ calls'[i].todo = s[i].todo
                 /\ calls'[i].best = IF i = n THEN Longer(c, s[i].best) ELSE s[i].best
        BY <4>1, <4>2, Handed
      <4> QED BY <1>7, <3>2, <4>1, <4>3 DEF s, c
    <3> QED BY <1>12, <3>1, <3>2
  <2>2. ASSUME NEW i \in 1 .. n
        PROVE  CallKnows(i)'
    <3> DEFINE y == calls[i].at
    <3>1. /\ y \in Open(done) /\ calls[i].best \in Ways(y)
          /\ \A e \in Before(y) \ calls[i].todo :
               \/ memo[e] # << >> /\ Len(memo[e]) <= Len(calls[i].best)
               \/ i + 1 \in DOMAIN calls /\ e = calls[i + 1].at
      BY <1>11 DEF CallKnows
    <3>2. CASE i # n
      <4>1. /\ calls'[i].at = y /\ calls'[i].best = calls[i].best
            /\ calls'[i].todo = calls[i].todo
        BY <2>1, <3>2
      <4>2. i + 1 \in DOMAIN calls => i + 1 \in DOMAIN calls' /\ calls'[i + 1].at = calls[i + 1].at
        BY <1>6, <2>1
      <4> QED BY <1>1, <1>9, <3>1, <4>1, <4>2 DEF CallKnows
    <3>3. CASE i = n
      <4>1. calls'[n].at = y /\ calls'[n].todo = calls[n].todo \ {d}
        BY <1>6, <2>1, <3>3
      <4>2. i + 1 \notin DOMAIN calls
        BY <1>6, <3>3
      <4>3. CASE d \notin Open(done)
        <5>1. calls'[n].best = calls[n].best
          BY <1>6, <2>1, <4>3
        <5>2. d \notin Before(y)
          BY <4>3 DEF Before
        <5> QED BY <1>1, <1>9, <3>1, <3>3, <4>1, <4>2, <5>1, <5>2 DEF CallKnows
      <4>4. CASE d \in Open(done)
        <5> DEFINE c == calls[n].best
                   b == calls'[n].best
        <5>1. memo[d] # << >> /\ b = Longer(memo[d], c)
          BY <1>6, <2>1, <4>4
        <5>2. c \in Seq(Nodes)
          BY <1>6
        <5>3. /\ b \in {memo[d], c} /\ Len(memo[d]) <= Len(b) /\ Len(c) <= Len(b)
              /\ Len(b) \in Nat /\ Len(c) \in Nat
          BY <1>8, <5>1, <5>2, LongerIsLong
        <5>4. d \in Before(y)
          BY <1>6, <3>3, <4>4 DEF Before
        <5>5. b \in Ways(y)
          BY <3>1, <3>3, <5>3, <5>4 DEF Ways
        <5>6. ASSUME NEW e \in Before(y) \ calls'[n].todo
              PROVE  memo[e] # << >> /\ Len(memo[e]) <= Len(b)
          <6>1. CASE e = d
            BY <5>1, <5>3, <6>1
          <6>2. CASE e # d
            <7>1. memo[e] # << >> /\ Len(memo[e]) <= Len(c)
              BY <3>1, <3>3, <4>1, <4>2, <5>6, <6>2
            <7>2. Len(memo[e]) \in Nat
              BY PathsShape, <5>6, LenProperties
            <7> QED BY <5>3, <7>1, <7>2
          <6> QED BY <6>1, <6>2
        <5> HIDE DEF y, b, c
        <5> QED BY <1>1, <1>9, <3>1, <3>3, <4>1, <5>5, <5>6 DEF CallKnows, b
      <4> QED BY <4>3, <4>4
    <3> QED BY <3>2, <3>3
  <2>3. 1 \in DOMAIN calls' /\ calls' # << >> /\ calls'[1].at = calls[1].at
    <3>1. 1 \in DOMAIN calls'
      BY <1>6, <2>1
    <3> QED BY <1>6, <2>1, <3>1, EmptySeq
  <2> QED BY <2>1, <2>2, <2>3
<1>13. CASE d \in Open(done) /\ calls' = Append(Looked(d), Call(d, dependencies[d]))
  <2>1. /\ DOMAIN calls' = 1 .. n + 1
        /\ \A i \in 1 .. n : calls'[i] = Looked(d)[i]
        /\ calls'[n + 1].at = d /\ calls'[n + 1].todo = dependencies[d]
        /\ calls'[n + 1].best = << >>
    BY <1>1, <1>2, <1>6, <1>13, Called DEF n
  <2>2. \A i \in 1 .. n :
          /\ calls'[i].at = calls[i].at /\ calls'[i].best = calls[i].best
          /\ calls'[i].todo = IF i = n THEN calls[n].todo \ {d} ELSE calls[i].todo
    BY <1>7, <2>1
  <2>3. ASSUME NEW i \in 1 .. n
        PROVE  CallKnows(i)'
    <3> DEFINE y == calls[i].at
    <3>1. /\ y \in Open(done) /\ calls[i].best \in Ways(y)
          /\ \A e \in Before(y) \ calls[i].todo :
               \/ memo[e] # << >> /\ Len(memo[e]) <= Len(calls[i].best)
               \/ i + 1 \in DOMAIN calls /\ e = calls[i + 1].at
      BY <1>11 DEF CallKnows
    <3>2. i + 1 \in DOMAIN calls'
      BY <1>6, <2>1
    <3>3. i # n => i + 1 \in 1 .. n /\ calls'[i + 1].at = calls[i + 1].at
      BY <1>6, <2>2
    <3>4. ASSUME NEW e \in Before(y) \ calls'[i].todo
          PROVE  \/ memo[e] # << >> /\ Len(memo[e]) <= Len(calls[i].best)
                 \/ e = calls'[i + 1].at
      <4>1. CASE i = n
        <5>1. i + 1 \notin DOMAIN calls
          BY <1>6, <4>1
        <5> QED BY <2>1, <2>2, <3>1, <3>4, <4>1, <5>1
      <4>2. CASE i # n
        BY <2>2, <3>1, <3>3, <3>4, <4>2
      <4> QED BY <4>1, <4>2
    <3>5. calls'[i].at = y /\ calls'[i].best = calls[i].best
      BY <2>2
    <3> HIDE DEF y
    <3> QED BY <1>1, <1>9, <3>1, <3>2, <3>4, <3>5 DEF CallKnows
  <2>4. ASSUME NEW i, i = n + 1
        PROVE  CallKnows(i)'
    <3>1. << >> \in Ways(d) /\ Before(d) \ dependencies[d] = {}
      BY DEF Ways, Before
    <3>2. calls'[i].at = d /\ calls'[i].todo = dependencies[d] /\ calls'[i].best = << >>
      BY <2>1, <2>4
    <3> QED BY <1>1, <1>9, <1>13, <3>1, <3>2 DEF CallKnows
  <2>5. \A i \in DOMAIN calls' : i = n + 1 \/ i \in 1 .. n
    BY <1>6, <2>1
  <2>6. calls' # << >> /\ calls'[1].at = calls[1].at
    <3>1. 1 \in 1 .. n /\ 1 \in DOMAIN calls' /\ DOMAIN << >> = {}
      BY <1>6, <2>1, EmptySeq
    <3> QED BY <2>2, <3>1
  <2> QED BY <2>3, <2>4, <2>5, <2>6
<1> QED BY <1>4, <1>5, <1>12, <1>13

LEMMA DepthReturns ==
  ASSUME GraphInv, ChainInv, DepthInv, LongestReturns
  PROVE  DepthInv'
<1> DEFINE n == Len(calls)
           x == Top.at
           chain == Append(Top.best, x)
<1>1. /\ phase = "paths" /\ calls # << >> /\ phase' = phase /\ dependencies' = dependencies
      /\ cycle' = cycle /\ done' = done /\ dropped' = dropped
      /\ roots' = roots /\ memo' = [memo EXCEPT ![x] = chain] /\ Top.todo = {}
      /\ \/ Return = << >> /\ calls' = << >> /\ deepest' = Longer(chain, deepest)
         \/ Return # << >> /\ calls' = Hand(chain) /\ deepest' = deepest
  BY DEF LongestReturns
<1> SUFFICES ASSUME ~cycle PROVE PathsInv'
  BY <1>1 DEF DepthInv
<1>2. PathsInv /\ GraphShape /\ OnWay
  BY <1>1, PathsShape DEF DepthInv
<1>3. /\ n \in Nat /\ n >= 1 /\ DOMAIN calls = 1 .. n /\ n \in DOMAIN calls /\ Top = calls[n]
      /\ \A i \in DOMAIN calls : calls[i].at \in Nodes /\ calls[i].best \in Seq(Nodes)
      /\ x \in Nodes /\ x = calls[n].at
  BY <1>1, <1>2, StackType DEF Top
<1>4. /\ Return \in Seq(CallRecord) /\ Len(Return) = n - 1 /\ DOMAIN Return = 1 .. n - 1
      /\ \A i \in 1 .. n - 1 : Return[i] = calls[i]
  BY <1>1, <1>2, Returned
<1>5. memo[x] = << >> /\ Sound(memo, Top.best)
  BY <1>3 DEF ChainInv
<1>6. chain \in Seq(Nodes) /\ chain # << >>
  BY <1>2, <1>3, <1>5, Extended
<1>7. chain = Append(calls[n].best, x) /\ Top.todo = calls[n].todo
  BY <1>3
<1> HIDE DEF x, chain, n
<1>8. /\ memo' \in [Nodes -> Seq(Nodes)] /\ memo'[x] = chain
      /\ \A y \in Nodes : y # x => memo'[y] = memo[y]
  BY <1>1, <1>2, <1>3, <1>6 DEF GraphShape
<1>9. Open(done)' = Open(done) /\ \A y : Before(y)' = Before(y) /\ Before(y) \subseteq Nodes
  BY <1>1, PathsShape DEF Open, Before
<1>10. \A y \in Nodes : memo[y] # << >> => memo'[y] = memo[y]
  BY <1>5, <1>8
<1>11. \A y, c : c \in Ways(y) => c \in Ways(y)'
  BY <1>9, <1>10 DEF Ways
<1>12. /\ x \in Open(done) /\ calls[n].best \in Ways(x)
       /\ \A d \in Before(x) : memo[d] # << >> /\ Len(memo[d]) <= Len(calls[n].best)
  <2>1. CallKnows(n)
    BY <1>2, <1>3 DEF PathsInv
  <2>2. n + 1 \notin DOMAIN calls
    BY <1>3
  <2> QED BY <1>1, <1>3, <1>7, <2>1, <2>2 DEF CallKnows
<1>13. ASSUME NEW y \in Nodes, memo'[y] # << >>
       PROVE  y \in Open(done)' /\ Remembered(y)'
  <2>1. PICK c \in Ways(y) :
          /\ y \in Open(done) /\ memo'[y] = Append(c, y)
          /\ \A d \in Before(y) : memo[d] # << >> /\ Len(memo[d]) <= Len(c)
    <3>1. CASE y = x
      BY <1>7, <1>8, <1>12, <3>1
    <3>2. CASE y # x
      BY <1>2, <1>8, <1>13, <3>2 DEF PathsInv, Remembered
    <3> QED BY <3>1, <3>2
  <2>2. \A d \in Before(y) : memo'[d] # << >> /\ Len(memo'[d]) <= Len(c)
    BY <1>9, <1>10, <2>1
  <2> QED BY <1>9, <1>11, <2>1, <2>2 DEF Remembered
<1>14. /\ DOMAIN calls' = 1 .. n - 1
       /\ \A i \in 1 .. n - 1 :
            /\ calls'[i].at = calls[i].at /\ calls'[i].todo = calls[i].todo
            /\ calls'[i].best = IF i = n - 1 THEN Longer(chain, calls[i].best)
                                ELSE calls[i].best
  <2>1. CASE Return = << >>
    <3>1. n - 1 = 0
      BY <1>4, <2>1, EmptySeq
    <3> QED BY <1>1, <1>4, <2>1, <3>1
  <2>2. CASE Return # << >>
    <3>1. Len(Return) \in DOMAIN Return
      BY <1>3, <1>4, <2>2, EmptySeq
    <3>2. calls' = [Return EXCEPT ![Len(Return)].best = Longer(chain, @)]
      BY <1>1, <2>2 DEF Hand
    <3> QED BY <1>4, <1>6, <3>1, <3>2, Handed
  <2> QED BY <2>1, <2>2
<1>15. \A i \in 1 .. n - 1 : i \in 1 .. n /\ i # n /\ i + 1 \in DOMAIN calls
  BY <1>3
<1>16. ASSUME NEW i \in 1 .. n - 1
       PROVE  CallKnows(i)'
  <2>0. PICK y, c, b : y = calls[i].at /\ c = calls[i].best /\ b = calls'[i].best
    OBVIOUS
  <2>1. /\ y \in Open(done) /\ c \in Ways(y)
        /\ \A d \in Before(y) \ calls[i].todo :
             \/ memo[d] # << >> /\ Len(memo[d]) <= Len(c)
             \/ d = calls[i + 1].at
    BY <1>2, <1>3, <1>15, <2>0 DEF PathsInv, CallKnows
  <2>2. c \in Seq(Nodes) /\ Len(c) \in Nat
    BY <1>3, <1>15, <2>0, LenProperties
  <2>3. /\ b = (IF i = n - 1 THEN Longer(chain, c) ELSE c)
        /\ calls'[i].at = y /\ calls'[i].todo = calls[i].todo
    BY <1>14, <2>0
  <2>4. /\ b \in {c, chain} /\ Len(c) <= Len(b) /\ Len(b) \in Nat
        /\ i = n - 1 => Len(chain) <= Len(b)
        /\ i # n - 1 => b = c
    BY <1>6, <2>2, <2>3, LongerIsLong
  <2>5. i = n - 1 => calls[i + 1].at = x /\ x \in Before(y)
    <3>1. i = n - 1 => calls[i + 1].at = x
      BY <1>3
    <3>2. calls[i + 1].at \in dependencies[y]
      BY <1>2, <1>3, <1>15, <2>0 DEF OnWay
    <3> QED BY <1>12, <3>1, <3>2 DEF Before
  <2>6. b \in Ways(y)'
    <3>1. CASE b = c
      BY <1>11, <2>1, <3>1
    <3>2. CASE b = chain /\ i = n - 1
      BY <1>8, <1>9, <2>5, <3>2 DEF Ways
    <3> QED BY <2>4, <3>1, <3>2
  <2>7. ASSUME NEW d \in Before(y) \ calls[i].todo
        PROVE  \/ memo'[d] # << >> /\ Len(memo'[d]) <= Len(b)
               \/ i + 1 \in DOMAIN calls' /\ d = calls'[i + 1].at
    <3>1. CASE memo[d] # << >> /\ Len(memo[d]) <= Len(c)
      <4>1. memo'[d] = memo[d] /\ Len(memo[d]) \in Nat
        BY <1>9, <1>10, <2>7, <3>1, PathsShape, LenProperties
      <4> QED BY <2>2, <2>4, <3>1, <4>1
    <3>2. CASE d = calls[i + 1].at
      <4>1. CASE i = n - 1
        <5>1. memo'[d] = chain
          BY <1>8, <2>5, <3>2, <4>1
        <5> QED BY <1>6, <2>4, <4>1, <5>1
      <4>2. CASE i # n - 1
        <5>1. i + 1 \in 1 .. n - 1
          BY <1>3, <4>2
        <5> QED BY <1>14, <3>2, <5>1
      <4> QED BY <4>1, <4>2
    <3> QED BY <2>1, <2>7, <3>1, <3>2
  <2> QED BY <1>9, <2>0, <2>1, <2>3, <2>6, <2>7 DEF CallKnows
<1>17. \A i \in DOMAIN calls' : CallKnows(i)'
  BY <1>14, <1>16
<1>18. deepest \in Seq(Nodes) /\ Len(deepest) \in Nat
  BY PathsShape, LenProperties
<1>19. /\ Len(deepest') \in Nat /\ Len(deepest) <= Len(deepest')
       /\ deepest' \in {deepest, chain}
       /\ calls' = << >> => Len(chain) <= Len(deepest')
  <2>1. CASE calls' = << >> /\ deepest' = Longer(chain, deepest)
    BY <1>6, <1>18, <2>1, LongerIsLong
  <2>2. CASE Return # << >> /\ calls' = Hand(chain) /\ deepest' = deepest
    <3>1. n - 1 # 0
      BY <1>4, <2>2, EmptySeq
    <3>2. 1 \in DOMAIN calls' /\ DOMAIN << >> = {}
      BY <1>3, <1>14, <3>1, EmptySeq
    <3> QED BY <1>18, <2>2, <3>2
  <2> QED BY <1>1, <2>1, <2>2
<1>20. ASSUME NEW y \in Open(done) \ roots
       PROVE  \/ calls' # << >> /\ calls'[1].at = y
              \/ memo'[y] # << >> /\ Len(memo'[y]) <= Len(deepest')
  <2>1. y \in Nodes
    BY <1>20, PathsShape
  <2>2. CASE memo[y] # << >> /\ Len(memo[y]) <= Len(deepest)
    <3>1. memo'[y] = memo[y] /\ Len(memo[y]) \in Nat
      BY <1>10, <2>1, <2>2, PathsShape, LenProperties
    <3> QED BY <1>18, <1>19, <2>2, <3>1
  <2>3. CASE calls[1].at = y
    <3>1. CASE n = 1
      <4>1. y = x /\ DOMAIN calls' = {}
        BY <1>3, <1>14, <2>3, <3>1
      <4>2. calls' = << >>
        <5>1. Return = << >>
          BY <1>4, <3>1, EmptySeq
        <5> QED BY <1>1, <5>1
      <4> QED BY <1>6, <1>8, <1>19, <4>1, <4>2
    <3>2. CASE n # 1
      <4>1. 1 \in 1 .. n - 1 /\ DOMAIN << >> = {}
        BY <1>3, <3>2, EmptySeq
      <4> QED BY <1>14, <2>3, <4>1
    <3> QED BY <3>1, <3>2
  <2> QED BY <1>2, <2>2, <2>3 DEF PathsInv
<1>21. deepest' = << >> \/ \E y \in Open(done)' : deepest' = memo'[y]
  <2>1. CASE deepest' = chain
    BY <1>8, <1>9, <1>12, <2>1
  <2>2. CASE deepest' = deepest /\ deepest # << >>
    <3>1. PICK y \in Open(done) : deepest = memo[y]
      BY <1>2, <2>2 DEF PathsInv
    <3>2. y \in Nodes
      BY PathsShape
    <3> QED BY <1>9, <1>10, <2>2, <3>1, <3>2
  <2> QED BY <1>19, <2>1, <2>2
<1> QED BY <1>1, <1>2, <1>9, <1>13, <1>17, <1>20, <1>21 DEF PathsInv

LEMMA DepthEnds ==
  ASSUME DepthInv, PathsEnd
  PROVE  DepthInv'
BY DEF PathsEnd, DepthInv, PathsInv, CallKnows, Remembered, Ways, Before, Open

LEMMA DepthStep ==
  ASSUME GraphInv, ChainInv, DepthInv, TicketGraphNext
  PROVE  DepthInv'
<1>1. ASSUME \/ \E n \in Nodes : StartVisit(n)
             \/ VisitDependency
             \/ VisitReturns
      PROVE  DepthInv'
  BY <1>1 DEF StartVisit, VisitDependency, VisitReturns, DepthInv
<1> QED BY <1>1, DepthBegins, DepthStarts, DepthLooks, DepthReturns, DepthEnds
        DEF TicketGraphNext

LEMMA DepthAlways == Spec => []DepthInv
<1>1. Init => DepthInv
  BY DEF Init, GraphRests, TicketGraphInit, DepthInv
<1>2. (GraphInv /\ ChainInv) /\ DepthInv /\ [Next]_kitVars => DepthInv'
  <2> SUFFICES ASSUME GraphInv, ChainInv, DepthInv, [Next]_kitVars PROVE DepthInv'
    OBVIOUS
  <2>1. CASE TicketGraphNext
    BY <2>1, DepthStep
  <2>2. CASE UNCHANGED graphVars
    BY <2>2 DEF graphVars, DepthInv, PathsInv, CallKnows, Remembered, Ways, Before, Open
  <2> QED BY <2>1, <2>2 DEF Next, kitVars
<1> QED BY <1>1, <1>2, GraphAlways, PTL DEF Spec

\* The rounds are what they are defined to be.
LEMMA RoundsGoOn ==
  /\ Rounds[0] = done
  /\ \A k \in 1 .. Cardinality(Nodes) : Rounds[k] = Rounds[k - 1] \cup Ready(Rounds[k - 1])
<1> DEFINE N == Cardinality(Nodes)
           After(f, k) == IF k = 0 THEN done ELSE f[k - 1] \cup Ready(f[k - 1])
           Good(n, f) == f = [k \in 0 .. n |-> After(f, k)]
           Bad == {n \in Nat : ~ \E f : Good(n, f)}
<1>1. N \in Nat
  BY TicketGraphAssumption, FS_CardinalityType
<1> HIDE DEF N
<1>2. ASSUME NEW n \in Nat, NEW f, Good(n, f)
      PROVE  \E g : Good(n + 1, g)
  <2> DEFINE g == [k \in 0 .. n + 1 |-> IF k = n + 1 THEN After(f, k) ELSE f[k]]
  <2>1. ASSUME NEW k \in 0 .. n + 1
        PROVE  g[k] = After(g, k)
    <3>1. k # 0 => k - 1 \in 0 .. n + 1 /\ k - 1 # n + 1
      OBVIOUS
    <3>2. k # 0 => g[k - 1] = f[k - 1]
      BY <3>1
    <3>3. After(g, k) = After(f, k)
      BY <3>2
    <3>4. k # n + 1 => k \in 0 .. n
      OBVIOUS
    <3>5. k # n + 1 => f[k] = After(f, k)
      BY <1>2, <3>4
    <3> QED BY <3>3, <3>5
  <2>2. g = [k \in 0 .. n + 1 |-> g[k]]
    OBVIOUS
  <2> HIDE DEF g, After
  <2> QED BY <2>1, <2>2
<1>3. Bad = {}
  <2> SUFFICES ASSUME Bad # {} PROVE FALSE
    OBVIOUS
  <2>1. PICK n \in Bad : \A m \in Bad : n <= m
    BY LeastNumber
  <2>2. CASE n = 0
    <3> DEFINE f == [k \in 0 .. 0 |-> done]
    <3>1. Good(0, f)
      OBVIOUS
    <3> QED BY <2>1, <2>2, <3>1
  <2>3. CASE n # 0
    <3> HIDE DEF Good
    <3>1. n - 1 \in Nat /\ (n - 1) + 1 = n /\ ~ (n <= n - 1)
      BY <2>1, <2>3
    <3>2. PICK f : Good(n - 1, f)
      BY <2>1, <3>1
    <3>3. \E g : Good((n - 1) + 1, g)
      BY <1>2, <3>1, <3>2
    <3> QED BY <2>1, <3>1, <3>3
  <2> QED BY <2>2, <2>3
<1> DEFINE after == CHOOSE g : g = [k \in 0 .. N |-> After(g, k)]
<1>4. after = [k \in 0 .. N |-> After(after, k)]
  <2>1. PICK f : Good(N, f)
    <3> HIDE DEF Good
    <3> QED BY <1>1, <1>3
  <2> HIDE DEF After
  <2> QED BY <2>1
<1>5. \A k \in 0 .. N : after[k] = After(after, k)
  <2> HIDE DEF after, After
  <2> QED BY <1>4
<1>6. Rounds = after
  BY DEF Rounds, after, N
<1> HIDE DEF after
<1>7. after[0] = done
  <2>1. 0 \in 0 .. N
    BY <1>1
  <2>2. after[0] = After(after, 0)
    BY <1>5, <2>1
  <2> QED BY <2>2
<1>8. ASSUME NEW k \in 1 .. N
      PROVE  after[k] = after[k - 1] \cup Ready(after[k - 1])
  <2>1. k \in 0 .. N /\ k # 0
    BY <1>1
  <2> QED BY <1>5, <2>1
<1> QED BY <1>6, <1>7, <1>8 DEF N

\* More and more is verified, and nothing but what was open.
LEMMA RoundsGrow ==
  ASSUME NEW k \in 0 .. Cardinality(Nodes)
  PROVE  /\ done \subseteq Rounds[k] /\ Rounds[k] \subseteq done \cup Open(done)
         /\ \A j \in 0 .. k : Rounds[j] \subseteq Rounds[k]
<1> DEFINE N == Cardinality(Nodes)
           Fits(n) == /\ done \subseteq Rounds[n] /\ Rounds[n] \subseteq done \cup Open(done)
                      /\ \A j \in 0 .. n : Rounds[j] \subseteq Rounds[n]
           Wrong == {n \in 0 .. N : ~Fits(n)}
<1>1. N \in Nat
  BY TicketGraphAssumption, FS_CardinalityType
<1>2. Rounds[0] = done /\ \A n \in 1 .. N : Rounds[n] = Rounds[n - 1] \cup Ready(Rounds[n - 1])
  BY RoundsGoOn
<1> HIDE DEF N
<1>3. Wrong = {}
  <2> SUFFICES ASSUME Wrong # {} PROVE FALSE
    OBVIOUS
  <2>1. PICK n \in Wrong : \A m \in Wrong : n <= m
    <3>1. Wrong \subseteq Nat
      BY <1>1
    <3> HIDE DEF Wrong
    <3> QED BY <3>1, LeastNumber
  <2>2. CASE n = 0
    <3>1. \A j \in 0 .. n : j = 0
      BY <2>2
    <3>2. Fits(n)
      BY <1>2, <2>2, <3>1
    <3> QED BY <2>1, <3>2
  <2>3. CASE n # 0
    <3>1. n \in 1 .. N /\ n - 1 \in 0 .. N /\ ~(n <= n - 1)
      BY <1>1, <2>1, <2>3
    <3>2. Fits(n - 1)
      BY <2>1, <3>1
    <3>3. Rounds[n] = Rounds[n - 1] \cup Ready(Rounds[n - 1])
      BY <1>2, <3>1
    <3>4. Ready(Rounds[n - 1]) \subseteq Open(done)
      BY <3>2 DEF Ready, Open
    <3>5. \A j \in 0 .. n : j = n \/ j \in 0 .. n - 1
      BY <1>1, <3>1
    <3>6. Fits(n)
      BY <3>2, <3>3, <3>4, <3>5
    <3> QED BY <2>1, <3>6
  <2> QED BY <2>2, <2>3
<1>4. Fits(k)
  BY <1>3 DEF N
<1> QED BY <1>4

\* What is delivered in a round had all it waits for delivered before.
LEMMA DeliveredInARound ==
  ASSUME NEW k \in 0 .. Cardinality(Nodes), NEW n \in Open(done), n \in Rounds[k]
  PROVE  \E j \in 1 .. k : n \notin Rounds[j - 1] /\ dependencies[n] \subseteq Rounds[j - 1]
<1>1. Cardinality(Nodes) \in Nat
  BY TicketGraphAssumption, FS_CardinalityType
<1> DEFINE In == {j \in 0 .. k : n \in Rounds[j]}
<1>2. In \subseteq Nat /\ k \in In
  BY <1>1
<1>3. PICK j \in In : \A i \in In : j <= i
  <2> HIDE DEF In
  <2> QED BY <1>2, LeastNumber
<1>4. j # 0
  BY <1>3, RoundsGoOn DEF Open
<1>5. j \in 1 .. Cardinality(Nodes) /\ j - 1 \in 0 .. k /\ ~(j <= j - 1) /\ j \in 1 .. k
  BY <1>1, <1>3, <1>4
<1>6. n \notin Rounds[j - 1]
  BY <1>3, <1>5
<1>7. n \in Ready(Rounds[j - 1])
  BY <1>3, <1>5, <1>6, RoundsGoOn
<1> QED BY <1>5, <1>6, <1>7 DEF Ready

-----------------------------------------------------------------------------
\* A walk that has ended.
AllRemembered ==
  \A n \in Open(done) :
    /\ Len(memo[n]) \in 1 .. Len(deepest)
    /\ \A d \in Before(n) : Len(memo[d]) < Len(memo[n])
    /\ Len(memo[n]) = 1 \/ \E d \in Before(n) : Len(memo[d]) = Len(memo[n]) - 1

LEMMA WalkIsComplete ==
  ASSUME GraphInv, ChainInv, DepthInv, phase = "done", ~cycle
  PROVE  /\ AllRemembered
         /\ Len(deepest) \in 0 .. Cardinality(Nodes)
         /\ deepest # << >> => deepest[Len(deepest)] \in Open(done)
                               /\ Len(memo[deepest[Len(deepest)]]) = Len(deepest)
<1>1. PathsInv /\ calls = << >> /\ roots = {}
  BY DEF DepthInv
<1>2. ASSUME NEW n \in Open(done)
      PROVE  /\ memo[n] # << >> /\ Len(memo[n]) <= Len(deepest)
             /\ n \in Nodes /\ memo[n] \in Seq(Nodes) /\ Len(memo[n]) \in Nat /\ Len(memo[n]) # 0
             /\ Remembered(n)
  <2>1. memo[n] # << >> /\ Len(memo[n]) <= Len(deepest)
    BY <1>1 DEF PathsInv
  <2>2. n \in Nodes /\ memo[n] \in Seq(Nodes) /\ Len(memo[n]) \in Nat
    BY PathsShape, LenProperties
  <2>3. Len(memo[n]) # 0
    BY <2>1, <2>2, EmptySeq
  <2> QED BY <1>1, <2>1, <2>2, <2>3 DEF PathsInv
<1>3. Len(deepest) \in 0 .. Cardinality(Nodes)
  BY SoundIsShort DEF ChainInv
<1>4. ASSUME NEW n \in Open(done)
      PROVE  \E c \in Seq(Nodes) :
               /\ c \in Ways(n) /\ memo[n] = Append(c, n) /\ Len(memo[n]) = Len(c) + 1
               /\ Len(c) \in Nat /\ memo[n][Len(memo[n])] = n
               /\ \A d \in Before(n) : memo[d] # << >> /\ Len(memo[d]) <= Len(c)
  <2>1. PICK c \in Ways(n) :
          /\ memo[n] = Append(c, n)
          /\ \A d \in Before(n) : memo[d] # << >> /\ Len(memo[d]) <= Len(c)
    BY <1>2 DEF Remembered
  <2>2. c \in Seq(Nodes)
    BY <2>1, PathsShape, EmptySeq DEF Ways
  <2>3. Len(memo[n]) = Len(c) + 1 /\ memo[n][Len(c) + 1] = n /\ Len(c) \in Nat
    BY <1>2, <2>1, <2>2, AppendProperties, LenProperties
  <2> QED BY <2>1, <2>2, <2>3
<1>5. ASSUME NEW n \in Open(done)
      PROVE  /\ Len(memo[n]) \in 1 .. Len(deepest)
             /\ \A d \in Before(n) : Len(memo[d]) < Len(memo[n])
             /\ Len(memo[n]) = 1 \/ \E d \in Before(n) : Len(memo[d]) = Len(memo[n]) - 1
  <2>1. PICK c \in Seq(Nodes) :
          /\ c \in Ways(n) /\ Len(memo[n]) = Len(c) + 1 /\ Len(c) \in Nat
          /\ \A d \in Before(n) : Len(memo[d]) <= Len(c)
    BY <1>4
  <2>2. Len(memo[n]) \in 1 .. Len(deepest)
    BY <1>2, <1>3
  <2>3. ASSUME NEW d \in Before(n)
        PROVE  Len(memo[d]) < Len(memo[n])
    <3>1. Len(memo[d]) \in Nat
      BY PathsShape, LenProperties
    <3> QED BY <2>1, <3>1
  <2>4. Len(memo[n]) = 1 \/ \E d \in Before(n) : Len(memo[d]) = Len(memo[n]) - 1
    <3>1. CASE c = << >>
      BY <2>1, <3>1, EmptySeq
    <3>2. CASE \E d \in Before(n) : c = memo[d]
      BY <2>1, <3>2
    <3> QED BY <2>1, <3>1, <3>2 DEF Ways
  <2> QED BY <2>2, <2>3, <2>4
<1>6. ASSUME deepest # << >>
      PROVE  /\ deepest[Len(deepest)] \in Open(done)
             /\ Len(memo[deepest[Len(deepest)]]) = Len(deepest)
  <2>1. PICK n \in Open(done) : deepest = memo[n]
    BY <1>1, <1>6 DEF PathsInv
  <2>2. deepest[Len(deepest)] = n
    BY <1>4, <2>1
  <2> QED BY <2>1, <2>2
<1> QED BY <1>3, <1>5, <1>6 DEF AllRemembered

\* What is delivered at all, is so in as many rounds as its chain is long.
LEMMA InTime ==
  ASSUME GraphInv, ChainInv, AllRemembered, Len(deepest) \in 0 .. Cardinality(Nodes),
         NEW k \in 0 .. Cardinality(Nodes), NEW n \in Open(done),
         n \in Rounds[Cardinality(Nodes)], Len(memo[n]) <= k
  PROVE  n \in Rounds[k]
<1> DEFINE N == Cardinality(Nodes)
           Late(i) == \E y \in Open(done) : /\ y \in Rounds[N] /\ Len(memo[y]) <= i
                                            /\ y \notin Rounds[i]
           Wrong == {i \in 0 .. N : Late(i)}
<1>1. N \in Nat
  BY TicketGraphAssumption, FS_CardinalityType
<1>2. Rounds[0] = done /\ \A i \in 1 .. N : Rounds[i] = Rounds[i - 1] \cup Ready(Rounds[i - 1])
  BY RoundsGoOn
<1>3. ASSUME NEW i \in 0 .. N
      PROVE  done \subseteq Rounds[i] /\ Rounds[i] \subseteq done \cup Open(done)
             /\ \A j \in 0 .. i : Rounds[j] \subseteq Rounds[i]
  BY <1>3, RoundsGrow
<1>4. Wrong = {}
  <2> SUFFICES ASSUME Wrong # {} PROVE FALSE
    OBVIOUS
  <2>1. PICK i \in Wrong : \A j \in Wrong : i <= j
    <3>1. Wrong \subseteq Nat
      BY <1>1
    <3> HIDE DEF Wrong
    <3> QED BY <3>1, LeastNumber
  <2>2. PICK y \in Open(done) : y \in Rounds[N] /\ Len(memo[y]) <= i /\ y \notin Rounds[i]
    BY <2>1
  <2>3. /\ Len(memo[y]) \in Nat /\ Len(memo[y]) >= 1
        /\ \A d \in Before(y) : Len(memo[d]) < Len(memo[y])
    BY DEF AllRemembered
  <2>4. i \in 1 .. N /\ i - 1 \in 0 .. N /\ ~(i <= i - 1) /\ i - 1 \in 0 .. i
    BY <1>1, <2>1, <2>2, <2>3
  <2>5. dependencies[y] \subseteq Rounds[N]
    <3>1. N \in 0 .. N
      BY <1>1
    <3>2. PICK j \in 1 .. N : dependencies[y] \subseteq Rounds[j - 1]
      BY <2>2, <3>1, DeliveredInARound
    <3>3. j - 1 \in 0 .. N
      BY <1>1
    <3> QED BY <1>3, <3>1, <3>2, <3>3
  <2>6. ASSUME NEW d \in dependencies[y]
        PROVE  d \in Rounds[i - 1]
    <3>1. CASE d \in done
      BY <1>3, <2>4, <3>1
    <3>2. CASE d \in Open(done)
      <4>1. d \in Before(y)
        BY <3>2 DEF Before
      <4>2. Len(memo[d]) \in Nat
        BY <3>2 DEF AllRemembered
      <4>3. Len(memo[d]) <= i - 1
        BY <2>2, <2>3, <2>4, <4>1, <4>2
      <4>4. i - 1 \notin Wrong
        BY <2>1, <2>4
      <4> QED BY <2>4, <2>5, <3>2, <4>3, <4>4
    <3>3. d \in done \cup Open(done)
      <4>1. N \in 0 .. N
        BY <1>1
      <4> QED BY <1>3, <2>5, <4>1
    <3> QED BY <3>1, <3>2, <3>3
  <2>7. y \notin Rounds[i - 1]
    BY <1>2, <2>2, <2>4
  <2>8. y \in Open(Rounds[i - 1])
    BY <2>7 DEF Open
  <2>9. y \in Ready(Rounds[i - 1])
    BY <2>6, <2>8 DEF Ready
  <2> QED BY <1>2, <2>2, <2>4, <2>9
<1>5. k \notin Wrong
  BY <1>4
<1> HIDE DEF Wrong
<1> QED BY <1>5 DEF Wrong

\* And not in fewer.
LEMMA NotSooner ==
  ASSUME AllRemembered, Len(deepest) \in 0 .. Cardinality(Nodes),
         NEW k \in 0 .. Cardinality(Nodes), NEW n \in Open(done), n \in Rounds[k]
  PROVE  Len(memo[n]) <= k
<1> DEFINE N == Cardinality(Nodes)
           Early(i) == \E y \in Open(done) : y \in Rounds[i] /\ ~(Len(memo[y]) <= i)
           Wrong == {i \in 0 .. N : Early(i)}
<1>1. N \in Nat
  BY TicketGraphAssumption, FS_CardinalityType
<1>2. Wrong = {}
  <2> SUFFICES ASSUME Wrong # {} PROVE FALSE
    OBVIOUS
  <2>1. PICK i \in Wrong : \A j \in Wrong : i <= j
    <3>1. Wrong \subseteq Nat
      BY <1>1
    <3> HIDE DEF Wrong
    <3> QED BY <3>1, LeastNumber
  <2>2. PICK y \in Open(done) : y \in Rounds[i] /\ ~(Len(memo[y]) <= i)
    BY <2>1
  <2>3. /\ Len(memo[y]) \in Nat
        /\ Len(memo[y]) = 1 \/ \E d \in Before(y) : Len(memo[d]) = Len(memo[y]) - 1
    BY DEF AllRemembered
  <2>4. PICK j \in 1 .. i : dependencies[y] \subseteq Rounds[j - 1]
    BY <2>1, <2>2, DeliveredInARound
  <2>5. j \in Nat /\ i \in Nat /\ 1 <= j /\ j <= i /\ j - 1 \in 0 .. N /\ ~(i <= j - 1)
    BY <1>1, <2>1
  <2>6. PICK d \in Before(y) : Len(memo[d]) = Len(memo[y]) - 1
    <3>1. 1 <= i
      BY <2>5
    <3>2. Len(memo[y]) # 1
      BY <2>2, <3>1
    <3> QED BY <2>3, <3>2
  <2>7. d \in Open(done) /\ d \in Rounds[j - 1]
    BY <2>4 DEF Before
  <2>8. ~(Len(memo[d]) <= j - 1)
    BY <2>2, <2>3, <2>5, <2>6
  <2>9. j - 1 \in Wrong
    BY <2>5, <2>7, <2>8
  <2> QED BY <2>1, <2>5, <2>9
<1>3. k \notin Wrong
  BY <1>2
<1> HIDE DEF Wrong
<1> QED BY <1>3 DEF Wrong

(***************************************************************************)
(* Whatever tickets there are, on a graph without a cycle, in whatever     *)
(* order the walk goes and whatever has been verified or dropped: the      *)
(* depth it reports is the number of rounds that are left (autopilot.py    *)
(* critical_path).                                                         *)
(***************************************************************************)
THEOREM DepthCountsRounds == Spec => []DepthIsRounds
<1>1. (GraphInv /\ ChainInv) /\ DepthInv => DepthIsRounds
  <2> SUFFICES ASSUME GraphInv, ChainInv, DepthInv, phase = "done", ~cycle
               PROVE  /\ Len(deepest) <= Cardinality(Nodes)
                      /\ Open(Rounds[Len(deepest)]) = Stuck
                      /\ deepest # << >> =>
                           deepest[Len(deepest)] \in Open(Rounds[Len(deepest) - 1])
                      /\ \A n \in Stuck : dependencies[n] \cap (dropped \cup Stuck) # {}
    BY DEF DepthIsRounds
  <2> DEFINE N == Cardinality(Nodes)
             D == Len(deepest)
  <2>1. /\ AllRemembered /\ D \in 0 .. N
        /\ deepest # << >> => deepest[D] \in Open(done) /\ Len(memo[deepest[D]]) = D
    BY WalkIsComplete
  <2>2. N \in Nat /\ N \in 0 .. N /\ D \in Nat /\ D <= N
    BY <2>1, TicketGraphAssumption, FS_CardinalityType
  <2>3. /\ done \subseteq Rounds[D] /\ Rounds[D] \subseteq Rounds[N]
        /\ done \subseteq Rounds[N]
    BY <2>1, <2>2, RoundsGrow
  <2>4. \A n \in Open(done) : n \in Rounds[N] => n \in Rounds[D]
    BY <2>1, <2>2, InTime DEF AllRemembered
  <2>5. Open(Rounds[D]) = Stuck
    BY <2>3, <2>4 DEF Open, Stuck
  <2>6. ASSUME deepest # << >>
        PROVE  deepest[D] \in Open(Rounds[D - 1])
    <3> DEFINE n == deepest[D]
    <3>1. n \in Open(done) /\ Len(memo[n]) = D /\ D >= 1
      BY <2>1, <2>6 DEF AllRemembered
    <3>2. D - 1 \in 0 .. N /\ ~(D <= D - 1)
      BY <2>2, <3>1
    <3>3. n \notin Rounds[D - 1]
      BY <2>1, <3>1, <3>2, NotSooner
    <3>4. done \subseteq Rounds[D - 1]
      BY <3>2, RoundsGrow
    <3> HIDE DEF n
    <3>5. n \in Open(Rounds[D - 1])
      BY <3>1, <3>3 DEF Open
    <3> QED BY <3>5 DEF n
  <2>7. ASSUME NEW n \in Stuck, dependencies[n] \cap (dropped \cup Stuck) = {}
        PROVE  FALSE
    <3>1. n \in Open(done) /\ n \notin Rounds[N] /\ n \in Nodes
      BY DEF Stuck, Open
    <3>2. Len(memo[n]) \in Nat /\ 1 <= Len(memo[n]) /\ Len(memo[n]) <= N
      BY <2>1, <2>2, <3>1 DEF AllRemembered
    <3>3. N \in 1 .. N /\ N - 1 \in 0 .. N
      BY <2>2, <3>2
    <3>4. ASSUME NEW d \in dependencies[n]
          PROVE  d \in Rounds[N - 1]
      <4>1. d \in Nodes /\ d \notin dropped /\ d \notin Stuck
        BY <2>7, <3>1, PathsShape
      <4>2. CASE d \in done
        BY <3>3, <4>2, RoundsGrow
      <4>3. CASE d \notin done
        <5>1. d \in Open(done) /\ d \in Rounds[N]
          BY <4>1, <4>3 DEF Open, Stuck
        <5>2. d \in Before(n)
          BY <5>1 DEF Before
        <5>3. Len(memo[d]) \in Nat /\ Len(memo[d]) < Len(memo[n])
          BY <2>1, <3>1, <5>1, <5>2 DEF AllRemembered
        <5>4. Len(memo[d]) <= N - 1
          BY <2>2, <3>2, <5>3
        <5> QED BY <2>1, <3>3, <5>1, <5>4, InTime
      <4> QED BY <4>2, <4>3
    <3>5. Rounds[N] = Rounds[N - 1] \cup Ready(Rounds[N - 1])
      BY <3>3, RoundsGoOn
    <3>6. n \in Open(Rounds[N - 1])
      BY <3>1, <3>5 DEF Open
    <3>7. n \in Ready(Rounds[N - 1])
      BY <3>4, <3>6 DEF Ready
    <3> QED BY <3>1, <3>5, <3>7
  <2> QED BY <2>2, <2>5, <2>6, <2>7
<1> QED BY <1>1, GraphAlways, DepthAlways, PTL
=============================================================================
