----------------------------- MODULE IssueSync -----------------------------
(***************************************************************************)
(* scripts/create-issues.py --confirm-external-write: one issue for each   *)
(* ticket, found again by the marker in its body.                          *)
(*                                                                         *)
(* A run lists the issues, plans, creates or edits one after the other,    *)
(* and lists again.  Nothing keeps a second run from doing the same.       *)
(***************************************************************************)
EXTENDS Checkout

CONSTANTS
  TicketOrder,  \* Tickets in the order of their ids
  MaxVersion    \* bound on the versions of a ticket

ASSUME IssueSyncAssumption ==
  /\ TicketOrder \in Seq(Tickets)
  /\ {TicketOrder[i] : i \in DOMAIN TicketOrder} = Tickets
  /\ \A i, j \in DOMAIN TicketOrder : TicketOrder[i] = TicketOrder[j] => i = j
  /\ MaxVersion \in Nat \ {0}

VARIABLES
  ticket,     \* the version of each ticket file
  issues,     \* for each ticket its issues, oldest first: the version they show
  sync,       \* the runs
  overlapped, \* auxiliary: two runs were active at once
  told        \* auxiliary: a run did not end with 0 while an issue was doubled

issueVars == <<ticket, issues, sync, overlapped, told>>

Syncs == {"sync", "second sync"}
Versions == 1 .. MaxVersion

\* An issue that somebody edited by hand shows no version.
ByHand == 0

\* number is 0 for an issue to create, else the issue to edit.
Entry == [ticket : Tickets, number : 0 .. 1]

SyncRun ==
  [pc : {"idle", "list", "write"}, read : [Tickets -> Versions],
   queue : Seq(Entry), failed : BOOLEAN]

SyncIdle == [pc |-> "idle", read |-> [t \in Tickets |-> 1], queue |-> << >>,
             failed |-> FALSE]

IssueSyncTypeOK ==
  /\ ticket \in [Tickets -> Versions]
  /\ issues \in [Tickets -> Seq({ByHand} \cup Versions)]
  /\ sync \in [Syncs -> SyncRun]
  /\ {overlapped, told} \subseteq BOOLEAN

IssueSyncInit ==
  /\ ticket = [t \in Tickets |-> 1]
  /\ issues = [t \in Tickets |-> IF "sync" \in offered THEN << >> ELSE <<1>>]
  /\ sync = [p \in Syncs |-> SyncIdle]
  /\ overlapped = FALSE /\ told = FALSE

Doubled(t) == Len(issues[t]) > 1

-----------------------------------------------------------------------------
\* tickets and policy are read and validated, and the login is checked.
StartSync(p) ==
  /\ Begin(p)
  /\ ContractMayHold
  /\ sync' = [sync EXCEPT ![p] = [SyncIdle EXCEPT !.pc = "list", !.read = ticket]]
  /\ overlapped' = (overlapped \/ running # {})
  /\ UNCHANGED <<facts, config, file, offered, edits, faults, ticket, issues, told>>

End(p, code) ==
  /\ sync' = [sync EXCEPT ![p] = SyncIdle]
  /\ told' = (told \/ (code # "0" /\ \E t \in Tickets : Doubled(t)))
  /\ Finish(p)

Outdated(p) ==
  LET differs(t) == issues[t] # <<sync[p].read[t]>>
      upTo[i \in 0 .. Len(TicketOrder)] ==
        IF i = 0 THEN << >>
        ELSE IF differs(TicketOrder[i]) THEN Append(upTo[i - 1], TicketOrder[i])
        ELSE upTo[i - 1]
  IN  upTo[Len(TicketOrder)]

\* What a run has to write, given the issues it sees: at most one for each.
Planned(p) ==
  [i \in DOMAIN Outdated(p) |->
     [ticket |-> Outdated(p)[i], number |-> Len(issues[Outdated(p)[i]])]]

\* Defective variant: duplicates are no reason to stop.
ListIssuesAnyhow(p) ==
  /\ sync[p].pc = "list"
  /\ sync' = [sync EXCEPT ![p].pc = "write", ![p].queue = Planned(p)]
  /\ UNCHANGED <<checkoutVars, ticket, issues, overlapped, told>>

ListIssues(p) ==
  /\ sync[p].pc = "list"
  /\ IF \E t \in Tickets : Doubled(t)
     THEN End(p, "2")
     ELSE /\ sync' = [sync EXCEPT ![p].pc = "write", ![p].queue = Planned(p)]
          /\ UNCHANGED <<running, told>>
  /\ UNCHANGED <<facts, config, file, offered, edits, faults, ticket, issues, overlapped>>

\* gh issue create, or gh issue edit.
Written(p) ==
  LET e == Head(sync[p].queue)
      v == sync[p].read[e.ticket]
  IN  [issues EXCEPT ![e.ticket] =
         IF e.number = 0 THEN Append(@, v) ELSE [@ EXCEPT ![e.number] = v]]

Wrote(p, failed) ==
  sync' = [sync EXCEPT ![p].queue = Tail(@), ![p].failed = @ \/ failed]

WriteIssue(p) ==
  /\ sync[p].queue # << >>
  /\ issues' = Written(p)
  /\ Wrote(p, FALSE)
  /\ UNCHANGED <<checkoutVars, ticket, overlapped, told>>

\* gh reports a failure: the entry is noted, and the next one follows.
WriteIssueFails(p) ==
  /\ sync[p].queue # << >>
  /\ Fault
  /\ issues' \in {issues, Written(p)}
  /\ Wrote(p, TRUE)
  /\ UNCHANGED <<facts, config, file, offered, running, edits, ticket, overlapped, told>>

\* Defective variant: the issues are not counted again.
RereadForFailures(p) ==
  /\ sync[p].pc = "write" /\ sync[p].queue = << >>
  /\ End(p, IF sync[p].failed THEN "1" ELSE "0")
  /\ UNCHANGED <<facts, config, file, offered, edits, faults, ticket, issues, overlapped>>

RereadIssues(p) ==
  /\ sync[p].pc = "write" /\ sync[p].queue = << >>
  /\ End(p, IF sync[p].failed \/ \E t \in Tickets : Len(issues[t]) # 1
            THEN "1" ELSE "0")
  /\ UNCHANGED <<facts, config, file, offered, edits, faults, ticket, issues, overlapped>>

ListFails(p) ==
  /\ p \in running /\ sync[p].queue = << >>
  /\ Fault
  /\ End(p, "2")
  /\ UNCHANGED <<facts, config, file, offered, edits, ticket, issues, overlapped>>

KillSync(p) ==
  /\ p \in running
  /\ Fault
  /\ End(p, "killed")
  /\ UNCHANGED <<facts, config, file, offered, edits, ticket, issues, overlapped>>

SyncStep(p) ==
  \/ ListIssues(p) \/ WriteIssue(p) \/ WriteIssueFails(p)
  \/ RereadIssues(p) \/ ListFails(p) \/ KillSync(p)

-----------------------------------------------------------------------------
EditTicket(t) ==
  /\ Edit
  /\ ticket[t] < MaxVersion
  /\ ticket' = [ticket EXCEPT ![t] = @ + 1]
  /\ UNCHANGED <<facts, config, file, offered, running, faults, issues, sync, overlapped, told>>

\* The marker stays in the body.
EditIssue(t) ==
  /\ Edit
  /\ issues[t] # << >>
  /\ issues[t][1] # ByHand
  /\ issues' = [issues EXCEPT ![t][1] = ByHand]
  /\ UNCHANGED <<facts, config, file, offered, running, faults, ticket, sync, overlapped, told>>

IssueSyncNext ==
  \/ \E p \in Syncs : StartSync(p) \/ SyncStep(p)
  \/ \E t \in Tickets : EditTicket(t) \/ EditIssue(t)
=============================================================================
