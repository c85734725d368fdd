----------------------------- MODULE MCPipeline -----------------------------
(***************************************************************************)
(* Values for the constants of Pipeline in the runs of TLC.                *)
(***************************************************************************)
EXTENDS Pipeline, TLC

MCRepositories == <<"web">>
MCTwoRepositories == <<"web", "api">>

MCPlans == {"p1"}
MCTwoPlans == {"p1", "p2"}
MCEditedPlans == {"p1", "p3", "p4"}

\* p3 and p4 are edited plans of the request that p1 was compiled from.
MCRequest == [plan \in Plans |-> IF plan = "p2" THEN "second" ELSE "first"]

MCAuthority == [plan \in Plans |-> IF plan = "p1" THEN "OWNER" ELSE "HERMES"]

\* p1 is public and p2 private, each with operations that say the same.  In p3
\* the entries say private and the operations public; p4 has no entry for its
\* second repository, whose operation says public.
MCVisibility ==
  [plan \in Plans |-> [r \in Repo |->
     CASE plan = "p1" -> "public"
       [] plan = "p4" /\ r = "api" -> "unlisted"
       [] OTHER -> "private"]]
MCDesiredPrivate ==
  [plan \in Plans |-> [r \in Repo |->
     plan = "p2" \/ (plan = "p4" /\ r = "web")]]

Approve(plan, authority, spent, named) ==
  [plan |-> plan, authority |-> authority, spent |-> spent, named |-> named]

\* A good document for every plan.
MCGoodApprovals == {Approve(plan, Authority[plan], FALSE, TRUE) : plan \in Plans}

\* And documents that authorize nothing.
MCApprovals ==
  MCGoodApprovals
    \cup {Approve("p1", "HERMES", FALSE, TRUE), Approve("p1", "OWNER", TRUE, TRUE),
          Approve("p1", "OWNER", FALSE, FALSE), None}

RunSymmetry == Permutations(Run)
=============================================================================
