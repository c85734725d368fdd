# A verification of Repo Factory

Repo Factory turns an approved request into a GitHub repository that agents can
develop in, and leaves a governance kit in that repository which decides what may
be merged. Both halves are short scripts that act on a remote they do not control,
that may die between any two calls, and that find out what happened only from files
they wrote themselves. This directory models those scripts in TLA+, checks the
models with TLC and proves facts about them with TLAPS. Paths below are relative to
the repository.

## 1. Inventory

### The factory (`scripts/`)

| part | state it keeps | operations | talks to |
|---|---|---|---|
| plan compiler: `plan.py`, `lean.py` | none: a plan is a function of the request | `compile_plan`, `require_lean_review` | - |
| authorization: `authorize.py`, `apply.py` | an approval document that names a plan by digest | `authorized_plan_receipt`, `_check_authorization` | apply, publish, result |
| receipt ledger: `ReceiptLedger` in `apply.py` | a JSON file of receipts; a scratch file beside it; the rows a process has read | load, `get`, `assert_owner`, `record` | apply, publish, result share the file |
| apply: `apply_plan` | what it has passed in this run | two phases; per operation: resume, or observe, write, re-read, record | GitHub through the port |
| GitHub port: `github_port.py` | none | `observe`, `create`, `update` | `gh` |
| publish: `publish.py` | a working directory with the genesis commit | build, push `main`, push `dev`, `ls-remote`, record, resume | git, GitHub, ledger |
| result: `result.py` | the result document | `build_result` | reads the ledger's rows |
| stage order: `dogfood.sh` | exit statuses | before-files, publish, after-files, verification, result | everything above |
| genesis bundle: `bootstrap.py`, `canonical.py`, `secret_screen.py`, `acp_bridge.mts` | none | `compile_bootstrap_plan` | - |
| materializer: `materialize.py`, `render_ci.py` | none | text generation | - |
| phase gate: `phase-gate.py` | none: reads the checkout, GitHub, evidence files | local, kernel and GitHub checks, profile, assurance level | GitHub, `github-profile.py verify` |
| issue sync: `create-issues.py` | issues, found again by a marker | list, plan, create or edit, list again | GitHub |
| installer: `install-governance.py` | the kit, the policy and the profile lock in the checkout | plan, conflict or `--update`, write | the checkout |
| canary: `run-canary.py` | a disposable repository, an evidence file per mode | the whole loop, step by step; teardown; evidence | everything, GitHub |
| staging, citations: `stage_skill.py`, `verify-citations.py` | files | copying, lookups | - |

### The governance kit (`templates/kit/scripts/`)

| part | state it keeps | operations | talks to |
|---|---|---|---|
| merge broker: `merge-broker.py` | `writer.lock`, a receipt per idempotency key | `evaluate`, `execute`, `audit` | GitHub, policy, tickets |
| autopilot: `autopilot.py` | a lease per ticket, rollback tickets | `run-once`, `dispatch`, `request-merge`, `review`, `recover`, `rollback` | workers, kernel, broker |
| governance kernel: `governance.py` | none: reads policy, tickets, GitHub | policy, ticket graph, PR checks, status, doctor | GitHub |
| GitHub profile: `github-profile.py` | the profile lock | `resolve`, `verify` | GitHub |

### What is hard

* Every factory command is a process that may stop anywhere. A remote write and the
  receipt that speaks of it are two steps, and a lost reply looks like a refusal.
* The ledger is rewritten whole from what a process read at its start. No lock is
  taken.
* GitHub belongs to others too: names are taken, deleted and taken again, settings
  are undone, branches move, between an observation and the write that relies on it.
* Stage order is kept by a shell script, and by what each command asks of the
  ledger; the two are not the same.
* The broker collects its facts call by call, then takes its lock, then merges: a
  push, a base that moves or a recheck fits in between. Its lock is a file that a
  crash leaves behind. Its receipts outlive what they describe.
* The set-up commands are run by hand, again after a failure, in any order. Their files
  are written in place, so a kill leaves half of one; what one command reads may be what
  another wrote for a repository that has changed since.
* `check-pr` reads the contract from the head of the pull request it judges: what one
  passing pull request says in a ticket is the rule for the next.

`PROJECT.json` lists the hazards one by one at their lines, with the properties
that would catch them.

## 2. Modules

| module | models |
|---|---|
| `Plan` | what a plan says: operations and phases, approvals, exposure |
| `GitHub` | the repositories, what each write needs and does, outsiders |
| `Ledger` | the processes, the ledger file, the scratch file, faults |
| `Apply` | `apply_plan`, one action per call and per half of `record` |
| `Publish` | `publish_files` and `main` of `publish.py` |
| `Pipeline` | the commands together, `build_result`, the operator, properties |
| `Bootstrap` | the abstract promise of the ledger, implemented by `Pipeline` |
| `MCPipeline` | values for TLC |
| `PipelineProofs` | theorems about `Pipeline`: shape, the ledger file, exposure |
| `ReceiptProofs` | theorems about `Pipeline`: what receipts and results are worth |
| `SerialProofs` | theorems about `Pipeline` run one command at a time; the refinement of `Bootstrap` |
| `Policy` | the policy and the tickets as they validate, the profile, `Delegated` |
| `Forge` | the repository a broker merges into: pull requests, checks, rules, landings, everybody else |
| `MergeBroker` | `merge-broker.py execute`, one action per call, and its properties |
| `MCMergeBroker` | values for TLC |
| `MergeBrokerProofs` | theorems about `MergeBroker`: shape, lock, receipts, evidence |
| `LandingProofs` | theorems about `MergeBroker`: order of landings, checks of the rules, truth of receipts |
| `Autopilot` | `run-once --online --dispatch` and `rollback` of `autopilot.py`, `online_status` |
| `MCAutopilot` | values for TLC |
| `AutopilotProofs` | theorems about `Autopilot` |
| `Checkout` | the files of a checkout, the facts GitHub has of it, the commands that run, the people |
| `Installer` | `install-governance.py`, and `github-profile.py resolve` |
| `IssueSync` | `create-issues.py --confirm-external-write` |
| `Canary` | `run-canary.py`: steps, marks, teardown, evidence |
| `PhaseGate` | `phase-gate.py` and `github-profile.py verify` |
| `Setup` | these five together on one checkout, their fairness and properties |
| `TicketGraph` | the search for cycles in `governance.py`, `critical_path` of `autopilot.py` |
| `ChangeControl` | tickets, `validate` and `check-pr` over a history of merges |
| `Kit` | `Setup`, `TicketGraph` and `ChangeControl`, each alone, in one specification |
| `MCKit` | values for TLC |
| `SetupProofs` | theorems about `Kit`: the set-up commands |
| `KitProofs` | theorems about `Kit`: the search for cycles, the chains, the pull requests |

`Pipeline` extends `Publish`, `Apply`, `Ledger`, `GitHub`, `Plan` in that order and
interleaves them on one remote and one ledger. `MergeBroker` extends `Forge`, which
extends `Policy`; `Autopilot` extends `Policy` too. `Setup` interleaves `Installer`,
`IssueSync`, `Canary` and `PhaseGate` on one `Checkout`. `Kit` puts three specifications
under one `Init` and `Next`: a variable `part`, fixed at the beginning, says which of them
a behaviour is about. The set-up commands, the graph walks and the pull requests share no
variable that one of them changes while another looks, so their product would only repeat
each of them once for every state of the others. Definitions whose comment says
*defective variant* are not used by any specification: each is the definition below
it with a plausible slip, and shows that the property it is paired with in
`PROJECT.json` notices the slip.

### The factory

**State and code.** `disk`, `scratch` and `mem[p]` are the ledger file, its
`.partial` and `ReceiptLedger._rows` of process `p`. `pc[p]` is the line the process
stands at: `next` (head of the loop), `write`, `reread`, `record` and `replace` (the
two halves of `record`), and for publish `build`, `push main`, `push dev`, `list`.
`todo[p]` is what is left of `staged`. `remote[r]` is the repository of a name as the
port observes it: a setting is TRUE when `_state_gap` finds nothing missing. `maker`
and `touched` are auxiliary and never read by an action: who made the repository and
which plans wrote to it. `reported` and `results` are what the operator has seen: exit
statuses of apply runs, and issued results.

**Steps.** A remote call is one step; the check that precedes a call and reads
only memory is in the same step. Loading the ledger and all checks before the first
remote call are one step, since nothing of it can be seen from outside. A receipt
takes two steps, scratch file and rename.

**Faults of the factory.** `crash` ends a process anywhere. `error` is a call that fails and did
nothing, `lost reply` one that did its work and reports failure, `no effect` a setting
that exits 0 and is not there. Outsiders create, delete, alter and develop.

The constant `InOrder` says that publish is started only after an apply run has
reported the before-files phase, as `dogfood.sh:83-95` does. It is TRUE in every run.

### The broker

**State and code.** `lock` and `receipts` are `writer.lock` and the directory of
receipts. `pc[p]` is the line process `p` stands at; `intent[p]`, `facts[p]` and
`outcome[p]` are its memory: the intent file, what `load_facts_online` has learned so
far, the decision. A receipt is its key (pull request, ticket, head, policy: `Key`,
merge-broker.py:52) and its decision. `pulls[n]` has state, head and base; `checks`,
`gate`, `auto`, `rules` are check runs, merge-gate statuses, enabled auto-merges and the
ruleset. `history` is the branch, the first commit first, with how each came there.
`seenGreen` is auxiliary: which heads ever had a check succeed.

**Steps.** Facts are read in four steps in the order of the code: pull request, tip,
check runs, the rest. Then the lock, the replay, the decision, the calls of the native
or private way of merging, the receipt, the unlock, a step each. `Decision` is
`evaluate` in its order of questions, with an outcome for each class of answer that
`execute` treats differently. `Mode` says where facts come from: `online`, `file`
(a controller's facts with `--online`), `simulated` (a facts file without it).

**Others.** Agents push, checks report and are run again, people close, reopen, draft,
relink, merge by hand, remove the rules, change the policy; GitHub fires auto-merge.

### The controller

**State and code.** `rollbacks` are the rollback tickets in `docs/tickets`; planned
tickets are a constant. `leases` are the lease files, by ticket: attempt, and the
policy digest, which with the ticket is all an operation id depends on (`dep_heads`
maps each dependency to the word *verified*, autopilot.py:347). `pulls[t]` are the pull
requests of a ticket, the newest first as GitHub lists them, merged ones by the state
of their post-merge check. `seen`, `verified`, `queue`, `claim` are the memory of a run.

**Steps.** Load tickets; list pull requests; look up one merge commit after the other;
make the plan; per ticket: validate again and read the lease, write the lease, start the
worker, wait for it. `Claimable` holds the early returns of `cmd_dispatch`. Workers,
merges and the post-merge check are the world's; they do what the code asks of them in
the broadest way.

### Setting a repository up

**State and code.** `file` is the checkout in five files: `lock` is
`github-profile.lock.json`, `actions` and `factory` are `actions-lock.v1.json` and
`factory-lock.json`, `policy` is `policy.v1.json`, `kit` stands for the workflows and
scripts. A file is what it was made for, `absent` or `torn`. A profile lock has the type of
account, the visibility and the profile, the three things `verify` compares. The factory
lock is a digest of all outputs, the profile lock among them, so it is `other` once that
lock is written anew. The kit is the only file with texts that are not ASCII; cut within a
character it is `garbled`, and the installer, which decodes what it compares, stops there.
`ownerType`, `visibility`, `guarded` are what GitHub says; `config` is the profile lock that
`repo-factory.json` asks for. `wanted` and `writes` are `outputs` and what is left of
`plan["create"] + plan["update"]`; `sync[p]` is the memory of a sync, `issues[t]` the issues
with the marker of `t`, each as the version of the ticket it shows; `left` and `marked` are
the steps of the canary, `evidence` its two files; `gate` is a run of the gate. `created`,
`overlapped`, `told`, `proven` and the fields `verified`, `seen` of `gate` are auxiliary.

**Steps.** A plan is one step, each file a step, each issue a step, each remote check of the
gate a step. The gate reads the lock three times, as the code does. A command may be killed
before a write or within it; a call may fail, having had its effect or not; people change
visibility, rules, configuration, tickets, issues and files beside.

**Who runs what.** `Offers` lists, for an instance, which commands an operator starts;
`Together` which of them run side by side. Only two syncs do.

### The ticket graph

The two recursive functions are unfolded: `calls` is the call stack, and entering a call,
looking at one dependency and returning are steps. Where the code goes through a list or a
dictionary, the order is open. `color`, `cycle`, `memo`, `deepest` are the variables of the
code; `done` and `dropped` are the verified and the invalidated tickets of the reconcile
that asks for the path.

### Pull requests

**State and code.** `tree` says of each path whether it is there and who changed it last,
`tickets` are the ticket files. A pattern is a path or a directory with `/**`. `last` and
`recast` are auxiliary: what the last merge of each ticket changed, in product and in ticket
files, and the tickets that were rewritten afterwards. A revert takes both back.

**Steps.** A step is a merge that `check-pr` let through: one ticket file, one other file, or
one of each. That is enough to show what a pull request may do, because `check-pr` asks of
one changed file at a time; only what the head as a whole says (`RepoHolds`, the tests that
have to be there) relates them. Every pull request is up to date with its base, as
`base_current` of the broker asks. The tickets people write come from `Drafts`; `R` is the
ticket `autopilot.py rollback` writes.

## 3. Runs

All bounds are constants of the configurations. The smallest instance in which each
hazard happens was taken and then enlarged as far as minutes allow.

| run | question | bounds | distinct states |
|---|---|---|---|
| `faults` | one bootstrap at a time: is what is recorded true, is protection in place before the push, does a repeated bootstrap end, does the ledger keep the order of `Bootstrap`? | 2 repositories, the plan and two edited plans of its request, 2 faults | 40 k |
| `concurrent` | two plans for one name, two commands on one ledger | 1 name, 2 runs, 1 fault, a stranger may create | 419 k |
| `outsiders` | everything others can do to a repository being built | 1 repository, 2 node ids, 1 fault | 171 k |
| `reused_name` | does a reused name show? (no) | a stranger deletes and creates | stops early |
| `private` | evidence and dependencies, brokers one after the other | 2 tickets, 2 heads each, 1 fault | 5.2 M |
| `two` | two brokers on one pull request | 2 heads, a policy change, old and malformed intents, a crash or a lost reply | 2.9 M |
| `native` | rules that ask for more checks than the broker, merge-gate, auto-merge, removed rules, relinked pull requests, simulated intents | 1 pull request, 2 heads, 2 checks, 1 fault | 2.7 M |
| `broker_progress` | is a complete pull request merged, whatever calls fail and people close or draft? | 2 tickets, 2 heads, 1 fault | 630 k |
| `stale_base` | is the tip checked under the lock? (no) | 2 brokers, 2 tickets | stops early |
| `autopilot` | mandate, order, cap, one worker, delivery | 3 tickets, 2 rollbacks, 2 faults, 1 policy change, 2 pull requests a ticket | 218 k |
| `spent_leases` | is everything delivered when nothing fails? (no) | 3 tickets, cap 2 | 71 |
| `kit` | set-up: no duplicates but reported ones, no lost work of the owner, earned levels, the gate is reached; graph: cycles and depth; pull requests: workers keep off, rollbacks pass | 2 tickets in 2 versions, 1 edit, 1 fault, four sets of commands; all graphs on 3 tickets; 5 tickets, 9 files, 3 merges | 877 k |

Why the bounds suffice for what is asked. Everything a broker decides is about one pull
request, its ticket and that ticket's dependencies, so two of each show every relation.
Two heads give a stale fact, a third only a second one. One fault separates every pair
of steps once; the pipeline gets two, because a resumed command is where the second
hurts. Two processes are enough for a lock that does not count. A second rollback is
what breaks a contract. Two repositories are needed where completeness is asked.

In `kit`, one edit and one fault are enough because the operator starts everything again:
each spoils any one step of any command, and both together spoil a rerun. Two tickets let a
sync stop between them. Three tickets are the smallest graph with two ways to one ticket
beside an order that meets them apart; all 512 graphs and all facts about them are initial
or chosen. Three merges let a ticket come in, be used and be replaced; with four, 1.2
million states were searched without a violation.

`CHECK_DEADLOCK FALSE` stands in `autopilot`, where a broken contract stops the controller
and there is then nothing to do, and in `kit`, where a graph walk ends and the merges are
bounded.

**What the properties leave out.** Each exemption is part of the property's text and of
its comment. `DuplicatesAreReported` allows duplicates of overlapping syncs, and asks
that somebody is told. `SetupCompletes` asks that the configuration comes to agree with
GitHub, which no command can bring about, and names the two broken files that no command
repairs. `HermesNeverPublic` speaks of repositories listed in `repositories[]`; `ResultIsTrue`
of one plan of the same request, since no more is compared (section 5). `LevelIsEarned` is checked with resolver and
gate one after the other. `WorkersKeepOff` exempts files that were moved away, tickets
that were rewritten after a merge and tickets that name no oracle. `RollbackIsPossible`
says that a revert passes for merges of product alone, of executable tickets, on the paths
they own, but for files that became an oracle or a test of some ticket and for the ADR that a
rollback ticket itself brings back; and that it never passes for the merge that brought the
ticket itself, as that of a rollback does. Of merges that change other ticket files it says
nothing (section 5). `ReceiptIsTrue` counts receipts of executed runs. `LandsOnEvidence` of
`native` has a delegated ticket only; that an undelegated one is not merged is part of
what `EvidenceIsKept` and `GateIsEarned` prove for all tickets.

**Fairness.** A process that runs goes on (weak fairness of its steps: they are
sequential scripts, and every call ends or times out). Operators and agents ask again:
`dogfood.sh` is rerun stage by stage for plans that can complete at all (their exposure may
be approved and every repository has an entry, without which its genesis row is not planned); agents submit fresh intents (strong fairness,
because the turn to start is taken away by others in between); the controller is started
again. GitHub fires auto-merge it accepted. In `autopilot`, what is opened is merged and
its check runs, which is what *delivery* needs from the outside. In `Setup` a command that
was started goes on (weak fairness), `apply.py` sets the rules (weak), and the operator
starts `install --update`, `resolve`, the sync and the gate again and again (strong, because
another command may be running whenever one of them could start); which of them is needed
the operator need not know. No fairness is assumed
of faults, crashes, people, rollbacks or reruns; faults are bounded in number, so
liveness is about what happens after the last one.

## 4. Proofs

TLAPS proves for all values of the constants, that is for any number of processes,
repositories, tickets and pull requests and for any bounds. "Under" names the hypothesis a
theorem adds to the assumptions of the modules; each is explained below.

| theorem | property | under |
|---|---|---|
| `PipelineProofs!TypeCorrect` | `TypeOK` | |
| `PipelineProofs!LedgerAlwaysLoads` | `LedgerLoads` | |
| `PipelineProofs!HermesNeverMakesPublic` | `HermesNeverPublic` | |
| `ReceiptProofs!ReceiptsStayGenuine` | `ReceiptsAreGenuine` | `Undisturbed` |
| `ReceiptProofs!NobodyWritesElsewhere` | `NoForeignWrite` | `Undisturbed` |
| `ReceiptProofs!RulesetsFollowGenesis` | `RulesetAfterGenesis` | `Undisturbed` |
| `ReceiptProofs!PushesAreProtected` | `PushUnderProtection` | `Undisturbed` |
| `ReceiptProofs!ResultsAreTrue` | `ResultIsTrue` | `Undisturbed` |
| `SerialProofs!AppliedStaysDurable` | `AppliedIsDurable` | `OneAtATime` |
| `SerialProofs!NothingIsRewritten` | `ReceiptedIsNotRewritten` | `OneAtATime` |
| `SerialProofs!PromiseIsKept` | `KeepsPromise` | `OneAtATime`, `InOrder` |
| `MergeBrokerProofs!TypeCorrect` | `TypeOK` | |
| `MergeBrokerProofs!OneWriter` | `SingleWriter` | |
| `MergeBrokerProofs!ReceiptsStay` | `ReceiptsAreFinal` | |
| `MergeBrokerProofs!EvidenceIsKept` | `LandsOnEvidence` | |
| `MergeBrokerProofs!GateIsEarned` | `GateMeansEvidence` | |
| `LandingProofs!NativeLandingsPassed` | `LandsOnAllChecks` | `Native` |
| `LandingProofs!DependenciesLandFirst` | `DependenciesComeFirst` | |
| `LandingProofs!ReceiptsTellTheTruth` | `ReceiptIsTrue` | `StaysQueued` |
| `AutopilotProofs!ControllersKeepTypes` | `TypeOK` | |
| `AutopilotProofs!WorkersWaitForProof` | `DependenciesAreProven` | |
| `AutopilotProofs!WorkersHaveMandate` | `WorksInMandate` | `OneOperator` |
| `AutopilotProofs!OperationsAreWorkedOnce` | `OneWorkerPerOperation` | `OneController` |
| `AutopilotProofs!ClaimsStayInWip` | `WipBounded` | `OneController` |
| `SetupProofs!OwnersWorkStays` | `OwnersWorkIsKept` | |
| `SetupProofs!DoublesAreHeardOf` | `DuplicatesAreReported` | |
| `SetupProofs!LevelsAreEarned` | `LevelIsEarned` | `LockIsLeft` |
| `KitProofs!WorkersStayOff` | `WorkersKeepOff` | |
| `KitProofs!MergesCanBeReverted` | `RollbackIsPossible` | |
| `KitProofs!SearchFindsCycles` | `CyclesAreFound` | |
| `KitProofs!KitKeepsTypes` | `TypeOK` | |
| `KitProofs!DepthCountsRounds` | `DepthIsRounds` | |

### What is assumed

The assumptions of the modules are shapes (the runs are finitely many; "no job" is not a
job; the orders in which tickets, rollback ids and issues are listed are sequences without
repetition of just these), what the validators of `governance.py` let through, and in
`ChangeControlAssumption` that the ids of the rollback tickets are not taken by drafts.
TLC evaluates all of them in its runs.

The hypotheses of single theorems are conditions under which the property can be meant at
all. Each is what some run has, and without it the property is false:

* `Undisturbed`: outsiders create repositories and do nothing else, and publish waits for
  the before-files phase (`InOrder`). A receipt is not taken back when somebody deletes the
  repository it names, and a publish that comes first pushes to whatever has the name
  (section 5). Any number of commands of any number of plans may run at a time.
* `OneAtATime`: `MaxActive = 1`. The ledger has no lock; of two commands the later rename
  drops the other's receipts. Anything outsiders do is allowed.
* `OneController`, `OneOperator`: leases and rollback ids are read first and written later,
  without a lock (section 5). What does not need them, dependencies and types, is proved
  for any number.
* `Native`: the profile has rules. Without rules `security-gate` is asked by nobody.
* `StaysQueued`: in a public profile, nobody closes what is queued or makes it a draft;
  either takes auto-merge away from a pull request whose receipt says QUEUED.
* `LockIsLeft`: nobody writes the profile lock beside the gate, which reads it three times.

### Along which arguments

*The ledger always loads.* The file alone is not inductive: it is replaced by the scratch
file, which is a copy of some process's rows plus one. The invariant (`LedgerInv`) says of
the file, of the scratch file and of the memory of every process that no operation occurs
twice and all rows are of one plan, and that a process that runs a command holds rows of
the plan of that command only. A load that would break it is refused; a record adds an id the
process has not got. Nothing relates two processes to each other, which is why the lost
update of concurrent writers does no harm to it.

*Hermes never makes public.* `ExposureInv` adds that a process that applies, applies a
plan whose exposure may be approved; the admission check is the only door to applying,
and it compares entry and operation of every repository that has an entry. Creation is the
only step that sets how private a repository is (`ExposedOnlyByCreation`).

*Receipts are worth what they say.* `ReceiptInv` is the five properties with what each
process knows (`AppliersKnow`, `PublishersKnow`). A command that applies has still before
it a part of its phase in which creations come first, and every repository whose creation
it has gone past was made by its plan; so a write to a name reaches what the plan made.
When nobody deletes, what a repository has only grows (`Grows`), and from that every
action keeps old rows genuine; only the re-read adds rows. The reports of the operator
(`ReportsHold`) carry the order of `dogfood.sh` from apply to publish. A result asks only that
the rows are of its request; that they are of one plan is the ledger's doing (`OwnedBy`), and
that this plan has built everything follows from its rows being genuine, the genesis among
them (`GenesisInv`, `DeliverableIsFull`).

*One command at a time.* `SerialInv`: the rows in memory are those of the file, but for the one
that is in the scratch file; what a command has gone past in its phase (`Behind`, a number,
since the phase is a sequence) has its receipt on disk. A crash leaves the file as it is,
and what is loaded again is the same. The refinement is then a case per action: the rename
adds the one receipt `Bootstrap` allows next, everything else stutters.

*One writer, receipts stay.* `LockInv`: a process in its critical steps is the one the
lock names, and a process on its way to a merge has no receipt to replay. A crash leaves
the lock with nobody in those steps.

*Evidence is kept.* The property speaks of the branch; between the facts and the merge
lie a push, a recheck, a removed rule. `EvidenceInv` therefore carries the evidence along:
facts are sound when what they say of a head was green at some time (`Sound`, over
`seenGreen`, which only grows); a process on its way to a merge holds sound facts about
the head of its intent and a delegated ticket; a merge-gate stands on such heads only.
Then the private merge lands the head of the intent or nothing (`sha`), and what GitHub
lands under the rules carries a gate.

*Landings.* One lemma (`EveryStepLands`) says that a step either leaves the history or adds
one landing of an open pull request whose way was allowed. `DependencyInv` follows
dependencies from the tickets that have landed to the facts a broker holds, to those it is
about to merge, to those in auto-merge. `TruthInv` says what each stage between the merge
call and the receipt knows of the pull request: a decision is true before it is written,
and merged stays merged.

*The controller.* `ProvenInv`: who is verified in the memory of a run was once proven, and
who claims a ticket has its dependencies among them. `MandateInv`: ids of rollback files
are unique, so that a ticket has the origin it had when the plan was made, and what is
queued was allowed then. `LeaseInv`: a policy for which a ticket had a worker is no newer
than its lease; a claim is newer, and before *invoke* no worker has had it; leases plus what
a plan has still to claim stay within the cap.

*Set-up.* `CommandsInv` says what each command may hold while it runs, and that it holds
nothing otherwise. `SyncInv` (no doubles without an overlap) says of the writes a sync
has still before it that each is for another ticket and that each counts the issues as
they are, which nobody else changes while it is alone. `GateInv` follows the level back
to the reads of the same run.

*The search for cycles.* `OnWay` and `SearchInv`: the calls are a path without repetition
in the graph, the grey tickets are those on it and nobody else, what a black ticket depends on is
black unless a cycle was found, and no cycle goes through black tickets alone. A
dependency on a grey ticket closes a path, so there is a cycle; a search that ends has
painted everything black. `ChainInv` is the same for `critical_path`: chains have no
repetitions, since a ticket on the way has no memo and a chain is made of tickets that do.

*The depth.* `DepthInv`: without a cycle, the chain of a ticket is longer by one than the
longest of those it waits for, the best of a call is that as far as the call has looked, and
every ticket that is no root any more is the outermost call or no deeper than `deepest`. So
when the walk ends, a ticket is delivered in the round its chain is long (`InTime`,
`NotSooner`, each by the first round that would be wrong).

*Pull requests.* `ChangeInv`: whoever last changed a file has been merged, and what stands
after a merge has passed `validate` as a whole. Both properties then follow by
going through `check-pr` once with an arbitrary change, for `RollbackIsPossible` of the
revert on the ticket that would be written (`RevertsPass`). Its other half (`OwnMergeStays`):
the reverted tree has lost the ticket that the new one invalidates, and a reference to
nothing fails `GraphHolds`.

Three of the model's functions are recursive (the order in which a controller goes
through its tickets, the updates of a sync, the rounds of delivery). What the proofs
need of them, first of all that they exist, is shown by a least counterexample, as a set
of numbers with no least element is empty.

### What proving found

* Overlapping arms of a `CASE` are no function to the prover, and TLC takes the first;
  `Checkout`, `PhaseGate`, `TicketGraph` and `ChangeControl` say `IF` now.
* `tlapm` reads `SUBSET A \ B` as `SUBSET (A \ B)`, and the acyclicity of tickets, written so,
  was an assumption no graph satisfies. It has parentheses now and everything that
  rests on it was proved again.
* `RollbackIsPossible` was stated with exemptions it does not need (the kind of the change,
  rewritten tickets) and without two it does: the ADR, and files that are a test of a
  ticket. `WorkersKeepOff` did not name tickets without an oracle. TLC's instances had
  neither case. `DepthIsRounds` asked for the end of the chain only where nothing waits for a
  dropped ticket; it holds everywhere, and says so now.

### Model-checked only

Liveness and everything under fairness (`CompletesUnlessStranded`, `EligibleIsMerged`,
`DeliveredUnlessStuck`, `SetupCompletes`), which is out of the
prover's reach; and the properties of the runs that end in a counterexample
(`WritesToFingerprint`, `LandsOnCheckedBase`, `EveryTicketIsDelivered`), which are false.

## 5. Where code and documents part

Three runs end in a counterexample to something the repository says of itself.

* `reused_name`. The node id in a receipt is meant to show that a name was reused
  (apply.py:183-185). Only a resumed `create-repository` compares it; later operations
  write to whatever has the name.
* `stale_base`. The broker is described as lock, then everything checked again, then
  merge (operational-governance.md:271-272; `recheck_at_execution` is mandatory). It reads
  everything before it takes the lock, so the second of two brokers merges onto a tip its
  checks never saw; `sha` guards the head alone.
* `spent_leases`. A lease coordinates and does not decide readiness
  (operational-governance.md:164). The cap on active tickets counts lease files and
  nothing deletes one, so after `max_active_tickets` claims no ticket ever starts.

Others were met while modelling and have no run, because no property is asked in the
situations they need, or because they follow from one step:

* The two checks of exposure look at entries of `repositories[]`; an operation whose identity
  has no entry is passed over (apply.py:340-342) and so is the rule that Hermes may not approve
  what is public (353-360). An edited plan that drops the entry, approved by Hermes, makes a
  public repository. Plan `p4` of `faults` does it; `HermesNeverPublic` speaks of entries.
* `build_result` calls a receipt from under another approval no evidence (result.py:128-129)
  and compares the request digest only (130-131). Two plans of one request pass for each other;
  `ResultIsTrue` says what is left.
* `publish` does not ask for the before-files phase. Started too early, as only the
  order of `dogfood.sh` prevents, the genesis push passes before push protection stands
  (plan.py:516-517, publish.py:376). With `InOrder = FALSE` TLC finds it in `faults`.
* A broker killed in its critical section leaves `writer.lock` for good
  (merge-broker.py:594-602); every later run answers `SINGLE_WRITER_BUSY`.
* `execute --facts` without `--online` merges nothing and stores a MERGED receipt, which
  the real run then replays (420-428). Likewise a QUEUED receipt is replayed after
  auto-merge was switched off (392-395).
* `--online` alone never knows a verified dependency: tickets with dependencies stay
  UNKNOWN (130-131, 255-256). `security-gate` is in the ruleset only, so the private
  profile, which has none, never asks for it (266-268).
* The lock lies in the receipts directory: another `--receipts` is another lock (590).
* A failed worker, even one with a transient error, keeps its lease; the same operation
  resumes and nothing runs, so the three retries of operational-governance.md:166 never
  happen (autopilot.py:349-354). The same after a kill between lease and worker.
* Two controllers at a time can both claim a ticket: the lease is read and then written
  (349, 369).
* A second rollback of a ticket makes two active tickets own the same paths, and every
  run stops with CONTRACT_INVALID. Nothing calls `rollback` by itself, although
  operational-governance.md:131 and post-merge.yml:3-4 say that the controller does.
* A rolled-back dependency still counts as verified (compute_ready, 202).
* The profile lock is read three times by one run of the gate (phase-gate.py:384, 404, 495)
  and once more by `verify` (498). With a resolver beside it and a change of visibility the
  gate reports `FREE_PUBLIC_NATIVE_VERIFIED` without having asked for branch rules; TLC finds
  it as soon as `resolve` is in `Together` with `gate`.
* A torn profile lock survives every run of the installer, `--update` or not
  (install-governance.py:277-281 copies what is there); only `resolve --write-lock`, which the
  installer does not mention, replaces it. `SetupCompletes` fails without it.
* A torn actions lock is copied likewise (287-289), and nothing else writes that file:
  `validate` answers ACTIONS_LOCK_INVALID until a person deletes it (governance.py:603-607).
* The installer decodes what it compares before it looks at `--update` (324). A script or
  workflow cut within a Korean character ends every later run with UnicodeDecodeError.
* The factory lock is a digest that includes the profile lock (310-317), so after every
  `resolve --write-lock` the installer without `--update` reports a conflict.
* The canary has modes for users only, so no evidence is ever of the organization's profile
  and `FREE_PUBLIC_ORG_QUEUE_VERIFIED` (phase-gate.py:68) is out of reach.
* The gate is content with two issues for a ticket, and its link check looks for the prefix
  of a ticket's id (phase-gate.py:329), which all tickets of an epic share: one issue of the
  epic serves all.
* `git diff --name-status` lists a moved file as `R` with its new name last, and
  `changed_files_from_git` keeps that name only (governance.py:802-804). An implementation may
  move a kernel file, a workflow or an oracle into its own paths. Without the exemption TLC
  breaks `WorkersKeepOff` in one merge.
* Patterns are compared as texts (`is_kernel_path`, 122-125): an implementation may own
  `scripts/**`, its pull requests are refused kernel files one by one, but a rollback of it is
  allowed all of `scripts/` (`MayRollBack`). A contract-change may declare product files the
  oracle of some ticket and then change them (808-818). An oracle of one ticket may be changed
  by another that owns it or names it in `coordinated_paths`.
* The validator asks for tests outside the oracles only of tickets that name an oracle
  (governance.py:444), and every ticket may name none. Such an implementation may own its
  tests and write them, and no check of the pull request objects (895-906).
* Reverts that `check-pr` refuses: of a governance-change (the rollback ticket copies kernel
  paths, TICKET_KERNEL_OWNED), of a contract-change (it owns nothing, TICKET_OWNED_EMPTY), of
  a change to a coordinated path (the copy leaves them out, autopilot.py:565), of a file that
  became another ticket's oracle meanwhile (PR_ORACLE_DELETED).
* A rollback can not itself be rolled back: `git revert -m 1` (autopilot.py:584,
  run-canary.py:690) of its merge removes its ticket file too, the new ticket then invalidates a
  ticket that is not there (TICKET_REF_MISSING, governance.py:485-488), and the first ticket is
  active again beside the new one (TICKET_OWNERSHIP_OVERLAP, 525-538).
* `critical_path` counts a ticket that waits for a dropped one as waiting for nothing
  (autopilot.py:249): such a ticket never becomes ready, and the depth is then no bound on
  the rounds to deliver everything; `DepthIsRounds` says what remains true.
* Of several merged pull requests online_status takes the last of GitHub's list, which is
  the oldest (governance.py:1144).

## 6. What is left out

* The text of everything: plans, genesis files, packets, messages, digests. A digest is
  its content.
* Two plans with one `bootstrapOperationId`: the ledger knows a plan by that id and the request
  digest, so an edited copy that keeps both is the same owner to it. Receipts without a request
  digest, which `result.py` tolerates and `apply.py` never writes.
* Torn files when two processes write one scratch file at the same moment; a ledger,
  receipt or lease edited by hand; two pushes that make the same commit hash; a branch
  forced back to an old head; a reopened merge; several clones with a lock each.
* Issue operations of apply, which the plan compiler never emits.
* `audit`, reviewer verdicts, `request-merge`, `dispatch` by hand, offline runs.
* In `Checkout`, every file of the kit but the policy and the three locks is one file.
  `.gitignore` is left out. `resolve` refuses a `--expected-visibility` that GitHub contradicts;
  the operator is taken to give none.
* In `PhaseGate`, the checks of documents are one verdict, milestones and the tier are left
  out, evidence is the factory's (a copy in the repository is not refreshed by anything);
  legacy schemas are not modelled.
* In `ChangeControl`, names of branches and bases, PRDs (as ADRs), dependency manifests,
  secrets, the scan for current-state files, adapters and the locks: each is a check of one text, asked of the head alone. Nobody lands by hand.
* `bootstrap.py` and `materialize.py` are functions from one request to texts. They keep no
  state and make no call, so there is no order of steps to get wrong; what could be wrong in
  them is the text, which a model at this level would have to copy.
* Components without state or with one step only: see `components` in `PROJECT.json`.

## 7. Plan

Done: the factory's pipeline with its refinement; broker; controller; set-up commands,
ticket graph and pull requests; 32 theorems, which state every invariant and action property
of the passing runs and the refinement.

Left:

1. *Delivery*: controller, workers, kernel and broker on one repository; the abstract
   promise (a ticket lands once, in order, in its mandate) as a module that both
   `MergeBroker` and `Delivery` implement.
2. *Review and request-merge*, bound to heads; `audit` of the branch.
