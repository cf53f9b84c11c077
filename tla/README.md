# keiyaku: a verification development

keiyaku keeps *Contracts* in a Git repository. A Contract binds terms (a
document, its Gates and its prerequisites) to a worktree and, usually, a target;
work is delivered, judged, integrated again when the target moves, and finally
placed on the target. Everything a Contract is lies in an append-only journal
in one private ref, `refs/heads/keiyaku-state`, that every keiyaku process of the
repository shares. There is no server: operations are separate,
short-lived processes that meet in Git's ref transactions and in a few SQLite
locks. Beside the Contracts stand the *Debts* (promises that outlive a Contract)
and the *Akuma* (agents, each with a SQLite "heart", that do the work).

This directory holds TLA+ modules of that program, TLC configurations that check
them on small instances, and theorems about them checked by TLAPS.

## 1. Inventory

Paths are below `src/`. "Hard" names what a test hardly reaches.

| Part | State it keeps | Operations | Hard | What makes it correct |
|---|---|---|---|---|
| `core/facts`, `core/verbs`, `core/subject.ts` | none: journal entries, the folded `ContractState`, currency, Gates | `foldJournal`, `decideBind/Amend/Deliver/Reintegrate/Attestation/Placement/Arc/Abandon` | sequences of legal facts that reach an illegal state; which testimony is current | the fold accepts what decisions offer; what is claimed was judged; prerequisites never form a circle and land first |
| `protocol` | per process: attempt, preparation, offer | nine verbs; `runBoundedAttempts`, `runProtocol`, `admitDecidedOffer`, `completion` | preparation outside custody goes stale; unknown outcomes; retries | each fact is admitted as if decided at its publication; verdicts are true; nothing admitted twice |
| `git` admission | `GIT_REF`, target refs, delivery refs | `publishOffer`, `updateRefsAtomically` | compare-and-swap, Git killed, orphaned Git child | one atomic transaction compares root, target and asserted refs |
| `git/target-placement` | target ref and its checkouts, the placement fence | `acquireTargetPlacementFence`, follow and recover a checkout | death between ref and checkout | users' changes survive; a lagging checkout is recovered |
| `git/integration`, `git/tender` | none durable but candidate pins | squash a worktree's change on a predecessor | conflict, stale predecessor | the candidate is the change on the predecessor |
| `git/reconcile`, `terminal-*`, `workspace`, `scratch` | worktrees, delivery refs, candidate pins, recovery snapshots | realize, seal, remove, release | racing reconciles, users and landings in a worktree, hooks, partial failures | no byte that no fact names and no last ref is lost; a contract's worktree is never removed for another's sake; terminal contracts are cleaned up |
| `workspace-place`, `library/reconcile` | the register of places | appoint, release; two rounds of a repository's reconciliation | a place that changes hands between two steps | a worktree stands only at its contract's place |
| `coordination` | SQLite exclusive locks, durable files | acquire/close with bounded wait | death while holding | the kernel releases; waits are bounded |
| `settlement` | debt holder records in the private root | claim, release, settle | crash between debt and holder; unknown release | a debt is released only after it is settled |
| `debt` | debt documents, board | invoke, revise, settle, void | concurrent edits of one document | one writer per debt; lifecycle monotone |
| `alias`, `dispatch` | the file of names; published dispatch paths | move a name; publish a path | Git killed while it publishes; a rewrite of the file over a newer one; a sweep at the same time | what a caller was told of Contract and name is what is there |
| `akuma/heart` | SQLite facts: Bodies, Tells, Turns, controls, deliveries | leash, record, stop, interrupt, settle, prune | everything races with exit and death of a Body; a timeline at its limit, deletes that cascade | one live Body; a Tell is never lost nor taken twice; one end per Body; pruning takes nothing still needed |
| `akuma/projection`, `projection-read` | none | fold the timeline into rows, select a status, page a history | rows that move or fold while they are read; few rows read instead of all | a status shows what must be seen; a reader behind a cursor misses no row |
| `akuma/body`, `turn-drive`, owner | per process | launch, drive a Turn | provider dies, stop races turn end | every pending Tell is disposed of |
| `akuma/publication`, `retention`, `custody`, `library/akuma-creation`, `library/akuma-retention` | an Akuma's directory, Soul, Seal | call, fork, first Tell, sweep | timeouts and aborts against a birth under way; a sweep against new references | one fate per child; callers know their child; nothing needed is retired |
| `akuma/providers` | per provider session | start, send, retire | third-party processes | environment of the Body |
| `verification`, `git/scratch` | scratch worktrees, one lock file each, the slots where failed ones are kept | make a scene, run hooks and the check in it, remove or keep it; collect what is left | aborts and time limits at any point, failed retention, lock files that are unlinked, collectors | testimony is about the snapshot that ran; one hand per scene; no scene goes early or stays unreported |
| `runtime/proc` | process groups | spawn, terminate, kill | escalation and lost exits | the group is gone when the call returns |
| `library` | none | orchestrates the above | order of effects | - |
| `plugin`, `kanshi`, `markdown`, `body`, `identity`, `settings`, `world`, `cli` | none of the protocol | parse, render, watch | - | - |

How they meet: `cli` and `library` call `protocol`; a verb observes the private
root through `git/observe`, asks `core` for one pure decision, and publishes at
most one offer through `git/admission`. The *publication seat*
(`git/private-state-seat.ts`) serialises decisions and publications; a *placement
fence* per target (`git/target-placement.ts`) is held around an operation that
moves or chooses a target. `settlement` joins a claimed Contract to its debt. The
Akuma parts only share the dispatch paths and the worktree with Contracts.

`PROJECT.json` lists every component with its status and every hazard with the
properties that cover it, or the reason why none does yet.

## 2. Modules

    ContractFacts          the pure core: entries, fold, gates, decisions
      ContractLedger       abstract: one atomic step per admitted fact
        MCContractLedger        instances for TLC
        ContractLedgerProofs    theorems
      ContractProtocol     detailed: processes, attempts, locks, publication, faults
        MCContractProtocol      scenarios for TLC      (implements ContractLedger)
        ContractProtocolProofs  theorems, over the ledger's
    TargetCheckout         completion of a delivered contract, its target's checkouts, their recovery
      MCTargetCheckout        scenarios for TLC
      TargetCheckoutProofs    theorems
    ManagedWorktrees       the register of places and the reconciliation of contracts' worktrees
      MCManagedWorktrees      scenarios for TLC
      ManagedWorktreesProofs  theorems
    DebtStore              the debt ledger: commands, locks, files
      Settlement           contracts that hold debts, over it     (implements DebtOwnership)
        MCSettlement            scenarios for TLC
        SettlementProofs        theorems
    DebtViews              what board, catalogue, queries, doctor and tree say of a board
    DebtOwnership          abstract: who holds, completes and releases a debt
    AkumaHeart             the transactions of one Akuma's database
      AkumaBodies          its hosts, successors and clients, over the heart and the leash
        MCAkumaBodies           agendas for TLC
        AkumaBodiesProofs       theorems, and those of HeartTimeline
    TimelineProjection     the fold of an Akuma's timeline and the snapshot of a status
      HeartTimeline          the heart's timeline at its limit: appends, pruning, readers
        MCHeartTimeline         an instance for TLC
    AkumaCalls             calls and forks: birth or seal, Dispatch, name, first Tell; the sweep after them
      MCAkumaCalls            scenes for TLC
      AkumaCallsProofs        theorems
    ProcessGroups          a command, its group, and the runtime that stops it
      VerificationScratch  verification attempts in scratch worktrees, over it; who collects these
        MCVerificationScratch   scenes for TLC
        VerificationScratchProofs  theorems

**ContractFacts** translates `core/`. `FoldEntry` and `FoldAccepts` are
`foldEntry` and the conditions under which it does not raise
`AuthorityCorruptionError`; `CurrentTestimony`, `Satisfied`, `GatesSatisfied` are
the latest-current rule of `gate.ts`; `May<Verb>` is the guard of the verb's
decision and `<Verb>Fact` the entry it offers; `Movement` is the target movement
that a claim carries. Data is abstract: a commit is the sequence of changes on
its first-parent history, so the squash integration of a change on a predecessor
is `Append(predecessor, change)`; a document key stands for a document; notes,
actors, timestamps and segment keys are left out (no producer in the code puts a
segment in a subject). A target is a branch or another Contract's worktree HEAD.
`PrerequisitesReach` is the graph search of `eligibility.ts`, written as "every
prerequisite-closed set that holds the prerequisites holds `c`", which is what
that search computes and what can be proved about without recursion.

**ContractLedger** is what keiyaku promises. State: `journal` (entries per
Contract), `state` (the fold of each journal), `ref` (the history each target
names). One action per verb; `Admit` is the effect of one admission: append,
fold, and the target's movement compared with where the target stands.
`ForeignCommit` (a push, a user's commit) and `Provision` (a worktree comes into
being at its Contract's start) are the world. A delivery may have been integrated
on any head its target has had, because the code lets the target move after
planning; a reintegration is planned on the head the target has when it is
admitted, because the root and target are compared under the fence.

**ContractProtocol** is how it is done. `proc[w]` is one process: its phase,
attempt, the intent, what it read or prepared outside custody (`source`, `prep`),
its `offer`, and its `result`. The phases follow the code's calls:

| phase | code |
|---|---|
| `fencing`, `unfencing` | `runUnderTargetPlacementFence` (place, reintegrate), the fence of a bind onto a Contract's worktree |
| `reading` | the one read an operation makes for all its attempts: amend's source terms, Verification's snapshot, the movement a placement prepares for |
| `external` | `prepareBindCoordinates`, `prepareDeliveryArtifacts`, `planReintegrationArtifacts`, review's capture: once per attempt, outside custody |
| `waiting` | `acquirePrivateStateSeatLock`, 15 s |
| `seated` | fresh observation, witnesses compared, decision: `Decide<Verb>` |
| `publishing`, `rejected`, `unknown` | `updateRefsAtomically`; `publicationPremiseMoved`; `classifyUnknownAttempt` |
| `closing` | the seat's release, then the next attempt (`runBoundedAttempts`, three at most) or the end |

`root` counts the commits of the private ref. `Commit` compares `root` and every
asserted ref with what was observed and then appends, folds and moves in one
step, as Git's transaction does. `Kill` is Git dying on a signal before or after
it committed. `Crash` is the death of a keiyaku process at any point: its locks
vanish, and if it was publishing, its Git child becomes an *orphan* that commits
(if its premise still holds) or dies at any later time. `Edit` rewrites a
worktree. `RejectSpurious`, `RecoverFails`, `CloseSeatFails` and `UnfenceFails`
are the failures the code has handlers for.

**TargetCheckout** follows a delivered Contract to its target. `op[p]` is a completion
(`completeCandidate`) or the reconciler, by the step it is at; `integration[c]` is
the Contract's current predecessor and snapshot, `head` and `moves` the target. A
checkout is what Git's own judgement depends on: its `index` and its files, `work`,
per path. `Merges` is `git read-tree -m -u`, as Git does it: a path that the movement
changes is taken when index and file are the predecessor's, left when the index is
the candidate's already, and otherwise refuses the merge; an untracked entry under the
ignore rules does *not* refuse it, it is overwritten. `Precheck` is
`ordinaryPrecheck` with its order (the dry run first), `Classify` is
`classifyCheckout` with its four shapes, `Follow`, `MendIndex` and `MendWorktree` are the
merges that write. `DieMerging` is a death between the files and the index of one
merge. Pushes take no fence. `Place` and `Replan` judge under the fence and the seat, as
ContractProtocol's `DecidePlace` and `DecideReintegrate` do in full. A publication (`Publish`)
of a claim or of a new integration is one step when Git answers (`Admit`). Git may be killed
instead (`Kill`), before or after its transaction took effect; `doubt` then keeps the truth,
which no process sees until it reads the journal again (`Recover`), and that read may fail too
(`RecoverFails`). A path holds its original, a contract's change, a push or a user's
bytes, which is all that the merges can tell apart.

**ManagedWorktrees** is one reconciliation after the other, each in the code's steps:

| phases of `op[p]` | code |
|---|---|
| `opening`, `appointing`, `dismissing` | `withPlaceAuthorityFence`: read the register under its lock, write it |
| `locking` | `reconcile`: the Contract's own lock, waited for without limit |
| `fencing` | `reconcileFreshEffects`: the incoming fence (5 s), then the head compared, four attempts |
| `surveying`, `locating` | `git worktree list`, *then* the place from the register |
| `pinning`, `realizing` | `reconcileActiveManagedWorktree` |
| `keeping` .. `removing` | `reconcileTerminalManagedWorktree`, `removeSealedTerminalWorktree` with its looks before and after the destroy hooks |
| `weighing` .. `releasing` | `releaseTerminalCustody`, one ref transaction each |

A repository's reconciliation is two rounds over its Contracts, the first of which
retains terminal worktrees, and then the release of the places of those that left no
lag (`completeRepoReconcile`). Around it Contracts are bound, deliver, are claimed or
abandoned, a child lands in a worktree under that worktree's fence, users edit and
delete worktrees and rewrite the target, hooks write and fail. A worktree's content
is the commit it stands on and a count of edits; `late` remembers what changed after the
cleanup's last look, which no check of this kind can see. "Observed again, up to the
fourth time" is a choice between again and giving up. The recovery of target checkouts
that opens a reconciliation is TargetCheckout's.

**DebtStore** has one action per step of `debt/store.ts`: the locks of the files a command
names in their order, the read, the judgement (`JudgeCreate`, `JudgeUpdate`,
`JudgeLifecycle`, `JudgeSettle`), the comparison before each rename, the rename or its
failure before or after it. **DebtViews** is the pure side: `board.ts`, `catalog.ts`,
`query.ts`, with the cycle search as it is written (recursively; so it is only model-checked).
**Settlement** puts Contracts and processes on top: `holder[d]` is the record in the
private root, `fence` one lock per debt, `seat` the publication seat, `proc[w]` an
invocation (bind, acceptance, abandonment, settlement or a debt command). The hint outside
the fence, its confirmation under it, the completion of the debt by the debt store, the
release under the seat, the unknown outcome and its fresh read are separate steps.
**DebtOwnership** is the promise without any of that: a debt has at most one current
holder, only a claimed holder completes it, and only then is it released.

**AkumaHeart** translates `akuma/heart`: its variables are the tables, and every action is
one `withHeartTransaction` (`BEGIN IMMEDIATE`), with the judgement that it makes
beside it as `<Verb>Outcome`. A Body, a Turn and a Tell are named by their sequence;
`Drain` is `drainPendingTells`, `Protected` is `isTellProtectedByPause`,
`Completion` and `Consumed` are `completeInterruptBarrier`, `MayDispose` is
`decidePendingTellDispositionInHeart`.

**AkumaBodies** is everybody around that database:

| state | code |
|---|---|
| `leash` | `HeldAkumaLeash`: an exclusive lock that dies with its process |
| `host[h]` | one process that runs `driveAkumaBody`: its `phase`, its Body and Turn, what its supervisor last `seen`, whether its signal is `aborted`, the Tells `drained` for its Turn and `tried` live, the Tell in its `pump`, whether its provider is `live`, how the Turn is to `end` and the process to `exit` |
| `handing[a]` | `resolveDecidedPendingTellDisposition` and `handoffPendingTells`, run by the host that decided or the client that recovers after a kill |
| `client[c]` | one `tell`, `interrupt` or `kill` of `AkumaOwner`, to its result |
| `provider` | does the adapter's session take live Tells; does it receipt them |

| phases of a host | code |
|---|---|
| `launched` .. `recording` | `takeLeash`, `prepareBodyStart`, the wait for work, `recordBody` |
| `choosing`, `refreshing` | the loop of `runBodyTurns` with `finishBodyIfIdle` and `supervisor.refresh` |
| `beginning` .. `launching` | `startTurnDrive`, `establishTurnDrive` |
| `driving`, `retiring` | `consumeTurnDrive` with its Tell pump and receipts, `retireProviderCustody` |
| `persisting` .. `breaking` | `persistTurn`, `failOpenBoundTurns`, `breakBody` |
| `putting`, `closing`, `releasing` | `putDownBody`, `finishBody`, `leash.release` |

One action is one transaction, or the local work up to the next one. Reads that
nothing can come between are merged into the step that uses them: the stop that
`PrepareStop` finds, the opening of the supervisor with the record of its Body, the
client's read before a spawn, its judgement with the release of its leash. The
supervisor polls every 100 ms; `Observe` is such a poll in a phase that uses what
it saw, and it may come arbitrarily late. The pump's binding may commit after its
Turn is over, as it may in the code. The birth host starts with its Soul published and
the leash in hand.

**HeartTimeline** is the same database seen as one timeline that outgrows its limit. `heart`
holds every fact ever inserted, the `rows` that are retained, and the tables whose rows go when
these go: `ends`, `deliveries`, `receipts`, `members` of open dispositions. `Prune` is
`pruneActivityFacts` as every transaction calls it, with the flag that says whether the
transaction released something; `ProtectedTurns` and `Protected` are its two common table
expressions; `Cascade` is what the foreign keys of `heart/schema.ts` do. A receipt for a fence
goes with its Turn, one for exactly a Tell with the Tell (`Receipted`). The judgements on Bodies,
control and dispositions are those of AkumaHeart, cut down to what decides the order of the
calls. Sequence numbers are never reused (`AUTOINCREMENT`), so a fact is its place.

**TimelineProjection** is what readers make of it, without state: `Ledger` is `projectTurns`
(a finish takes the place of its start, an answer takes the last word said, the tools of a Turn
that is over are unsettled), `Snapshot` is `selectSnapshot` with its window, pins, tail, voice
and gaps. `Status` and `Timeline` (in HeartTimeline) are `readStatusBatch` and
`activityFactSlice`: the few rows a status reads and all that there are.

**AkumaCalls** is the Akuma from the outside, before its first Body and after its last.
`entry[a]` is an Akuma's directory: the files that are `ready`, its `soul` and `seal`, the end
of its latest Body, whether input is `pending` and whether it is `aged`. `holder` has the
leashes, the publication seat and the lock on names; `host[a]` runs the Body that a launch or
a wake started; `call[p]` is one call or fork, by the step it is at.

| steps of a caller | code |
|---|---|
| `Allocate` .. `Launch` | `prepareCall`, `initializeAllocatedAkuma`, `launchAkuma` |
| `SealLocal` | `sealLocalFailure`, `discardPreparedCall` |
| `AwaitBirth`, `TimeOut`, `AwaitAsleep` | `awaitBirth` (each poll), `settleTimedOutBirth`, `awaitAsleepBirth` |
| `Settle`, `CloseBirth`, `Judge` | `settleLaunch` before and after the termination; `durablyBorn` |
| `FirstTell` .. `Watch` | `admitCallInitialTell`, `wakeRecordedTell` |
| `Associate` .. `ReadBack` | `dispatchStage`, `forkDispatchStage`, `publishDispatch` under the seat |
| `TakeAliases`, `MoveAlias`, `Answer` | `resolveAliasStage`, `moveAlias`; what the caller is told |
| `LookForIdle` .. `RemoveHeart` | `sweepInactiveAkumas`, `retireCandidate`, `retireInactiveAkuma`, `removeAkumaCustody` |

A judgment of a birth is a look and a write under the leash, in two steps (`Grasp` and
`Conclude`; `HostLooks` and `HostBears`), because the Seal lies in the leash's database and the
Soul in the heart's. The waits of a call (30 s for the birth, 1 s for a host to leave, 15 s for
the seat) are choices: a `TimeOut` may come at any time. A Body is one step from record to end
here (AkumaBodies has its inside), and a second host, which would find the leash held and
leave, is not kept. `late` marks input recorded after the last look of a sweep, which the code
documents as its one best-effort boundary (`akuma/retention.ts:86-88`). A Git child that
outlives its caller is an orphan, as in ContractProtocol. What became of a Dispatch is the
`stage` of an answer: the code's "failed" is "failed" here when it rests on what was read
(`conflict`, `publication-failed`) and "thrown" when an exception was caught on the way
(`infrastructure`, `authority-corruption`), which `ReadBack` may come to after a killed Git, with
the Dispatch there or not. `MoveAlias` may fail before its rename or after it, when the
directory's sync or the lock's close throws.

**ProcessGroups** is `executeProcess` with `terminateOwnedProcess` (POSIX). `proc[o]` is a
runtime's latest child: whether its `leader` lives and with what `code` it left, whether the
rest of its group, the `crew`, lives and `keeps` the output open, whether the exit was `seen`,
what it is being stopped for, and the one termination: `sent` (SIGTERM), `grace`, `polling`
(after SIGKILL), `leader`, `done`, or `refused` (EPERM) and `failed`. An outcome needs the
output closed and the termination done; a failed termination is thrown. Processes that leave
their group are out of the code's reach and of the model's.

**VerificationScratch** is one attempt by the step it is at: `adding` and `undoing`
(`materializeScratchCandidate`), `settings` .. `checking` (`runScratch`), `cleaning` ..
`retiring` (`retireScratch`), `replacing`, `moving`, `falling`, `busy` (`retainScratch` and its
fallback), `closing`, `unlinking` (the end of `dispose`), or `lost`: the destroy hook's group
could not be ended, the attempt is thrown past its retirement, and its lock stays with the
process. `scene[p]` says whose worktree is at a path, and `lock[p]` who holds the lock file
that is at its name *now*; unlinking that file leaves its holder with a lock that no one else
sees. A reconcile lists, then tries one lock after the other. A hook phase has at most
`Commands` commands; `git worktree add`, `remove` and `move` may fail before or after they
took effect.

A definition introduced by "Mutation:" (`MayPlaceEarly`, `AdmitUncompared`, ...)
is a plausible bug that takes the place of the definition it precedes, to see that a
property notices; no specification refers to it. `PROJECT.json` pairs each property
of each run with one.

## 3. Runs

| run | module / cfg | asks | distinct states |
|---|---|---|---|
| `ledger_order` | `MCContractLedger` / `LedgerOrder.cfg` | two interchangeable Contracts, one branch: is every order of facts acyclic, do prerequisites land first, is no landing lost | 494,664 |
| `ledger_gates` | `MCContractLedger` / `LedgerGates.cfg` | one gated Contract, two testimonies: was what is claimed judged, is an end final, does the fold accept every offer | 1,038,331 |
| `writers` | `MCContractProtocol` / `Writers.cfg` | two racing processes with edits, pushes, a death and a Git failure: is the ledger implemented, are verdicts true, is nothing admitted twice or for nothing, is what is offered about a worktree what it holds, does every operation end | 379,404 |
| `target_checkout` | `MCTargetCheckout` / `TargetCheckout.cfg` | completions and the reconciler against pushes, users, deaths and a Git that is killed as it publishes: do completions end and report the truth, do users' bytes survive, does a checkout that merely missed a movement catch up | 243,352 |
| `managed_worktrees` | `MCManagedWorktrees` / `ManagedWorktrees.cfg` | two reconcilers against Contracts that move, landings, users, hooks and a death: are places, bytes and refs kept, is everything cleaned up in the end | 428,820 |
| `settlement` | `MCSettlement` / `Settlement.cfg` | Contracts and debt commands against one debt, with a death, a lost answer, a person's editor: is ownership kept, is a report true, is nobody's write lost, does everyone end, do the views agree | 93,202 |
| `akuma_calm` | `MCAkumaBodies` / `AkumaCalm.cfg` | two clients, any provider, no fault: does everyone end, is what a teller hears true, does an interrupted Body never take the interrupting Tell, is a taken Tell never handed over again | 370,122 |
| `akuma_faults` | `MCAkumaBodies` / `AkumaFaults.cfg` | one death, failed Turn or provider that does not retire: does custody of a provider end with its record and never earlier or later | 804,745 |
| `akuma_calls` | `MCAkumaCalls` / `AkumaCalls.cfg` | two callers and an old Akuma, with timeouts, an abort, a failure (of a host, a killed Git, a failing read or file), a death, lookers, Tells: has every child one fate, are callers told the truth, is nothing retired that is needed, does every call end | 104,029 |
| `akuma_dispositions` | `MCAkumaBodies` / `AkumaDispositions.cfg` | is every disposition of pending Tells settled? **Violated** | 3,860 to the counterexample |
| `verification_scratch` | `MCVerificationScratch` / `VerificationScratch.cfg` | attempts with hanging, lingering and failing commands, aborts, deaths, two retirements into one slot, reconciles: is there one hand per scene, does no scene go early or stay unreported, does every limited or aborted attempt end | 218,093 |
| `heart_timeline` | `MCHeartTimeline` / `HeartTimeline.cfg` | a timeline of two rows, five facts, two Bodies and two Tells with every end, receipt, interrupt and disposition: does pruning take something still needed, does a told Tell turn pending, can a follower miss a row, does a status agree with the timeline | 178,729 |

`ImplementsLedger` is the refinement `ContractProtocol => ContractLedger!Spec`
under the identity on `journal`, `state`, `ref`. It is `Ledger!Spec`, spelled so that
TLC asks `Ledger!Next` only of steps that change the ledger, and `Ledger!Fact` only
of the Contract whose journal grew (every `Fact(c)` makes `c`'s journal grow and no
step of the world does). Through it, every invariant of the ledger holds of the
writers. `PromiseKept` is the refinement `Settlement => DebtOwnership!Spec`.

**Finding.** *An open disposition.* A Body is put down to hand its pending Tell over. Before its
successor has the leash, a teller wakes a host of its own, whose Body takes it and
breaks off. The successor finds the leash held and exits; `src/akuma/body.ts:517`
takes "held" to mean that the predecessor still holds the leash and leaves the
disposition open. When all is quiet, the Tell has neither a successor that took it nor
an undelivered projection, of which `docs/akuma-execution.md:133-135` says "no path".
A later tell or kill picks it up.

`TakenOnce` speaks of what a *provider* took. An undelivered projection may be
recorded while another host's Body is launching the same Tell; the documents ask for
that projection whenever a spawn fails, and promise delivery at least once.

*Answers that do not know.* Three error paths report a failure of what did take effect, and
the properties say so instead of promising more. Git is killed after it committed a claim and
the reading back fails too: `runPlacement` reports a failed placement, or a cancellation passes
through (`src/protocol/attempt.ts:206-213`, `src/protocol/placement.ts:222-231`), and the
Contract is claimed; `HonestOutcome` admits that for such a killed Git only, and never as a
verdict on the candidate. The same of a Dispatch is answered as an `infrastructure` failure
(`src/dispatch/index.ts:228`, `src/library/akuma-creation.ts:244-246`), which `HonestCall`
admits only after a killed Git. And an alias may be answered "failed" though the name has moved
(`src/coordination/durable-file.ts:27-28`), so that another call that was told "aliased" has lost
its name to one that was told it had none; `HonestCall` names that one as the only kind of taker
beside a call that was told it got the name.

*Read, and not run.* `ordinaryPrecheck` (`src/git/target-placement.ts:302-321`) first tries the
follow with a dry run. If that fails, say because the user has edited a path the movement
changes, it returns "not-followable" and never looks for ignored entries; the checkout gets an
arm all the same, because a checkout that cannot follow does not veto a placement. If the user
discards that edit before `followTargetPlacement` runs, the merge now succeeds and overwrites an
ignored file that was there from the beginning (TargetCheckout reaches this in eleven steps).
`docs/git.md:140` says of this very collision that it "is refused before the journal admits
rather than followed". `UserBytesSurvive` holds with exactly this gap, and with that of an entry
written after the look.

`pruneActivityFacts` (`src/akuma/heart/timeline.ts:68-87`) protects open Turns, their calls and
ends, but not the activity of an open Turn: the start of a tool that still runs can be pruned,
and the Turn's status then shows no such tool, where `docs/akuma-heart.md:68` says that
compaction retains open work. The launch Tell of an open Turn may go as well; a call may not.
And `selectHistory` (`src/akuma/projection-read.ts:261-264`) takes an interval as lost when the
lowest retained row lies beyond the cursor; an old Turn that pruning protects keeps that row
low, so that a history whose cursor stands in the pruned interval after it reports nothing
lost, where `tests/akuma-public.test.ts:375` is named "forward history reports a pruned
interval after its cursor". HeartTimeline reaches both in six steps. A Tell that was told and
pruned is recorded anew when its identity is tried again: `recordTell` can no longer see it. A
status read before the first Turn has begun and after a Tell was given up as undelivered says
"unborn", as that Tell is not among the rows it reads; `StatusAgrees` speaks of the time after.

A Body's host dies. A woken host clears the control that an earlier
life left (`prepareBodyStart`), in a transaction of its own. Then a killer finds the dead
Body still open and records a stop for it, and only then the new Body is recorded.
`requestStop` throws "Akuma stop target is not the latest Body" for as long as the
new Body runs, where `docs/akuma-execution.md:187-188` says that a running Body is
asked to stop (`src/akuma/heart/index.ts:603`; AkumaBodies reaches that state).

`assembleDeliveryAttempt` (`src/protocol/deliver.ts:458`) returns the
refusal that a preparation found outside custody before it compares the worktree witness;
an edit that resolves the conflict in between does not help, where
`docs/lifecycle.md:133-137` says that a spent preparation is "never a public business
refusal". The next call succeeds. In Settlement, a dead binder whose orphaned Git child
still commits could take a debt while a settler holds its fence, and that settler would
then pay for the older holder; `docs/settlement.md` says it cannot. The scenarios let only
settlers die, so `PromiseKept` is claimed for live binders.

`operational()` (`src/settlement/settle.ts:55-63`) does not list the contention of the
publication seat, which `protocol/progress.ts` and `git/reconcile.ts` do. A settlement that
waits 15 s for the seat in vain is therefore not a lag of its Contract but an exception, and
`settleAll` loses the settlement of every other Contract with it; `docs/settlement.md:35` and
`docs/git.md:39-40` promise lag.

A fork whose child was born, but whose first Body did not exit cleanly, is answered
"upstream-forked" without the child's identity (`src/akuma/akuma-owner.ts:542`), though the
child runs; `HonestCall` has that case as it is. A death between the removal of an entry's
leash and of its heart (`src/akuma/custody.ts:35-48`) leaves an entry that nobody can take
and no later sweep retires. A caller that is suspended for fifteen days between its child's
birth and its Dispatch, and is then killed with the Dispatch under way, can have that Dispatch
committed by its orphaned Git child between a sweep's judgment and its removal;
`docs/akuma.md:93-98` says that none can appear there. The scene in which a caller's own child
grows old has no death, so `RetiredUnneeded` is claimed for living callers.

`docs/verification.md:126-128` says that a failed destroy action "is reported separately". When
the group of a destroy hook cannot be ended, `runProcess` throws through `retireScratch`
(`src/verification/execution.ts:293-303`): the verdict of a check that has run is lost with the
attempt, its scene is neither removed nor kept, and its lock is held until the process ends.
This is the state `lost`, which `AttemptsEnd` allows. When the group of a command of an
*aborted* attempt cannot be ended, the attempt is "cancelled" and the failure is swallowed
(`src/verification/execution.ts:276-281`): the command may live on and nothing says so.
`HonestRetirement` exempts a group whose termination failed.

**Bounds.** Each is named in a `CONSTANT`.

* `Limit[kind]` (the constants `Binds` ... `Ends`) caps how many facts of a kind one
  journal takes and `MaxHistory`, in `MCContractLedger`, how long a branch grows: the ledger
  itself asks `Room`, which the writers and the proofs leave unbounded. One of each kind
  is enough for the orderings between two Contracts to differ; the gates run has two
  testimonies, an amendment, a delivery and a reintegration in one journal, so
  stale favourable, stale unfavourable and overriding verdicts all occur.
* `MaxUlid` is the number of identities per Contract; `MCMint` takes the least unused
  one, which loses nothing because identities are only compared.
* `MaxOps` is three operations per process; `Scenarios` names the agendas and the
  number of edits, foreign commits, deaths and failures of each. A second process
  always finds the first one's fact, its lock, or its orphan in its way; three
  attempts per operation are the code's own bound, `MAX_SEMANTIC_ATTEMPTS`.
* `MaxHosts` is three: a birth, and two of wakes and successors, which is enough for a
  decision, its successor and a stranger between them. A spawn beyond it fails, as a
  spawn may. Two clients with one operation each, over the pairs that the run's agendas
  name; `MaxFaults` bounds faults of all kinds in `Faults` together. In `akuma_calm`
  the second Tell carries a schema; its pair of equal interrupts is a retry.
* In TargetCheckout three paths suffice: one that everybody may write, one that the ignore
  rules cover, one that only the second Contract writes. Five pushes are more than a
  completion follows (three cycles); three edits let a user dirty, clean and dirty a path
  around one follow. Deaths, operational errors and killed Gits are at most one per scenario; a
  second transaction of unknown outcome would meet the same journal as the first.
* In ManagedWorktrees there are two Contracts and three places. `Rank` is the order in which
  a Contract tries the places, the code's hash of it; `MCRank` gives both the same, the worst
  case. What a round still has to do is a set, taken in any order. One process reconciles one Contract once, the other the repository for ever;
  a third would find the same locks. Each scenario (`Tenants`, `Claims`, `Works`, `Faults`)
  spends one of each of the disturbances it is about.
* In AkumaCalls there are two callers and one Akuma from before, two names and two Contracts.
  A birth is checked with one caller and every disturbance that can meet it (an abort, a
  failure, a death, a looker that holds the leash for a moment); Dispatches and names with two
  callers whose children are just born; sweeps with two sweepers or a Tell and a wake of
  somebody else. What is fifteen days old is a choice that activity takes back. `Scenarios`
  names the scenes and how often each kind of trouble occurs.
* In VerificationScratch there are two attempts of one requirement, one slot and two
  reconciles. `Lives` has one attempt with every outcome of its commands, an abort and up to two
  failures, and again beside a reconcile; `Retirements` starts two attempts where they
  retire, into one slot that holds an older scene; `Remains` has a death in one of them. Two of
  each are what it takes to get a lock file unlinked between two others.
* In Settlement there are two processes, up to three debts (a relation needs two, a cycle
  of relations that is not its own reverse three), one death, one killed Git child, one
  failing lock, one edit by hand.
* In HeartTimeline the timeline keeps two rows (`Limit`; the code 5,000) and prunes after one
  more (`Slack`; 500), so that every boundary lies within the first facts; `MaxFacts` is five and
  `MaxBodies` two: a Turn with its call and end, a Tell and one fact beyond, or a second Turn
  over a first one that was left open. Tail and voice of a status are one row each.
* `SYMMETRY` is used in `ledger_order`, whose properties are invariants, and in
  `heart_timeline`, which checks no liveness; the constants treat the two Contracts, and the two
  Tells, alike.

`CHECK_DEADLOCK FALSE` in `LedgerOrder`, `LedgerGates`, `Writers`, `Settlement`,
`TargetCheckout`, `ManagedWorktrees`, `HeartTimeline`, `AkumaCalls` and `VerificationScratch`: a bounded ledger fills up
and a bounded agenda ends. In the runs of AkumaBodies the deadlock check is on, and
`Terminated` is the only state in which nothing moves. That no process waits for ever is
`OpsEnd`, `InvocationsEnd`, `CompletionsEnd`, `CleanedUp`, `CallsEnd` and `AttemptsEnd`, not the absence of
deadlock. A module's type invariant is the first conjunct of one of its properties; the ledger's is
proved (`LedgerTyped`) and not run.

**Fairness.** `LiveSpec` has weak fairness of each process's own `Step`, and of
nothing else: no fairness of faults, of the world, or of beginning an operation.
It is justified by bounded waits (5 s for a fence, 15 s for the seat), by Git
answering or being killed by its process, and by a process being scheduled until
it ends or dies.

`Settlement!LiveSpec` has weak fairness of each process: the locks of the debt store (3 s,
then "busy") and the seat (15 s) are waited for with a limit, the fence of a debt without
one, so that its release by every path of its holder is what `InvocationsEnd` rests on.

`TargetCheckout!LiveSpec` has weak fairness of each completion and of the recovery, and
strong fairness of the reconciler's taking up a claimed Contract and of its getting the fence:
later commands reconcile every claimed Contract again and again, and a reconcile that finds
the fence taken (5 s) reports a lag and comes back. Users are under no fairness. What is
not promised: a checkout torn between the files and the index of one merge, or one whose
branch has moved on since, is retained for good ("never adopts an older ancestor").

`ManagedWorktrees!LiveSpec` has weak fairness of each reconciliation that has begun, of one
process that reconciles the repository again and again, and of a landing that holds a
fence. The reconcile lock is waited for without limit.

`AkumaCalls!LiveSpec` has weak fairness of each caller's step, of each host and of the
momentary looks at a leash. A host that hangs in its Body's Turn is AkumaBodies' matter; a
launch that does not bear its child is timed out, whatever its host does. The lock on names is
waited for without a limit, so its release on every path of a sweep is what `CallsEnd` rests on.

`VerificationScratch!LiveSpec` has weak fairness of each attempt's own steps, timers among
them, and of SIGKILL. A command is under none: it may hang, ignore SIGTERM or leave others
behind that do. The slot is waited for with a limit (120 s), as a removal is.

`AkumaBodies!LiveSpec` has weak fairness of each host, each handover and each client.
It is justified by a process being scheduled, by supervisors, waits for the leash and
watches of a launch polling every 100 ms, and by a provider that answers or retires in
the end; one that does not is the fault "hang", which `akuma_calm` excludes.

**Environment.** Others advance refs and never rewind or delete them. Git's
multi-ref transaction is atomic even when the process is killed. SQLite's lock
dies with its holder. Git's two-tree merge writes nothing when it refuses. A `git worktree
remove` or a `git read-tree` that outlives its keiyaku process is not modelled; orphaned ref
transactions are, in ContractProtocol, Settlement and AkumaCalls. In TargetCheckout a transaction
that was handed to Git takes effect by the death of its process or not at all (`Die`): its
properties speak of what processes that live are told and of checkouts, and a claim that comes
later still is a landing in the target like another's.

## 4. Theorems

For every value of the constants that the assumptions admit:

| module | theorem | says |
|---|---|---|
| `ContractLedgerProofs` | `LedgerWellFormed`, `LedgerTyped` | `TypeOK`; a journal and its state exist together; every integration is its change on its predecessor |
| | `EndedForGood` | `TerminalLast` |
| | `LandingsStay`, `PrerequisitesLanded` | `NoLostLanding`, `PrerequisitesLandFirst` |
| | `LandedWasJudged` | `ClaimedJudged`, for a journal of any length |
| | `NeverCircular` | `AfterAcyclic`, however long the chains |
| | `OffersFold` | `FoldNeverThrows` |
| `ContractProtocolProofs` | `WritersImplementLedger` | the refinement `ImplementsLedger`, for any number of processes and any agendas |
| | `WritersKeepTheLedgersPromises` | through it, the ledger's invariants of the writers' journals |
| | `VerdictsAreTrue` | `VerdictTruthful` and type correctness |
| | `OffersWitnessWorktrees`, `NothingIsAdmittedTwice` | `WitnessedContent`, `NoRedundantFact` |
| `SettlementProofs` | `OwnershipIsKept`, `ReportsAreHonest` | the refinement `PromiseKept`, and `HonestReport`, while no dead binder's ref transaction is under way |
| | `NothingIsClobbered` | `NeverClobber`, for a person who edits files but makes and deletes none |
| `TargetCheckoutProofs` | `CompletionsAreHonest`, `UsersKeepTheirBytes` | `HonestOutcome`, `UserBytesSurvive` |
| `ManagedWorktreesProofs` | `WorktreesStandAtTheirPlaces`, `CustodyIsKept` | `PlacesHeld`, `CustodyKept` |
| `VerificationScratchProofs` | `OneHandAtATime`, `RetirementIsHonest`, `ScenesGoOnlyByRight` | `OneHand`, `HonestRetirement`, `ScenesKept` |
| `AkumaCallsProofs` | `OneFateHolds` | `OneFate` |
| | `CallersAreToldTheTruth`, `NothingNeededIsRetired` | `HonestCall`, `RetiredUnneeded`, for any number of callers, Akumas, names and Contracts |
| `AkumaBodiesProofs` | `CustodyEndsWithItsRecord`, `WakersHearTheTruth` | `CustodyEnds`, `HonestWake` |
| | `InterruptedBodyNeverReceives`, `TellsAreTakenOnce` | `InterruptedNeverReceives`, `TakenOnce`, for any number of hosts, clients and Tells |
| | `PruningTakesNothingThatIsAwaited`, `ReadersAreNeverOvertaken` | HeartTimeline's `PruningIsSafe` and `RowsOnlyAppend`, for any limit, slack and number of facts |

The assumptions are the named `ASSUME`s of the modules, which TLC evaluates in every run:
mostly that the names of different kinds of things differ (`None` is no value of any kind, a
branch holds no process called "landing", a path's original is no Contract), and that a scenario
is a record of the right form. Scenarios bound nothing: numbers of edits, deaths, failures,
pushes, operations and debts are arbitrary. HeartTimeline is an *instance* in
`AkumaBodiesProofs` (`H`), so its two theorems take its assumption, `TimelineAssumption`, as a
hypothesis; the run `heart_timeline` evaluates it.

**The ledger.** `FactOffered` brings each of the nine verbs to one shape: an entry
`e` that its decision offers and `Admit(c, e, movement)`. `Admission` and
`Worldly` then say what a step does to the three variables, and each invariant is
shown once for an admission and once for the world. Four inductive
strengthenings are needed:

* `WellFormed`: beside `TypeOK`, that every delivered integration appends its
  change to its predecessor, and that a state exists exactly when its journal does.
  Without the first, a claim might move its target backwards; without the second, a
  bind, guarded by the state, might be appended to a journal that has ended, and
  `TerminalLast` (inductive on top of `WellFormed`) would not hold.
* `Landed`: `NoLostLanding` and `PrerequisitesLandFirst` with "what is claimed was
  delivered". A claim extends exactly the head its target has, and a prerequisite
  that shares the target has landed there already.
* `Judged`: `ClaimedJudged` is about the journal, and the decision reads the state. `Read`
  says that every part of a state is what the journal's *latest* fact of the right
  kinds says (terms, tender, integration, testimonies with their places), which the fold
  keeps as facts are appended. The induction over the journal is therefore one over steps.
* `Ordered`: `AfterAcyclic` with "every prerequisite is a known Contract". A bind
  cannot close a circle because nobody waits for a Contract that does not exist
  yet, and an amendment is admitted only if its prerequisites do not reach it.
  Reachability is "every closed set", so the proof of the amendment exhibits a
  closed set that leaves the Contract out.

**The writers.** The invariant `WritersRemember` is about offers. An offer was decided on the
ledger of one root (`Decided`), each admission moves the root, and Git compares it: `Standing`
says that an offer whose observed root is still the root was decided on the ledger as it is
now, whether its process lives or is an orphan's. What the root does not cover is carried by
other means: preparations and sources (`PreparationFits`, `SourceFits`) by refs that only
advance and journals that only grow, worktrees and targets by what the offer asserts. Each
process's part is `Local`; `Steady` is what survives the steps of others. For
`VerdictsAreTrue` every process remembers how long a journal was when its attempt began
(`Told`), and for `NothingIsAdmittedTwice` an identity belongs to one offer (`Novel`, `Once`).

**Settlement.** `StoreInv` is the custody of the debt store: between the read and the rename
a process holds the locks of what it read, so the file's author is the one it saw.
`Holdings` says that a debt has at most one current holder in the root, `Owed` what a settler at each
step of its way knows of that holder and the debt (confirmed under the fence; complete once
the store has said so), and `Current` that an offer under way, an orphan's included, was judged
on the holder that there is. Two hypotheses, each a gap of the code and not of the proof:
`TakersLive`, as the Git child of a dead binder may take a debt whose fence is free again
(section 3); `HandsOnlyEdit`, as `create` takes the allocation lock only, and a person who makes
the very file whose identity it mints (`src/debt/operations.ts:113-125`,
`src/debt/identity.ts:100`) loses it to the rename.

**Target checkouts.** `TargetSound`: the target never returns to a commit that it left, so a
comparison that failed once fails for good (`Onward`). `Own`: while a process holds the
fence nobody else claims or integrates; a completion that integrates again does so behind a
target that moved once more (`Outrun`), which bounds its cycles; while an outcome is unknown,
`doubt` says whether the claim stands, and only a stop for want of that knowledge ends with a
claim that is not reported; what a user may lose to a merge
still to come was written after that checkout was searched (`Secured`); the reconciler's
snapshot is the commit that the target showed when it looked (`Recoverer`).

**Managed worktrees.** Nothing is locked between the parts of a reconciliation. `Custody` and
`Tenancy` say who holds each lock and who may have a worktree where; `Memory`, `Ends` and
`Cleanup` say what a process may still rely on: a Contract that it noted as ended has ended, and
once its worktree is cleaned up there is none at its place, whichever place that is by now.

**Verification scenes.** `Locked` and `Collecting`: an attempt from its beginning to its last
release, and a reconcile that removes, hold the lock file that is *at the path*. A file is unlinked
only where no scene is left and its attempt owns nothing (`Forsaken`), so the holder of an
unlinked file no longer works. `Told` and `GroupKept` say what each place of an attempt owes and what
is left of its commands; these carry `HonestRetirement` and `ScenesKept`.

**Births.** The Soul and the Seal lie in two databases, so that nothing but the leash
keeps both from being written, and the invariant `Fate` says how:

* `Seating`: who runs a Body has its leash; `Bearing`: a host about to write the
  Soul has looked for a Seal under it, and there still is none.
* `OwnLeash`: a caller has its own child's leash only in the three judgments of a
  birth or while it retires it; `Looked`: what it saw undecided under the leash is
  undecided until it lets go. Two lemmas carry it: a caller looks once, when it
  takes the leash (`LookedOnce`), and what is undecided stays so while a caller
  keeps it (`HeldUndecided`).

Without `Looked` a step might seal a child that was born since the look, without
`Bearing` bear one that was sealed. Types are needed only as far as records keep
their fields (`Shape`).

What a caller is told is the conjunction `Honesty`: who is seated where (`Hosts`, `Launches`),
which locks a caller has at each of its steps (`Custody`), what each judgment of the birth came
to (`Verdicts`), and what an answer will say of Contract and name (`Stages`, `Moves`). A Dispatch
is its caller's own or its orphan's (`Orphanage`), so what was read back stays, and where the
reading failed, an association that is there is the one that a killed Git published; a name moves
under its lock alone, so the table that a move replaces is the one it read, and whoever has a name
in place of a caller that was told "aliased" tried to move that very name (`Reported`). `Seen` ties this to `Fate`:
what is undecided under a caller's leash, that caller has seen to be so. Each part is shown once
for the steps of the caller it is about and once for everybody else's.

What is retired is `Retirement`. The sweep judges one reason after the other (names, Dispatch,
what is under way), and `Judgments` says that each verdict stands until the entry is gone: the
name lock and the seat keep new references out, the leash of the victim keeps hosts out, and what
is pending by then came after the last look (`late`). Two parts came from attempts that were not
inductive: `Freshness` (who is not launched yet has no place that a sweep could find) and
`Mortality` (where a Git child may outlive its caller, no caller's child grows old), which is the
boundary within which `RetiredUnneeded` is claimed (section 3).

**Inside an Akuma.** The argument is about the leash (`OnlyTheLeashHolderIsInside`). A host
between its launch and its end holds it (`Seat`), so there is at most one, and what it knows of
its Body and Turn nobody else changes (`Work`, `Pump`): the Body is the latest, and only its own
Turn is open. `Memory` is what it knows of Tells: what it saw pending between two Turns no
provider has taken, and within a Turn what was taken since is among what it tried. Everybody else
only adds Tells, receipts, controls and barriers (`Undisturbed`). A barrier protects while it stands;
it is consumed only under the leash with no host inside the Body that it bars, and no host ever
comes back into a Body (`Barred`, `HostsStay`). Each step of the heart is then one of a few kinds
(`HeartMoves`, `Paused`), proved once per transaction, and each action names its kind.

**The timeline.** The theorems are the last part of `AkumaBodiesProofs`. The invariant,
`TimelineInv`, was first checked by TLC with six facts. It says that the heart is `Sound`: a fact
of a Turn comes after the Turn's start (`Chronicle`), an end's two rows are there (`EndsAreKept`),
what refers to a row finds it (`Decodes`), an open Turn has its start and its calls
(`OpenIsKept`), a retained Tell is the last of its identity and the Tells of receipts and open
decisions are retained (`TellsAreKept`), and a delivery has its Turn and Tell
(`DeliveriesAreKept`); and that the Tell of a standing interrupt is there, untold and in no open
decision (`Barrier`).

* *What is told stays told.* A told Tell would turn pending if its delivery went before it. That
  is why `DeliveriesAreKept` also says that the Turn of a delivery ends *after* the Tell: a
  cutoff that takes such a Turn takes the Tell with it.
* *One lemma about pruning.* Whatever the cutoff (one exists, as rows are finitely many), the
  rows that are kept are `Closed` under all that the rest refers to (`RetainedIsClosed`).
  A Sound heart stays so when a fact is `Appended`, when something is `Noted` about its Tells,
  and when it is `Trimmed` to a closed set; each transaction is one or two of the former and then
  the latter.
* *Readers.* Activities protect no row of their own, so pruning takes the oldest of them and with
  a start that is retained its finish is retained too; and a Turn that has ended gets no events.
  So a tool's row, and the last word that an answer folds, stay where they were until they go
  (`FinishedStays`, `FoldedStays`, `RowsStay`).

**Only model-checked.**

* Liveness (`OpsEnd`, `InvocationsEnd`, `CompletionsEnd`, `CleanedUp`, `AttemptsEnd`, `CallsEnd`,
  `EveryoneEnds` and the others that state fairness) and `ENABLED`: outside the prover's reach.
* `ViewsAgree`: the cycle search of DebtViews is recursive, as in the code. It is the one module
  with a recursive operator, and what a recursive definition computes for every input cannot be
  proved.
* `OwnBytesSealed`: not true for every number of processes. A reconcile reads the register, and
  appoints a place later without asking whether the Contract is still active
  (`src/git/reconcile.ts:460-461`, `src/workspace-place.ts:361-377`); a dismissal that is still to be
  written and a listing that is old (`src/git/terminal-reconcile.ts:63-90`) then let a fourth or
  fifth overlapping reconcile of the same Contract look at a worktree that is another's by
  now. Two processes, as in the run, cannot get there; `docs/workspace.md:39` promises it
  without a number.
* `StatusAgrees`: a status is counted (its gaps, its tail and voice budgets) over entries that
  are folded from the rows, and the two folds compared run over different rows. That they come to
  the same is an induction over the timeline's data.

## 5. What is not modelled, and why

* In the modelled part: conflict materialization into the worktree, validation of
  a fork source, "branches up to date" settings, identity collisions (a fresh ULID never collides), companion tree
  updates, candidate pins, notes and actors, progress reporting. None of them
  decides whether a fact is admitted in the scenarios checked, except that some add
  refusals before an offer is made.
* Of Git: the destructive reset (`git/nuke.ts`), create hooks of managed worktrees, retirement
  of conflict handoffs, dependent worktrees, submodules, previews, and how a Contract finds
  the checkout of another Contract that is its target (`git/target.ts`).
* Of the debts: parsing of inputs, namespaces, priorities and text search.
* Of processes: detached launches (AkumaCalls has their births), line RPC, consumers of a
  stream, Windows. A process that outlives its runtime may write where a scene was; the model
  knows that it lives, not what it writes.
* `cli`, parsing and rendering: no protocol state.
* Of the Akuma: sessions and their resumption, upgrades of the database, the reported changes
  of a status, the
  text of Tells, nuke, the observation of a waited call, deferrals of plug-ins, status
  streams.
* An Akuma that is interrupted and dies stays "untidy" until a user acts: the code is
  conservative here by design, and no property asks for more.
* Providers: third-party processes, here the environment of a host. A host's death takes
  its provider with it: it is assumed that a provider ends when its host's pipes close.
* What section 6 lists as left.

## 6. Plan

In this order; all are done, 9 in part.

1. `ContractFacts`, `ContractLedger`, its runs.
2. `ContractProtocol` as an implementation of the ledger, with faults.
3. `ContractLedgerProofs`.
4. `AkumaHeart`, `AkumaBodies`: one action per heart transaction, hosts, handovers and
   clients over them, with faults and liveness.
5. Proofs about the Akuma: one fate per child, truthful answers and sweeps
   (`AkumaCallsProofs`), custody, barriers and deliveries inside an Akuma and its timeline
   (`AkumaBodiesProofs`).
6. `Settlement` over `DebtStore`, with `DebtOwnership` as its promise, and their proofs.
7. `TargetCheckout`: the completion loop, the follow of a checkout and its recovery.
8. `AkumaCalls`: births, Dispatches, names and the sweep.
9. `ManagedWorktrees`, `VerificationScratch` and `ProcessGroups` are done; dependent worktrees and
   conflict handoffs are left.
10. Proofs of the ledger, its refinement by the writers, the target's checkouts, the managed
    worktrees, the verification scenes, births and sweeps, and the pruning of the timeline
    (section 4).
11. `TimelineProjection` and `HeartTimeline`: pruning and the readers of the timeline.
