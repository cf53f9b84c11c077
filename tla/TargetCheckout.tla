--------------------------- MODULE TargetCheckout ---------------------------
(***************************************************************************)
(* The way of a delivered contract to its target branch, and of the        *)
(* target's checkouts behind it.  A completion tries to place the          *)
(* candidate; when the target has moved it integrates again, a bounded     *)
(* number of times.  Once a placement is admitted, every worktree that has *)
(* the target checked out follows by a two-tree merge.  A process that     *)
(* dies in between leaves a checkout behind its branch, and the reconciler *)
(* mends it later, if what it finds there can only be that.                *)
(*                                                                         *)
(* Processes meet at the target's placement fence; users do not take it:   *)
(* they push to the target and work in its checkouts at any moment.  What  *)
(* admission decides is ContractProtocol's business; here it compares the  *)
(* target with the predecessor of the integration.                         *)
(***************************************************************************)
EXTENDS Naturals, FiniteSets

CONSTANTS
    None,
    Contracts, Completers, Reconciler,
    Checkouts, Paths,
    Ignored,           \* the paths that the repository's ignore rules cover
    Change,            \* the paths that each contract's delivery writes
    Scenarios

(* What a path may hold, besides the change of a contract. *)
Absent == "absent"
Original == "original"
Pushed == "pushed"
User == "user"

Endings == {"completed", "refused", "conflict", "equal", "moved", "placement-failed", "exhausted", "failed", "died"}

(* What really became of a transaction whose Git was killed. *)
Doubts == {"recorded", "lost"}

MaxCycles == 3                        \* MAX_REINTEGRATION_CYCLES
MaxAttempts == 3                      \* MAX_SEMANTIC_ATTEMPTS

Processes == Completers \cup {Reconciler}
Trees == [Paths -> {Absent, Original, Pushed, User} \cup Contracts]
Commits == [by : Contracts \cup {None}, at : Nat, tree : Trees]

(* What each completion is asked to complete, the worktrees that have the    *)
(* target checked out, the contracts whose Gates judge one candidate only,   *)
(* the paths that users push, and how often what may happen still does.      *)
Scenes ==
    [jobs : [Completers -> Contracts \cup {None}], registered : SUBSET Checkouts, gated : SUBSET Contracts,
     pushed : SUBSET Paths, pushes : Nat, edits : Nat, faults : Nat, crashes : Nat]

ASSUME TargetAssumption ==
    /\ None \notin Processes \cup Contracts \cup Endings \cup Doubts
    /\ Reconciler \notin Completers
    /\ {Absent, Original, Pushed, User} \cap Contracts = {}
    /\ Ignored \subseteq Paths
    /\ Change \in [Contracts -> SUBSET Paths]
    /\ Scenarios \subseteq Scenes

VARIABLES
    head,              \* the commit that the target names
    moves,             \* how often the target moved
    integration,       \* each contract's current integration: predecessor and snapshot
    claimedBy,         \* history: the completion that claimed each contract, or None
    fence,             \* the holder of the target's placement fence, or None
    op,                \* the control state of each process
    index, work,       \* the index and the files of each checkout
    fresh,             \* history: what users wrote since the fence's holder last looked
    scene              \* the scenario, with what is left of its budgets

checkoutVars == <<index, work, fresh>>
targetVars == <<head, moves, integration, claimedBy>>
vars == <<targetVars, fence, op, checkoutVars, scene>>

BaseTree == [q \in Paths |-> IF q \in Ignored THEN Absent ELSE Original]
Commit(author, at, tree) == [by |-> author, at |-> at, tree |-> tree]
Base == Commit(None, 0, BaseTree)

(* The tree of a merge of c's delivery with a target: the delivery began at the base. *)
MergedTree(c, theirs) == [q \in Paths |-> IF q \in Change[c] THEN c ELSE theirs[q]]
Conflict(c, theirs) == \E q \in Change[c] : theirs[q] \notin {BaseTree[q], c}

(* doubt is what no process knows: the truth about its transaction of unknown outcome, if it has one. *)
Idle == [phase |-> "idle", contract |-> None, seen |-> None, plan |-> None, cycles |-> 0, attempts |-> 0,
         since |-> 0, todo |-> {}, guarded |-> {}, lag |-> {}, doubt |-> None, out |-> None]

Init ==
    \E s \in Scenarios :
        /\ scene = s
        /\ head = Base
        /\ moves = 0
        /\ integration = [c \in Contracts |->
                            [pred |-> Base, snap |-> Commit(c, 0, MergedTree(c, BaseTree)), at |-> 0]]
        /\ claimedBy = [c \in Contracts |-> None]
        /\ fence = None
        /\ op = [p \in Processes |-> Idle]
        /\ index = [w \in Checkouts |-> BaseTree]
        /\ work = [w \in Checkouts |-> BaseTree]
        /\ fresh = {}

----------------------------------------------------------------------------
(* The two-tree merge, git read-tree -m -u from to: a path that differs    *)
(* between the two is taken from the second when the index has it as the   *)
(* first and the file is untouched; one that the index already has as the  *)
(* second is left; anything else refuses the whole merge.  An entry that   *)
(* the ignore rules cover and the index does not know is no obstacle.      *)

Changed(i) == {q \in Paths : i.pred.tree[q] # i.snap.tree[q]}

Untracked(w, q) == index[w][q] = Absent /\ work[w][q] # Absent
Unmodified(w, q) == work[w][q] \in {index[w][q], Absent} \/ (Untracked(w, q) /\ q \in Ignored)

Taken(w, i) == {q \in Changed(i) : index[w][q] = i.pred.tree[q] /\ index[w][q] # i.snap.tree[q]}
Settled(w, i) == {q \in Changed(i) : index[w][q] = i.snap.tree[q]}
IndexMerges(w, i) == Changed(i) = Taken(w, i) \cup Settled(w, i)
Merges(w, i) == IndexMerges(w, i) /\ \A q \in Taken(w, i) : Unmodified(w, q)

Overlay(tree, i, paths) == [q \in Paths |-> IF q \in paths THEN i.snap.tree[q] ELSE tree[q]]

(* untrackedRefusalWithinScopes: an ignored entry that a merge would destroy without a word. *)
IgnoredCollision(w, i) ==
    \E q \in Changed(i) : i.snap.tree[q] # Absent /\ Untracked(w, q) /\ q \in Ignored

(* Mutation: the precheck trusts the dry run. *)
PrecheckTrusting(w, i) == IF ~Merges(w, i) THEN "not-followable" ELSE "followable"

(* ordinaryPrecheck *)
Precheck(w, i) ==
    IF ~Merges(w, i) THEN "not-followable"
    ELSE IF IgnoredCollision(w, i) THEN "refused" ELSE "followable"

Judged(i, verdict) == {w \in scene.registered : Precheck(w, i) = verdict}

(* classifyCheckout: what a checkout shows of a movement it may have missed. *)
Captured(w) == [q \in Paths |-> IF Untracked(w, q) /\ q \in Ignored THEN Absent ELSE work[w][q]]
Agrees(tree, commit, i) == \A q \in Changed(i) : tree[q] = commit.tree[q]

Classify(w, i) ==
    LET carried == Agrees(Captured(w), i.snap, i)
        missed == Agrees(index[w], i.pred, i)
    IN IF Agrees(index[w], i.snap, i) /\ carried THEN "complete"
       ELSE IF missed /\ carried THEN "index-merge"
       ELSE IF missed /\ Agrees(Captured(w), i.pred, i) THEN "worktree-merge"
       ELSE "retained"

----------------------------------------------------------------------------
(* A completion, from the observation of its candidate to its report.      *)

Phase(p) == op[p].phase
Mine(p) == integration[op[p].contract]
Goto(p, phase) == op' = [op EXCEPT ![p].phase = phase]
Ended(o, out) == [o EXCEPT !.phase = "ended", !.out = out, !.plan = None, !.todo = {}, !.guarded = {}]
Stop(p, out) == op' = [op EXCEPT ![p] = Ended(@, out)]

(* Mutation: the loop follows a moving target for as long as it moves. *)
AfterMovementUnbounded(o, i) ==
    IF head.tree = i.snap.tree THEN Ended(o, "equal") ELSE [o EXCEPT !.phase = "refencing"]

(* What advanceCandidate does about a target that has moved. *)
AfterMovement(o, i) ==
    IF head.tree = i.snap.tree THEN Ended(o, "equal")
    ELSE IF o.cycles = MaxCycles THEN Ended(o, "moved")
    ELSE [o EXCEPT !.phase = "refencing"]

Complete(p) ==
    /\ p \in Completers /\ Phase(p) = "idle"
    /\ scene.jobs[p] # None
    /\ LET c == scene.jobs[p] IN
       /\ claimedBy[c] = None
       /\ op' = [op EXCEPT ![p] = [Idle EXCEPT !.phase = "observing", !.contract = c,
                                               !.seen = integration[c], !.since = integration[c].at]]
    /\ UNCHANGED <<targetVars, fence, checkoutVars, scene>>

(* observeIntegrationTargetMovement, against the completion's own checkpoint. *)
Observe(p) ==
    /\ Phase(p) = "observing"
    /\ op' = [op EXCEPT ![p] = IF head = @.seen.pred THEN [@ EXCEPT !.phase = "judging"]
                               ELSE AfterMovement(@, @.seen)]
    /\ UNCHANGED <<targetVars, fence, checkoutVars, scene>>

(* observeCandidateTarget *)
Judge(p) ==
    /\ Phase(p) = "judging"
    /\ IF Judged(op[p].seen, "refused") # {} THEN Stop(p, "refused") ELSE Goto(p, "fencing")
    /\ UNCHANGED <<targetVars, fence, checkoutVars, scene>>

Within == [fencing |-> "placing", refencing |-> "replanning", recovering |-> "surveying"]

AcquireFence(p) ==
    /\ Phase(p) \in DOMAIN Within
    /\ fence = None
    /\ fence' = p
    /\ op' = [op EXCEPT ![p].phase = Within[@], ![p].attempts = 0]
    /\ UNCHANGED <<targetVars, checkoutVars, scene>>

(* The fence is not waited for beyond its timeout. *)
FenceTimeout(p) ==
    /\ Phase(p) \in DOMAIN Within
    /\ fence # None
    /\ op' = [op EXCEPT ![p] = IF p = Reconciler THEN Idle ELSE Ended(@, "placement-failed")]
    /\ UNCHANGED <<targetVars, fence, checkoutVars, scene>>

(* The turn of an attempt that lost its race: another one, if any is left. *)
Retried(o, phase) ==
    IF o.attempts + 1 < MaxAttempts THEN [o EXCEPT !.phase = phase, !.attempts = o.attempts + 1, !.doubt = None]
    ELSE Ended(o, "exhausted")

(* Mutation: the fence is kept for the integration to come. *)
FenceKept(p) == IF op'[p].phase \in {"ended", "observing", "reporting"} THEN None ELSE fence

(* Whatever leaves the fenced work releases the fence. *)
FenceAfter(p) == IF op'[p].phase \in {"ended", "refencing", "observing", "reporting"} THEN None ELSE fence

(* Under the fence and the seat: decide on the fresh contract, compare the *)
(* target and look at its checkouts.                                       *)
Place(p) ==
    /\ Phase(p) = "placing"
    /\ LET c == op[p].contract
           i == integration[c]
       IN \/ /\ \/ claimedBy[c] # None
                \/ c \in scene.gated /\ i.at # 0
             /\ Stop(p, "refused")
             /\ UNCHANGED fresh
          \/ /\ claimedBy[c] = None /\ (c \in scene.gated => i.at = 0)
             /\ head # i.pred
             /\ op' = [op EXCEPT ![p] = AfterMovement(@, i)]
             /\ UNCHANGED fresh
          \/ /\ claimedBy[c] = None /\ (c \in scene.gated => i.at = 0)
             /\ head = i.pred
             /\ IF Judged(i, "refused") # {} THEN Stop(p, "refused")
                ELSE op' = [op EXCEPT ![p] = [@ EXCEPT !.phase = "admitting", !.plan = i, !.todo = scene.registered,
                                                       !.guarded = Judged(i, "followable")]]
             /\ fresh' = {}
    /\ fence' = FenceAfter(p)
    /\ UNCHANGED <<targetVars, index, work, scene>>

(* One ref transaction moves the target and admits the claim, or compares  *)
(* the target and admits the new integration.                              *)
Publishing == {"admitting", "reintegrating"}

Publish(p) ==
    LET i == op[p].plan
        c == op[p].contract
    IN /\ head = i.pred
       /\ \/ /\ Phase(p) = "admitting"
             /\ head' = i.snap
             /\ moves' = moves + 1
             /\ claimedBy' = [claimedBy EXCEPT ![c] = p]
             /\ UNCHANGED integration
          \/ /\ Phase(p) = "reintegrating"
             /\ integration' = [integration EXCEPT ![c] = i]
             /\ UNCHANGED <<head, moves, claimedBy>>

Accepted(o) ==
    IF o.phase = "admitting" THEN [o EXCEPT !.phase = "following", !.doubt = None]
    ELSE [o EXCEPT !.phase = "observing", !.seen = o.plan, !.plan = None, !.cycles = o.cycles + 1, !.doubt = None]

Redecided(o) == Retried(o, IF o.phase = "admitting" THEN "placing" ELSE "replanning")

(* admitDecidedOffer, when Git answers: published, or not because the target is another. *)
Admit(p) ==
    /\ Phase(p) \in Publishing
    /\ op[p].doubt = None
    /\ \/ /\ Publish(p)
          /\ op' = [op EXCEPT ![p] = Accepted(@)]
       \/ /\ head # op[p].plan.pred
          /\ op' = [op EXCEPT ![p] = Redecided(@)]
          /\ UNCHANGED targetVars
    /\ fence' = FenceAfter(p)
    /\ UNCHANGED <<checkoutVars, scene>>

(* Mutation: a transaction of unknown outcome is taken for one that failed. *)
RecoverDistrusting(p) ==
    /\ Phase(p) \in Publishing
    /\ op[p].doubt # None
    /\ op' = [op EXCEPT ![p] = Redecided(@)]
    /\ fence' = FenceAfter(p)
    /\ UNCHANGED <<targetVars, checkoutVars, scene>>

(* After Git was killed the journal is read again, within a time limit of  *)
(* its own: the entry is there, or the attempt decides anew.               *)
Recover(p) ==
    /\ Phase(p) \in Publishing
    /\ op[p].doubt # None
    /\ op' = [op EXCEPT ![p] = IF @.doubt = "recorded" THEN Accepted(@) ELSE Redecided(@)]
    /\ fence' = FenceAfter(p)
    /\ UNCHANGED <<targetVars, checkoutVars, scene>>

(* A checkout follows, or is named as one that could not. *)
Follow(p, w) ==
    /\ Phase(p) = "following"
    /\ w \in op[p].todo
    /\ LET i == op[p].plan IN
       IF Merges(w, i)
          THEN /\ index' = [index EXCEPT ![w] = Overlay(@, i, Taken(w, i))]
               /\ work' = [work EXCEPT ![w] = Overlay(@, i, Taken(w, i))]
               /\ op' = [op EXCEPT ![p].todo = @ \ {w}]
          ELSE /\ op' = [op EXCEPT ![p].todo = @ \ {w}, ![p].lag = @ \cup {w}]
               /\ UNCHANGED <<index, work>>
    /\ UNCHANGED <<targetVars, fence, fresh, scene>>

Followed(p) ==
    /\ Phase(p) = "following"
    /\ op[p].todo = {}
    /\ Goto(p, "reporting")
    /\ fence' = FenceAfter(p)
    /\ UNCHANGED <<targetVars, checkoutVars, scene>>

Report(p) ==
    /\ Phase(p) = "reporting"
    /\ Stop(p, "completed")
    /\ UNCHANGED <<targetVars, fence, checkoutVars, scene>>

(* Mutation: a conflict is taken for a target that may move away again. *)
ReplanStubborn(p) ==
    /\ Phase(p) = "replanning"
    /\ LET c == op[p].contract IN
       IF claimedBy[c] # None THEN Stop(p, "refused")
       ELSE IF Conflict(c, head.tree) THEN Goto(p, "observing")
       ELSE op' = [op EXCEPT ![p].phase = "reintegrating", ![p].plan =
                         [pred |-> head, snap |-> Commit(c, moves, MergedTree(c, head.tree)), at |-> moves]]
    /\ fence' = FenceAfter(p)
    /\ UNCHANGED <<targetVars, checkoutVars, scene>>

(* Under the fence, a new integration on the target as it is; Admit publishes it. *)
Replan(p) ==
    /\ Phase(p) = "replanning"
    /\ LET c == op[p].contract
           i == integration[c]
       IN \/ /\ claimedBy[c] # None
             /\ Stop(p, "refused")
          \/ /\ claimedBy[c] = None /\ Conflict(c, head.tree)
             /\ Stop(p, "conflict")
          \/ /\ claimedBy[c] = None /\ ~Conflict(c, head.tree)
             /\ op' = [op EXCEPT ![p].phase = "reintegrating", ![p].plan =
                         IF i.pred = head THEN i    \* reusableIntegrationSnapshot
                         ELSE [pred |-> head, snap |-> Commit(c, moves, MergedTree(c, head.tree)), at |-> moves]]
    /\ fence' = FenceAfter(p)
    /\ UNCHANGED <<targetVars, checkoutVars, scene>>

----------------------------------------------------------------------------
(* The recovery of a checkout that a claimed contract's movement left behind. *)

Reconcile(c) ==
    /\ Phase(Reconciler) = "idle"
    /\ claimedBy[c] # None
    /\ op' = [op EXCEPT ![Reconciler] = [Idle EXCEPT !.phase = "recovering", !.contract = c]]
    /\ UNCHANGED <<targetVars, fence, checkoutVars, scene>>

(* Mutation: every claimed contract's movement is completed, whatever the target shows. *)
SurveyAny ==
    /\ Phase(Reconciler) = "surveying"
    /\ op' = [op EXCEPT ![Reconciler].phase = "classifying", ![Reconciler].todo = scene.registered,
                        ![Reconciler].plan = Mine(Reconciler), ![Reconciler].since = moves]
    /\ UNCHANGED <<targetVars, fence, checkoutVars, scene>>

(* recoverTargetPlacement: only the movement that the target still shows is completed. *)
Survey ==
    /\ Phase(Reconciler) = "surveying"
    /\ LET i == Mine(Reconciler) IN
       IF head = i.snap
          THEN /\ op' = [op EXCEPT ![Reconciler].phase = "classifying", ![Reconciler].todo = scene.registered,
                                   ![Reconciler].plan = i, ![Reconciler].since = moves]
               /\ UNCHANGED fence
          ELSE /\ op' = [op EXCEPT ![Reconciler] = Idle]
               /\ fence' = None
    /\ UNCHANGED <<targetVars, checkoutVars, scene>>

Examine(w) ==
    /\ Phase(Reconciler) = "classifying"
    /\ w \in op[Reconciler].todo
    /\ LET o == op[Reconciler]
           class == Classify(w, o.plan)
           retained == class = "retained" \/ (class = "worktree-merge" /\ IgnoredCollision(w, o.plan))
       IN op' = [op EXCEPT ![Reconciler] =
                   IF class = "complete" THEN [o EXCEPT !.todo = o.todo \ {w}]
                   ELSE IF retained THEN [o EXCEPT !.todo = o.todo \ {w}, !.lag = o.lag \cup {w}]
                   ELSE [o EXCEPT !.phase = class, !.guarded = {w}]]
    /\ fresh' = {}
    /\ UNCHANGED <<targetVars, fence, index, work, scene>>

(* Mutation: the index is merged as if the files had to follow. *)
MendIndexChecked(w) ==
    /\ Phase(Reconciler) = "index-merge"
    /\ w \in op[Reconciler].guarded
    /\ LET i == op[Reconciler].plan IN
       index' = IF Merges(w, i) THEN [index EXCEPT ![w] = Overlay(@, i, Taken(w, i))] ELSE index
    /\ op' = [op EXCEPT ![Reconciler].phase = "classifying", ![Reconciler].todo = @ \ {w}, ![Reconciler].guarded = {}]
    /\ UNCHANGED <<targetVars, fence, work, fresh, scene>>

(* The files already are the candidate's; only the index is merged (read-tree -i -m). *)
MendIndex(w) ==
    /\ Phase(Reconciler) = "index-merge"
    /\ w \in op[Reconciler].guarded
    /\ LET i == op[Reconciler].plan IN
       index' = IF IndexMerges(w, i) THEN [index EXCEPT ![w] = Overlay(@, i, Taken(w, i))] ELSE index
    /\ op' = [op EXCEPT ![Reconciler].phase = "classifying", ![Reconciler].todo = @ \ {w}, ![Reconciler].guarded = {}]
    /\ UNCHANGED <<targetVars, fence, work, fresh, scene>>

MendWorktree(w) ==
    /\ Phase(Reconciler) = "worktree-merge"
    /\ w \in op[Reconciler].guarded
    /\ LET i == op[Reconciler].plan IN
       IF Merges(w, i)
          THEN /\ index' = [index EXCEPT ![w] = Overlay(@, i, Taken(w, i))]
               /\ work' = [work EXCEPT ![w] = Overlay(@, i, Taken(w, i))]
          ELSE UNCHANGED <<index, work>>
    /\ op' = [op EXCEPT ![Reconciler].phase = "classifying", ![Reconciler].todo = @ \ {w}, ![Reconciler].guarded = {}]
    /\ UNCHANGED <<targetVars, fence, fresh, scene>>

Reconciled ==
    /\ Phase(Reconciler) = "classifying"
    /\ op[Reconciler].todo = {}
    /\ op' = [op EXCEPT ![Reconciler] = Idle]
    /\ fence' = None
    /\ UNCHANGED <<targetVars, checkoutVars, scene>>

----------------------------------------------------------------------------
(* Faults.  An operational error ends a completion; one that comes after   *)
(* the completion has learnt that its own claim was admitted does not undo *)
(* it.  A Git that is killed may have published or not; when the reading   *)
(* back fails too, the completion ends without knowing which.              *)

Unfenced(p) == IF fence = p THEN None ELSE fence

(* Mutation: an error is a stop, whatever was admitted before it. *)
FailForgetful(p) ==
    /\ p \in Completers
    /\ Phase(p) \notin {"idle", "ended", "following"} /\ op[p].doubt = None
    /\ scene.faults > 0
    /\ scene' = [scene EXCEPT !.faults = @ - 1]
    /\ Stop(p, "failed")
    /\ fence' = Unfenced(p)
    /\ UNCHANGED <<targetVars, checkoutVars>>

Fail(p) ==
    /\ p \in Completers
    /\ Phase(p) \notin {"idle", "ended", "following"} /\ op[p].doubt = None
    /\ scene.faults > 0
    /\ scene' = [scene EXCEPT !.faults = @ - 1]
    /\ Stop(p, IF Phase(p) = "reporting" THEN "completed" ELSE "failed")
    /\ fence' = Unfenced(p)
    /\ UNCHANGED <<targetVars, checkoutVars>>

Kill(p) ==
    /\ Phase(p) \in Publishing
    /\ op[p].doubt = None
    /\ scene.faults > 0
    /\ scene' = [scene EXCEPT !.faults = @ - 1]
    /\ \/ Publish(p) /\ op' = [op EXCEPT ![p].doubt = "recorded"]
       \/ UNCHANGED targetVars /\ op' = [op EXCEPT ![p].doubt = "lost"]
    /\ UNCHANGED <<fence, checkoutVars>>

(* The fenced work turns the error into a failed placement, or a cancellation passes through. *)
RecoverFails(p) ==
    /\ Phase(p) \in Publishing
    /\ op[p].doubt # None
    /\ \E out \in {"placement-failed", "failed"} : Stop(p, out)
    /\ fence' = Unfenced(p)
    /\ UNCHANGED <<targetVars, checkoutVars, scene>>

Deceased(p) == IF p = Reconciler THEN Idle ELSE Ended(op[p], "died")

(* What a process had handed to Git may be published before it dies. *)
Die(p) ==
    /\ Phase(p) \notin {"idle", "ended"}
    /\ scene.crashes > 0
    /\ scene' = [scene EXCEPT !.crashes = @ - 1]
    /\ \/ UNCHANGED targetVars
       \/ Phase(p) \in Publishing /\ op[p].doubt = None /\ Publish(p)
    /\ op' = [op EXCEPT ![p] = Deceased(p)]
    /\ fence' = Unfenced(p)
    /\ UNCHANGED checkoutVars

(* A merge writes files first and its index last; death can come between. *)
DieMerging(p, w) ==
    /\ \/ Phase(p) = "following" /\ w \in op[p].todo
       \/ Phase(p) = "worktree-merge" /\ w \in op[p].guarded
    /\ Merges(w, op[p].plan)
    /\ scene.crashes > 0
    /\ scene' = [scene EXCEPT !.crashes = @ - 1]
    /\ \E written \in SUBSET Taken(w, op[p].plan) :
          work' = [work EXCEPT ![w] = Overlay(@, op[p].plan, written)]
    /\ op' = [op EXCEPT ![p] = Deceased(p)]
    /\ fence' = Unfenced(p)
    /\ UNCHANGED <<targetVars, index, fresh>>

----------------------------------------------------------------------------
(* Users.  They push to the target, write, discard and stage in its        *)
(* checkouts, and bring a checkout they left clean up to the target.       *)

Push ==
    /\ scene.pushes > 0
    /\ scene' = [scene EXCEPT !.pushes = @ - 1]
    /\ moves' = moves + 1
    /\ \E tree \in {[head.tree EXCEPT ![q] = v] : q \in scene.pushed, v \in {Original, Pushed}}
                   \cup {integration[c].snap.tree : c \in Contracts} :
          head' = Commit(None, moves', tree)
    /\ UNCHANGED <<integration, claimedBy, fence, op, checkoutVars>>

AtWork(w) ==
    /\ scene.edits > 0
    /\ w \in scene.registered
    /\ scene' = [scene EXCEPT !.edits = @ - 1]
    /\ UNCHANGED <<targetVars, fence, op>>

Edit(w, q) ==
    /\ AtWork(w)
    /\ work[w][q] # User
    /\ work' = [work EXCEPT ![w][q] = User]
    /\ fresh' = fresh \cup {<<w, q>>}
    /\ UNCHANGED index

Discard(w, q) ==
    /\ AtWork(w)
    /\ index[w][q] # Absent /\ work[w][q] # index[w][q]
    /\ work' = [work EXCEPT ![w][q] = index[w][q]]
    /\ UNCHANGED <<index, fresh>>

Stage(w, q) ==
    /\ AtWork(w)
    /\ work[w][q] # index[w][q] /\ ~(Untracked(w, q) /\ q \in Ignored)
    /\ index' = [index EXCEPT ![w][q] = work[w][q]]
    /\ UNCHANGED <<work, fresh>>

Pull(w) ==
    /\ AtWork(w)
    /\ work[w] = index[w] /\ index[w] # head.tree
    /\ index' = [index EXCEPT ![w] = head.tree]
    /\ work' = [work EXCEPT ![w] = head.tree]
    /\ UNCHANGED fresh

----------------------------------------------------------------------------
Step(p) ==
    \/ Complete(p)
    \/ Observe(p)
    \/ Judge(p)
    \/ AcquireFence(p)
    \/ FenceTimeout(p)
    \/ Place(p)
    \/ Admit(p)
    \/ Recover(p)
    \/ \E w \in Checkouts : Follow(p, w)
    \/ Followed(p)
    \/ Report(p)
    \/ Replan(p)

Recovery ==
    \/ Survey
    \/ \E w \in Checkouts : Examine(w) \/ MendIndex(w) \/ MendWorktree(w)
    \/ Reconciled

Faults == \E p \in Processes : Fail(p) \/ Kill(p) \/ RecoverFails(p) \/ Die(p) \/ \E w \in Checkouts : DieMerging(p, w)

Users ==
    \/ Push
    \/ \E w \in Checkouts :
          \/ \E q \in Paths : Edit(w, q) \/ Discard(w, q) \/ Stage(w, q)
          \/ Pull(w)

Next ==
    \/ \E p \in Processes : Step(p)
    \/ \E c \in Contracts : Reconcile(c)
    \/ Recovery
    \/ Faults
    \/ Users

Spec == Init /\ [][Next]_vars

(* A process goes on; later commands reconcile every claimed contract      *)
(* again, and of those that find the fence taken some day one gets it.     *)
Fairness ==
    /\ \A p \in Processes : WF_vars(Step(p))
    /\ WF_vars(Recovery)
    /\ \A c \in Contracts :
          /\ SF_vars(Reconcile(c))
          /\ SF_vars(op[Reconciler].contract = c /\ AcquireFence(Reconciler))

LiveSpec == Spec /\ Fairness

----------------------------------------------------------------------------
Phases == {"idle", "observing", "judging", "fencing", "refencing", "recovering", "placing", "admitting", "following",
           "reporting", "replanning", "reintegrating", "surveying", "classifying", "index-merge", "worktree-merge",
           "ended"}
Outcomes == Endings \cup {None}

(* TypeOK: every variable holds what its declaration says, and a process   *)
(* works between the branches of its code only while it holds the fence.   *)
TypeOK ==
    /\ head \in Commits /\ moves \in Nat
    /\ integration \in [Contracts -> [pred : Commits, snap : Commits, at : Nat]]
    /\ claimedBy \in [Contracts -> Completers \cup {None}]
    /\ fence \in Processes \cup {None}
    /\ \A p \in Processes :
          /\ op[p].phase \in Phases /\ op[p].out \in Outcomes /\ op[p].doubt \in Doubts \cup {None}
          /\ op[p].cycles \in 0..MaxCycles /\ op[p].attempts \in 0..MaxAttempts
          /\ op[p].todo \cup op[p].guarded \cup op[p].lag \subseteq Checkouts
          /\ fence = p <=> op[p].phase \in {"placing", "admitting", "following", "replanning", "reintegrating",
                                            "surveying", "classifying", "index-merge", "worktree-merge"}
    /\ index \in [Checkouts -> Trees] /\ work \in [Checkouts -> Trees]
    /\ fresh \subseteq Checkouts \X Paths

(* HonestOutcome: a completion reports that it completed only when its own *)
(* claim was admitted, and whenever it was, even if an error came after    *)
(* it; every other stop leaves the contract to be completed by another     *)
(* (protocol/completion.ts, completeCandidate).  One exception: when Git   *)
(* was killed while it published the claim, and the reading back failed    *)
(* too, a claim may stand that is reported as a failed placement or an     *)
(* execution that stopped, never as a verdict on the candidate             *)
(* (protocol/attempt.ts, admitDecidedOffer).  A completion integrates      *)
(* again at most three times, each time because the target moved since,    *)
(* and says that the target kept moving only when it moved once more       *)
(* (MAX_REINTEGRATION_CYCLES).  The types and the fence's custody hold.    *)
HonestOutcome ==
    /\ TypeOK
    /\ \A p \in Completers :
         LET o == op[p]
             mine == o.contract # None /\ claimedBy[o.contract] = p
         IN /\ o.out = "completed" => mine
            /\ o.phase = "ended" /\ mine /\ o.out \notin {"completed", "died"} =>
                  o.doubt = "recorded" /\ o.out \in {"placement-failed", "failed"}
            /\ o.cycles <= MaxCycles
            /\ o.cycles <= moves - o.since
            /\ o.out = "moved" => o.cycles = MaxCycles /\ moves - o.since > MaxCycles

UserStep == scene'.edits # scene.edits
Lost(w, q) == work[w][q] = User /\ work'[w][q] # User
Unsuspected(w, q) == q \in Ignored /\ Untracked(w, q) /\ <<w, q>> \in fresh

(* UserBytesSurvive: no process ever destroys what a user wrote in a       *)
(* checkout of the target, with two gaps: an ignored entry written after   *)
(* the process looked for one, and one in a checkout that the precheck     *)
(* found unable to follow, where it does not look for one                  *)
(* (git/target-placement.ts, ordinaryPrecheck and followTargetPlacement).  *)
(* Nor does one take a checkout away from the tree of the branch that it   *)
(* has checked out, unless the branch itself moves or has moved since the  *)
(* process compared it under the fence (recoverTargetPlacement).           *)
UserBytesSurvive ==
    [][~UserStep => \A w \in Checkouts :
          /\ \A q \in Paths : Lost(w, q) =>
                \/ Unsuspected(w, q)
                \/ q \in Ignored /\ Untracked(w, q) /\ \E p \in Completers : fence = p /\ w \notin op[p].guarded
          /\ index[w] = head.tree /\ index'[w] # index[w] =>
                \E p \in Processes : fence = p /\ (p = Reconciler => moves # op[p].since)]_vars

(* CompletionsEnd: every completion ends, however the target moves and     *)
(* whatever else fails (protocol/completion.ts, advanceCandidate).         *)
CompletionsEnd == <>[](\A p \in Completers : op[p].phase \in {"idle", "ended"})

Missed(c, w) ==
    /\ claimedBy[c] # None
    /\ head = integration[c].snap
    /\ w \in scene.registered
    /\ Classify(w, integration[c]) \in {"index-merge", "worktree-merge"}
    /\ ~IgnoredCollision(w, integration[c])

(* NotLeftBehind: a checkout that shows no more than that it missed the    *)
(* target's last movement, because a process died or failed before it      *)
(* followed, does not stay so (git/target-placement.ts, recoverCheckout).  *)
NotLeftBehind == []<>(\A c \in Contracts, w \in Checkouts : ~Missed(c, w))
=============================================================================
