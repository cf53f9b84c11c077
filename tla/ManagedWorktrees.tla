-------------------------- MODULE ManagedWorktrees --------------------------
(***************************************************************************)
(* The worktrees that keiyaku manages for contracts.  A register appoints  *)
(* each active contract a place, a path below .keiyaku/wt; reconciliation  *)
(* realizes the worktree there, keeps refs that hold the contract's        *)
(* objects in the repository, and, once the contract is terminal, removes  *)
(* the worktree if nothing in it would be lost, releases the refs that     *)
(* something else makes redundant, and at last releases the place.         *)
(*                                                                         *)
(* Reconciliations are separate processes.  The register has a lock of its *)
(* own; a contract's effects are under that contract's reconcile lock and  *)
(* its incoming fence, which a child that lands in the worktree also       *)
(* takes.  Contracts move on meanwhile, users work in the worktrees, and   *)
(* nothing is locked between the parts of one reconciliation.              *)
(*                                                                         *)
(* The recovery of target checkouts, which comes first in a                *)
(* reconciliation, is TargetCheckout's; settlement is Settlement's.        *)
(***************************************************************************)
EXTENDS Naturals, Functions

CONSTANTS
    None,
    Processes, Contracts,
    Places, Rank,      \* Rank[c][x]: when place x is tried for contract c
    Scenarios          \* what the environment may do, and what each process does

VARIABLES
    journal,           \* each contract's standing, and whether it has a delivery
    register,          \* the place appointed to each contract, or None
    registered,        \* the paths that Git knows as worktrees
    tree,              \* what is at each path: the contract it was made for and its content
    delivery,          \* what each contract's delivery ref names: its start, its tender or nothing
    pin,               \* the contracts whose candidate pin exists
    tip,               \* what the target branch contains: the common root, integrations
    recovered,         \* the worktree contents that recovery snapshots were made of
    placesLock, lock, fence,
    op,                \* the control state of each process
    late,              \* history: worktrees that changed since a cleanup last looked
    scene              \* the scenario, with what is left of its budgets

diskVars == <<registered, tree>>
refVars == <<delivery, pin, tip>>
lockVars == <<placesLock, lock, fence>>
vars == <<journal, register, diskVars, refVars, recovered, lockVars, op, late, scene>>

Standings == {"unbound", "active", "claimed", "abandoned"}

(* What is in a worktree: the commit it was made from or moved to, where   *)
(* "landed" is the integration of a child contract, and the edits since.   *)
Contents == [base : {"start", "tender", "landed"}, edits : Nat]
Start == [base |-> "start", edits |-> 0]
Tender == [base |-> "tender", edits |-> 0]
Tree(c, content) == [owner |-> c, content |-> content]
Foreign == Tree(None, Start)          \* a directory that is no worktree

Scenes == [bound : SUBSET Contracts,       \* the contracts there are, others come
           targetless : SUBSET Contracts,  \* those that land on no branch
           rebased : SUBSET Contracts,     \* whose integration is another commit than their tender
           reshaped : SUBSET Contracts,    \* ... with another tree
           fates : [Contracts -> SUBSET {"bind", "deliver", "claim", "abandon"}],
           batches : [Processes -> SUBSET SUBSET Contracts],
           rounds : [Processes -> Nat], tireless : SUBSET Processes,
           edits : Nat, landings : Nat, vanishes : Nat, rewrites : Nat, hooks : Nat, faults : Nat, deaths : Nat]

ASSUME WorktreesAssumption ==
    /\ None \notin Processes \cup Contracts \cup Places
    /\ "root" \notin Contracts /\ "landing" \notin Processes \cup {None}
    /\ None \notin {"start", "tender", "retaining", "cleaning"}
    /\ Rank \in [Contracts -> [Places -> Nat]]
    /\ None \notin [owner : Contracts \cup {None}, content : Contents]
    /\ Scenarios \subseteq Scenes
    /\ \A s \in Scenarios : s.reshaped \subseteq s.rebased

Idle == [phase |-> "idle", batch |-> {}, queue |-> {}, round |-> None, contract |-> None, known |-> {},
         terminal |-> {}, lag |-> {}, seen |-> None, topology |-> {}, place |-> None,
         before |-> None, recovery |-> None, custodian |-> None]

Init ==
    \E s \in Scenarios :
        /\ scene = s
        /\ journal = [c \in Contracts |-> [standing |-> IF c \in s.bound THEN "active" ELSE "unbound",
                                           delivered |-> FALSE]]
        /\ register = [c \in Contracts |-> None]
        /\ registered = {}
        /\ tree = [x \in Places |-> None]
        /\ delivery = [c \in Contracts |-> None] /\ pin = {} /\ tip = {"root"}
        /\ recovered = {}
        /\ placesLock = None
        /\ lock = [c \in Contracts |-> None]
        /\ fence = [c \in Contracts |-> None]
        /\ op = [p \in Processes |-> Idle]
        /\ late = {}

----------------------------------------------------------------------------
Phase(p) == op[p].phase
Mine(p) == op[p].contract
Here(p) == op[p].place
Goto(p, phase) == op' = [op EXCEPT ![p].phase = phase]
Lagging(o) == [o EXCEPT !.phase = "closing", !.lag = @ \cup {o.contract}]
Lag(p) == op' = [op EXCEPT ![p] = Lagging(@)]

(* What a contract's worktree is made from, and its delivery ref names. *)
Desired(p) == IF op[p].seen.delivered THEN Tender ELSE Start

Terminal(j) == j.standing \in {"claimed", "abandoned"}
Occupied == {register[c] : c \in Contracts} \ {None}

(* A reconciliation of one contract, or of the whole repository: the       *)
(* contracts are observed, and the active ones that lack a place get one.  *)
Begin(p, batch) ==
    /\ Phase(p) = "idle"
    /\ p \in scene.tireless \/ scene.rounds[p] > 0
    /\ scene' = IF p \in scene.tireless THEN scene ELSE [scene EXCEPT !.rounds[p] = @ - 1]
    /\ LET present == {c \in batch : journal[c].standing # "unbound"}
           active == {c \in batch : journal[c].standing = "active"}
       IN /\ present # {}
          /\ op' = [op EXCEPT ![p] = [Idle EXCEPT !.phase = "appointing", !.batch = present, !.queue = active]]
    /\ UNCHANGED <<journal, register, diskVars, refVars, recovered, lockVars, late>>

(* Mutation: the register is read before its lock is taken. *)
OpenRegisterUnlocked(p) ==
    /\ Phase(p) = "appointing"
    /\ placesLock' = p
    /\ op' = [op EXCEPT ![p].phase = "appointed", ![p].topology = Occupied]
    /\ UNCHANGED <<journal, register, diskVars, refVars, recovered, lock, fence, late, scene>>

(* withPlaceAuthorityFence: the register is read under its lock ... *)
OpenRegister(p) ==
    /\ Phase(p) = "appointing"
    /\ placesLock = None
    /\ placesLock' = p
    /\ op' = [op EXCEPT ![p].phase = "appointed", ![p].topology = Occupied]
    /\ UNCHANGED <<journal, register, diskVars, refVars, recovered, lock, fence, late, scene>>

(* ... and written: each missing appointment takes the first place that    *)
(* neither the register nor the disk knows, in an order of its own.        *)
Appoint(p) ==
    /\ Phase(p) = "appointed"
    /\ LET missing == {c \in op[p].queue : register[c] = None}
           free == {x \in Places : x \notin op[p].topology /\ tree[x] = None}
       IN \E place \in Injection(missing, free) :
          /\ \A c \in missing, x \in free :
                Rank[c][x] < Rank[c][place[c]] => \E d \in missing : place[d] = x
          /\ register' = [c \in Contracts |-> IF c \in missing THEN place[c] ELSE register[c]]
    /\ op' = [op EXCEPT ![p] = [@ EXCEPT !.phase = "next", !.round = "retaining", !.queue = op[p].batch, !.topology = {},
                                         !.known = {c \in Contracts : register'[c] # None}]]
    /\ placesLock' = None
    /\ UNCHANGED <<journal, diskVars, refVars, recovered, lock, fence, late, scene>>

(* Once the first round kept everything, the second one cleans up; places  *)
(* of terminal contracts that it left without a lag are released.          *)
EndRound(p) ==
    /\ Phase(p) = "next"
    /\ op[p].queue = {}
    /\ LET released == (op[p].terminal \cap op[p].known) \ op[p].lag IN
       op' = [op EXCEPT ![p] =
                IF @.round = "retaining" /\ @.terminal # {}
                   THEN [@ EXCEPT !.round = "cleaning", !.queue = op[p].batch, !.lag = {}]
                ELSE IF @.round = "cleaning" /\ released # {}
                   THEN [@ EXCEPT !.phase = "dismissing", !.terminal = released]
                ELSE Idle]
    /\ UNCHANGED <<journal, register, diskVars, refVars, recovered, lockVars, late, scene>>

(* releaseManagedWorktrees, under the register's lock *)
Dismiss(p) ==
    /\ Phase(p) = "dismissing"
    /\ placesLock = None
    /\ register' = [c \in Contracts |-> IF c \in op[p].terminal THEN None ELSE register[c]]
    /\ op' = [op EXCEPT ![p] = Idle]
    /\ UNCHANGED <<journal, diskVars, refVars, recovered, lockVars, late, scene>>

----------------------------------------------------------------------------
(* One contract, under its lock.                                           *)

(* What a process remembers when it observes the contract that it works on. *)
Observed(o, c) ==
    [o EXCEPT !.phase = "fencing", !.seen = journal[c],
              !.terminal = IF o.round = "cleaning" THEN @ ELSE IF Terminal(journal[c]) THEN @ \cup {c} ELSE @ \ {c}]

(* The contracts of a round are taken one after the other. *)
Lock(p) ==
    /\ Phase(p) = "next"
    /\ \E c \in op[p].queue :
          /\ lock[c] = None
          /\ lock' = [lock EXCEPT ![c] = p]
          /\ op' = [op EXCEPT ![p] = Observed([op[p] EXCEPT !.contract = c, !.queue = @ \ {c}], c)]
    /\ UNCHANGED <<journal, register, diskVars, refVars, recovered, placesLock, fence, late, scene>>

(* The lock cannot be had: nothing is done for the contract. *)
LockFails(p) ==
    /\ Phase(p) = "next"
    /\ scene.faults > 0
    /\ scene' = [scene EXCEPT !.faults = @ - 1]
    /\ \E c \in op[p].queue :
          op' = [op EXCEPT ![p].queue = @ \ {c}, ![p].lag = @ \cup {c},
                           ![p].terminal = IF op[p].round = "cleaning" THEN @ ELSE @ \ {c}]
    /\ UNCHANGED <<journal, register, diskVars, refVars, recovered, lockVars, late>>

(* Under the fence the contract must still be what it was before: if not,  *)
(* it is observed again, up to the fourth time.                            *)
Fence(p) ==
    /\ Phase(p) = "fencing"
    /\ \/ /\ fence[Mine(p)] = None /\ journal[Mine(p)] = op[p].seen
          /\ fence' = [fence EXCEPT ![Mine(p)] = p]
          /\ Goto(p, "surveying")
       \/ /\ fence[Mine(p)] = None /\ journal[Mine(p)] # op[p].seen
          /\ op' = [op EXCEPT ![p] = Observed(@, Mine(p))] \/ Lag(p)
          /\ UNCHANGED fence
       \/ /\ fence[Mine(p)] # None
          /\ Lag(p)
          /\ UNCHANGED fence
    /\ UNCHANGED <<journal, register, diskVars, refVars, recovered, placesLock, lock, late, scene>>

(* The worktrees that Git knows are listed first, the place is read from   *)
(* the register afterwards.                                                *)
Survey(p) ==
    /\ Phase(p) = "surveying"
    /\ op' = [op EXCEPT ![p].phase = "locating", ![p].topology = registered]
    /\ UNCHANGED <<journal, register, diskVars, refVars, recovered, lockVars, late, scene>>

Locate(p) ==
    /\ Phase(p) = "locating"
    /\ op' = [op EXCEPT ![p] = [@ EXCEPT !.place = register[Mine(p)],
                                  !.phase = IF ~Terminal(op[p].seen) THEN "pinning"
                                            ELSE IF register[Mine(p)] # None THEN "keeping"
                                            ELSE IF op[p].round = "cleaning" THEN "weighing" ELSE "closing"]]
    /\ UNCHANGED <<journal, register, diskVars, refVars, recovered, lockVars, late, scene>>

(* reconcileActiveManagedWorktree: refs under the publication seat ... *)
Pin(p) ==
    /\ Phase(p) = "pinning"
    /\ IF Here(p) = None \/ journal[Mine(p)] # op[p].seen
          THEN Lag(p) /\ UNCHANGED <<delivery, pin>>
          ELSE /\ delivery' = [delivery EXCEPT ![Mine(p)] = Desired(p).base]
               /\ pin' = IF op[p].seen.delivered THEN pin \cup {Mine(p)} ELSE pin \ {Mine(p)}
               /\ Goto(p, "realizing")
    /\ UNCHANGED <<journal, register, diskVars, tip, recovered, lockVars, late, scene>>

(* ... and the worktree, which is never made over something that is there. *)
Realize(p) ==
    /\ Phase(p) = "realizing"
    /\ LET x == Here(p)
           listed == x \in op[p].topology
       IN \/ /\ listed /\ tree[x] # None
             /\ Goto(p, "closing")
             /\ UNCHANGED diskVars
          \/ /\ ~listed /\ (tree[x] # None \/ x \in registered)
             /\ Lag(p)
             /\ UNCHANGED diskVars
          \/ /\ listed \/ x \notin registered
             /\ tree[x] = None
             /\ tree' = [tree EXCEPT ![x] = Tree(Mine(p), Desired(p))]
             /\ registered' = registered \cup {x}
             /\ Goto(p, "closing")
    /\ UNCHANGED <<journal, register, refVars, recovered, lockVars, late, scene>>

----------------------------------------------------------------------------
(* A terminal contract that holds a place: its refs are (re)made first, so *)
(* that they keep its objects while the worktree goes.                     *)
Keep(p) ==
    /\ Phase(p) = "keeping"
    /\ delivery' = [delivery EXCEPT ![Mine(p)] = Desired(p).base]
    /\ pin' = IF op[p].seen.delivered THEN pin \cup {Mine(p)} ELSE pin
    /\ Goto(p, IF op[p].round = "retaining" THEN "closing" ELSE "sealing")
    /\ UNCHANGED <<journal, register, diskVars, tip, recovered, lockVars, late, scene>>

(* A worktree is sealed while it holds nothing but what the journal names. *)
Unsealed(content) == content.edits > 0 \/ content.base = "landed"

(* Unsealed content goes only with an abandoned contract, never when a     *)
(* child landed in it.                                                     *)
MustRetain(p, content) ==
    Unsealed(content) /\ (op[p].seen.standing # "abandoned" \/ content.base = "landed")

Snapshot(p, content) == recovered \cup {Tree(Mine(p), content)}

(* removeSealedTerminalWorktree, the observation before the destroy hooks *)
Seal(p) ==
    /\ Phase(p) = "sealing"
    /\ LET x == Here(p)
           content == tree[x].content
       IN \/ /\ x \in op[p].topology /\ tree[x] \notin {None, Foreign}
             /\ MustRetain(p, content)
             /\ Lag(p)
             /\ UNCHANGED <<recovered, late>>
          \/ /\ x \in op[p].topology /\ tree[x] \notin {None, Foreign}
             /\ ~MustRetain(p, content)
             /\ recovered' = IF Unsealed(content) THEN Snapshot(p, content) ELSE recovered
             /\ late' = late \ {x}
             /\ op' = [op EXCEPT ![p] = [@ EXCEPT !.phase = "hooking", !.before = content,
                                           !.recovery = IF Unsealed(content) THEN content ELSE None]]
          \/ /\ x \in op[p].topology /\ tree[x] = Foreign
             /\ Lag(p)
             /\ UNCHANGED <<recovered, late>>
          \/ /\ x \notin op[p].topology \/ tree[x] = None
             /\ Goto(p, "removing")
             /\ UNCHANGED <<recovered, late>>
    /\ UNCHANGED <<journal, register, diskVars, refVars, lockVars, scene>>

(* The destroy hooks run in the worktree and may write to it. *)
Hook(p) ==
    /\ Phase(p) = "hooking"
    /\ \/ Goto(p, "resealing") /\ UNCHANGED <<tree, late, scene>>
       \/ /\ scene.hooks > 0
          /\ scene' = [scene EXCEPT !.hooks = @ - 1]
          /\ tree[Here(p)] \notin {None, Foreign}
          /\ tree' = [tree EXCEPT ![Here(p)].content.edits = @ + 1]
          /\ late' = late \cup {Here(p)}
          /\ Goto(p, "resealing")
    /\ UNCHANGED <<journal, register, registered, refVars, recovered, lockVars>>

(* Mutation: what the hooks left behind is not looked at. *)
ResealTrusting(p) ==
    /\ Phase(p) = "resealing"
    /\ Goto(p, "removing")
    /\ late' = late \ {Here(p)}
    /\ UNCHANGED <<journal, register, diskVars, refVars, recovered, lockVars, scene>>

(* The worktree is observed again, and recovered again when it changed. *)
Reseal(p) ==
    /\ Phase(p) = "resealing"
    /\ LET x == Here(p)
           content == tree[x].content
           known == IF op[p].recovery # None THEN op[p].recovery ELSE op[p].before
           gone == tree[x] \in {None, Foreign}
       IN \/ /\ ~gone => MustRetain(p, content)
             /\ Lag(p)
             /\ UNCHANGED <<recovered, late>>
          \/ /\ ~gone /\ ~MustRetain(p, content)
             /\ recovered' = IF op[p].seen.standing = "abandoned" /\ content # known
                                THEN Snapshot(p, content) ELSE recovered
             /\ late' = late \ {x}
             /\ Goto(p, "removing")
    /\ UNCHANGED <<journal, register, diskVars, refVars, lockVars, scene>>

(* Mutation: Git's worktrees are listed again before the removal. *)
RemoveListed(p) ==
    /\ Phase(p) = "removing"
    /\ LET x == Here(p) IN
       IF x \in registered /\ tree[x] # Foreign
          THEN /\ tree' = [tree EXCEPT ![x] = None]
               /\ registered' = registered \ {x}
               /\ Goto(p, "weighing")
          ELSE /\ IF tree[x] # None THEN Lag(p) ELSE Goto(p, "weighing")
               /\ UNCHANGED diskVars
    /\ UNCHANGED <<journal, register, refVars, recovered, lockVars, late, scene>>

(* Mutation: a worktree that its user removed is a failed removal. *)
RemovePresent(p) ==
    /\ Phase(p) = "removing"
    /\ LET x == Here(p) IN
       IF x \in op[p].topology /\ tree[x] \notin {None, Foreign}
          THEN /\ tree' = [tree EXCEPT ![x] = None]
               /\ registered' = registered \ {x}
               /\ Goto(p, "weighing")
          ELSE /\ IF x \in op[p].topology \/ tree[x] # None THEN Lag(p) ELSE Goto(p, "weighing")
               /\ UNCHANGED diskVars
    /\ UNCHANGED <<journal, register, refVars, recovered, lockVars, late, scene>>

(* removeTerminalWorktree: with force, since the seal has been checked. *)
RemoveWorktree(p) ==
    /\ Phase(p) = "removing"
    /\ LET x == Here(p) IN
       \/ /\ x \in op[p].topology /\ tree[x] # Foreign
          /\ tree' = [tree EXCEPT ![x] = None]
          /\ registered' = registered \ {x}
          /\ Goto(p, "weighing")
       \/ /\ IF x \in op[p].topology THEN tree[x] = Foreign ELSE tree[x] # None
          /\ Lag(p)
          /\ UNCHANGED diskVars
       \/ /\ x \notin op[p].topology /\ tree[x] = None
          /\ Goto(p, "weighing")
          /\ UNCHANGED diskVars
    /\ UNCHANGED <<journal, register, refVars, recovered, lockVars, late, scene>>

----------------------------------------------------------------------------
(* releaseTerminalCustody: an owned ref goes once a ref that keiyaku does  *)
(* not own contains what it keeps.                                         *)

Weigh(p) ==
    /\ Phase(p) = "weighing"
    /\ LET c == Mine(p)
           holds == IF op[p].seen.delivered
                       THEN op[p].seen.standing = "claimed" /\ c \notin scene.targetless /\ c \in tip
                       ELSE "root" \in tip
       IN op' = [op EXCEPT ![p] =
                   IF delivery[c] = None /\ c \notin pin THEN [@ EXCEPT !.phase = "closing"]
                   ELSE [@ EXCEPT !.phase = "releasing", !.custodian = IF holds THEN tip ELSE None]]
    /\ UNCHANGED <<journal, register, diskVars, refVars, recovered, lockVars, late, scene>>

(* Mutation: the custodian is not verified with the removal. *)
ReleaseDeliveryUnverified(p) ==
    /\ Phase(p) = "releasing"
    /\ LET c == Mine(p) IN
       IF op[p].custodian # None /\ ~(op[p].seen.delivered /\ c \in scene.reshaped)
          THEN delivery' = [delivery EXCEPT ![c] = None] ELSE UNCHANGED delivery
    /\ Goto(p, "unpinning")
    /\ UNCHANGED <<journal, register, diskVars, pin, tip, recovered, lockVars, late, scene>>

(* The removal verifies, in one ref transaction, that the custodian is     *)
(* where it was; found elsewhere before, the ref stays, and found          *)
(* elsewhere by the transaction, the cleanup fails.                        *)
ReleaseDelivery(p) ==
    /\ Phase(p) = "releasing"
    /\ LET c == Mine(p)
           replaced == op[p].custodian # None /\ ~(op[p].seen.delivered /\ c \in scene.reshaped)
       IN \/ /\ delivery[c] # None /\ replaced /\ tip = op[p].custodian
             /\ delivery' = [delivery EXCEPT ![c] = None]
             /\ Goto(p, "unpinning")
          \/ /\ delivery[c] = None \/ ~replaced \/ tip # op[p].custodian
             /\ Goto(p, "unpinning")
             /\ UNCHANGED delivery
          \/ /\ delivery[c] # None /\ replaced /\ tip # op[p].custodian
             /\ Lag(p)
             /\ UNCHANGED delivery
    /\ UNCHANGED <<journal, register, diskVars, pin, tip, recovered, lockVars, late, scene>>

ReleasePin(p) ==
    /\ Phase(p) = "unpinning"
    /\ LET c == Mine(p)
           byTarget == op[p].custodian # None
           byDelivery == ~byTarget /\ c \notin scene.rebased /\ delivery[c] = "tender"
           moved == byTarget /\ tip # op[p].custodian
       IN \/ /\ c \in pin
             /\ ~op[p].seen.delivered \/ byDelivery \/ (byTarget /\ ~moved)
             /\ pin' = pin \ {c}
             /\ Goto(p, "closing")
          \/ /\ c \notin pin \/ (op[p].seen.delivered /\ ~byDelivery /\ (~byTarget \/ moved))
             /\ Goto(p, "closing")
             /\ UNCHANGED pin
          \/ /\ c \in pin /\ op[p].seen.delivered /\ moved
             /\ Lag(p)
             /\ UNCHANGED pin
    /\ UNCHANGED <<journal, register, diskVars, delivery, tip, recovered, lockVars, late, scene>>

Released(p) ==
    /\ fence' = [c \in Contracts |-> IF fence[c] = p THEN None ELSE fence[c]]
    /\ lock' = [c \in Contracts |-> IF lock[c] = p THEN None ELSE lock[c]]

(* Mutation: the fence is kept. *)
CloseFenced(p) ==
    /\ Phase(p) = "closing"
    /\ lock' = [c \in Contracts |-> IF lock[c] = p THEN None ELSE lock[c]]
    /\ op' = [op EXCEPT ![p] = [Idle EXCEPT !.phase = "next", !.batch = op[p].batch, !.queue = op[p].queue,
                                            !.round = op[p].round, !.known = op[p].known,
                                            !.terminal = op[p].terminal, !.lag = op[p].lag]]
    /\ UNCHANGED <<journal, register, diskVars, refVars, recovered, placesLock, fence, late, scene>>

Close(p) ==
    /\ Phase(p) = "closing"
    /\ Released(p)
    /\ op' = [op EXCEPT ![p] = [Idle EXCEPT !.phase = "next", !.batch = op[p].batch, !.queue = op[p].queue,
                                            !.round = op[p].round, !.known = op[p].known,
                                            !.terminal = op[p].terminal, !.lag = op[p].lag]]
    /\ UNCHANGED <<journal, register, diskVars, refVars, recovered, placesLock, late, scene>>

Holding == {"fencing", "surveying", "locating", "pinning", "realizing", "keeping", "sealing",
            "hooking", "resealing", "removing", "weighing", "releasing", "unpinning"}
Fenced == Holding \ {"fencing"}

(* A Git command or a file operation fails, or the fence cannot be had. *)
Falter(p) ==
    /\ Phase(p) \in Holding
    /\ scene.faults > 0
    /\ scene' = [scene EXCEPT !.faults = @ - 1]
    /\ Lag(p)
    /\ UNCHANGED <<journal, register, diskVars, refVars, recovered, lockVars, late>>

(* The process dies: its locks go with its connections. *)
Die(p) ==
    /\ Phase(p) # "idle"
    /\ scene.deaths > 0
    /\ scene' = [scene EXCEPT !.deaths = @ - 1]
    /\ op' = [op EXCEPT ![p] = Idle]
    /\ Released(p)
    /\ placesLock' = IF placesLock = p THEN None ELSE placesLock
    /\ UNCHANGED <<journal, register, diskVars, refVars, recovered, late>>

----------------------------------------------------------------------------
(* Contracts move: other commands admit their facts.                       *)

Bind(c) ==
    /\ "bind" \in scene.fates[c]
    /\ journal[c].standing = "unbound"
    /\ journal' = [journal EXCEPT ![c].standing = "active"]
    /\ UNCHANGED <<register, diskVars, refVars, recovered, lockVars, op, late, scene>>

(* A delivery takes the worktree's content as the contract's tender. *)
Deliver(c) ==
    /\ "deliver" \in scene.fates[c]
    /\ journal[c].standing = "active" /\ ~journal[c].delivered
    /\ register[c] # None /\ tree[register[c]] # None
    /\ tree[register[c]].owner = c
    /\ tree' = [tree EXCEPT ![register[c]] = Tree(c, Tender)]
    /\ journal' = [journal EXCEPT ![c].delivered = TRUE]
    /\ late' = late \cup {register[c]}
    /\ UNCHANGED <<register, registered, refVars, recovered, lockVars, op, scene>>

Claim(c) ==
    /\ "claim" \in scene.fates[c]
    /\ journal[c].standing = "active" /\ journal[c].delivered
    /\ journal' = [journal EXCEPT ![c].standing = "claimed"]
    /\ tip' = IF c \in scene.targetless THEN tip ELSE tip \cup {c}
    /\ UNCHANGED <<register, diskVars, delivery, pin, recovered, lockVars, op, late, scene>>

Abandon(c) ==
    /\ "abandon" \in scene.fates[c]
    /\ journal[c].standing = "active"
    /\ journal' = [journal EXCEPT ![c].standing = "abandoned"]
    /\ UNCHANGED <<register, diskVars, refVars, recovered, lockVars, op, late, scene>>

(* A child contract lands in the worktree while its placement holds the    *)
(* contract's fence.                                                       *)
BeginLanding(c) ==
    /\ scene.landings > 0
    /\ scene' = [scene EXCEPT !.landings = @ - 1]
    /\ journal[c].standing = "active"
    /\ fence[c] = None
    /\ fence' = [fence EXCEPT ![c] = "landing"]
    /\ UNCHANGED <<journal, register, diskVars, refVars, recovered, placesLock, lock, op, late>>

Land(c) ==
    /\ fence[c] = "landing"
    /\ fence' = [fence EXCEPT ![c] = None]
    /\ IF register[c] # None /\ journal[c].standing = "active" /\ tree[register[c]] \notin {None, Foreign}
          THEN /\ tree' = [tree EXCEPT ![register[c]].content.base = "landed"]
               /\ late' = late \cup {register[c]}
          ELSE UNCHANGED <<tree, late>>
    /\ UNCHANGED <<journal, register, registered, refVars, recovered, placesLock, lock, op, scene>>

(* Users work in worktrees, delete them, leave directories where worktrees *)
(* would go, and rewrite the target branch.                                *)
Edit(x) ==
    /\ scene.edits > 0
    /\ scene' = [scene EXCEPT !.edits = @ - 1]
    /\ tree[x] \notin {None, Foreign}
    /\ tree' = [tree EXCEPT ![x].content.edits = @ + 1]
    /\ late' = late \cup {x}
    /\ UNCHANGED <<journal, register, registered, refVars, recovered, lockVars, op>>

Vanish(x) ==
    /\ scene.vanishes > 0
    /\ scene' = [scene EXCEPT !.vanishes = @ - 1]
    /\ \E left \in {None, Foreign} \ {tree[x]} : tree' = [tree EXCEPT ![x] = left]
    /\ UNCHANGED <<journal, register, registered, refVars, recovered, lockVars, op, late>>

Rewrite ==
    /\ scene.rewrites > 0
    /\ scene' = [scene EXCEPT !.rewrites = @ - 1]
    /\ tip' = {}
    /\ UNCHANGED <<journal, register, diskVars, delivery, pin, recovered, lockVars, op, late>>

----------------------------------------------------------------------------
Work(p) ==
    \/ \E batch \in scene.batches[p] : Begin(p, batch)
    \/ OpenRegister(p)
    \/ Appoint(p)
    \/ EndRound(p)
    \/ Dismiss(p)
    \/ Lock(p)
    \/ LockFails(p)
    \/ Fence(p)
    \/ Survey(p)
    \/ Locate(p)
    \/ Pin(p)
    \/ Realize(p)
    \/ Keep(p)
    \/ Seal(p)
    \/ Hook(p)
    \/ Reseal(p)
    \/ RemoveWorktree(p)
    \/ Weigh(p)
    \/ ReleaseDelivery(p)
    \/ ReleasePin(p)
    \/ Close(p)

World ==
    \/ \E c \in Contracts : Bind(c) \/ Deliver(c) \/ Claim(c) \/ Abandon(c) \/ BeginLanding(c) \/ Land(c)
    \/ \E x \in Places : Edit(x) \/ Vanish(x)
    \/ Rewrite

Next ==
    \/ \E p \in Processes : Work(p) \/ Falter(p) \/ Die(p)
    \/ World

Spec == Init /\ [][Next]_vars

(* A reconciliation that has begun goes on unless its process dies, and    *)
(* somebody reconciles the repository again and again; a placement ends.   *)
LiveSpec ==
    /\ Spec
    /\ \A p \in Processes : WF_vars((p \in scene.tireless \/ Phase(p) # "idle") /\ Work(p))
    /\ \A c \in Contracts : WF_vars(Land(c))

----------------------------------------------------------------------------
(* The variables have their types, and locks are held by the processes at  *)
(* work under them, for the contracts that they work on.                   *)
TypeOK ==
    /\ journal \in [Contracts -> [standing : Standings, delivered : BOOLEAN]]
    /\ register \in [Contracts -> Places \cup {None}]
    /\ registered \subseteq Places
    /\ \A x \in Places : tree[x] \in {None, Foreign} \/ tree[x].owner \in Contracts
    /\ delivery \in [Contracts -> {None, "start", "tender"}]
    /\ pin \subseteq Contracts /\ tip \subseteq Contracts \cup {"root"}
    /\ placesLock = None \/ Phase(placesLock) = "appointed"
    /\ \A c \in Contracts :
          /\ lock[c] = None \/ (Phase(lock[c]) \in Holding \cup {"closing"} /\ Mine(lock[c]) = c)
          /\ fence[c] \in {None, "landing"} \/ (Phase(fence[c]) \in Fenced \cup {"closing"} /\ lock[c] = fence[c])
    /\ \A p \in Processes :
          /\ Phase(p) \in Holding => lock[Mine(p)] = p
          /\ Phase(p) \in Fenced => fence[Mine(p)] = p

(* A managed worktree stands at the place that the register appoints to    *)
(* its contract and to no other: places are appointed one at a time under  *)
(* the register's lock, and released only after a cleanup that left        *)
(* nothing (workspace-place.ts withAppointments, library/reconcile.ts      *)
(* releaseEligible).  The types and the custody of the locks hold.         *)
PlacesHeld ==
    /\ TypeOK
    /\ \A x \in Places : tree[x] \notin {None, Foreign} =>
         {c \in Contracts : register[c] = x} = {tree[x].owner}

(* A reconciliation removes the worktree of the contract that it has       *)
(* locked, never that of a contract that has got the place meanwhile       *)
(* (git/reconcile.ts reconcileFreshEffects lists the worktrees first and   *)
(* reads the register afterwards).  Content that no journal fact names     *)
(* goes only with an abandoned contract and a recovery snapshot of just    *)
(* that content; a child's landing never goes.  What changes between the   *)
(* last look and the removal is beyond the code's reach                    *)
(* (git/terminal-reconcile.ts removeSealedTerminalWorktree).               *)
Removes(x) == tree[x] \notin {None, Foreign} /\ tree'[x] = None /\ scene' = scene
OwnBytesSealed ==
    [][\A x \in Places : Removes(x) =>
          /\ \A p \in Processes :
                Phase(p) = "removing" /\ op'[p] # op[p] => tree[x].owner = Mine(p)
          /\ Unsealed(tree[x].content) /\ x \notin late =>
                /\ journal[tree[x].owner].standing = "abandoned"
                /\ tree[x].content.base # "landed"
                /\ tree[x] \in recovered]_vars

(* What keeps a contract's objects in the repository: its start before a   *)
(* delivery, the bytes of its tender and its very integration after it.    *)
TenderKept(c) == \/ delivery[c] = "tender"
                 \/ c \in pin \cup tip /\ c \notin scene.reshaped
IntegrationKept(c) == \/ c \in pin \cup tip
                      \/ delivery[c] = "tender" /\ c \notin scene.rebased
StartKept(c) == delivery[c] = "start" \/ "root" \in tip

(* No step of a reconciliation drops the last ref that keeps a contract's  *)
(* objects; a rewritten target can (git/terminal-reconcile.ts              *)
(* releaseTerminalCustody, removeRefWithCustody).                          *)
CustodyKept ==
    [][\A c \in Contracts :
          scene'.rewrites = scene.rewrites =>
             IF journal[c].delivered
                THEN (TenderKept(c) => TenderKept(c)') /\ (IntegrationKept(c) => IntegrationKept(c)')
             ELSE ~journal'[c].delivered => (StartKept(c) => StartKept(c)')]_vars

(* A worktree that a cleanup has to leave to its user. *)
Retained(c) ==
    /\ tree[register[c]] # None
    /\ \/ tree[register[c]] = Foreign
       \/ /\ Unsealed(tree[register[c]].content)
          /\ journal[c].standing = "claimed" \/ tree[register[c]].content.base = "landed"

(* While somebody reconciles, every terminal contract gives its place back *)
(* in the end, unless its worktree holds what must not go                  *)
(* (library/reconcile.ts completeRepoReconcile).                           *)
CleanedUp ==
    <>[](\A c \in Contracts : Terminal(journal[c]) => register[c] = None \/ Retained(c))
=============================================================================
