------------------------- MODULE VerificationScratch -------------------------
(* Verification attempts, each in a scratch worktree of its own that it runs  *)
(* commands in and then removes or keeps for diagnosis, and the reconciles    *)
(* that collect what nobody owns any more.                                    *)
(*                                                                            *)
(* Sources: verification/execution, git/scratch, git/hooks, git/reconcile.    *)
EXTENDS ProcessGroups, FiniteSets

CONSTANTS
    Attempts,       \* verification attempts; each has a random path for its scene
    Collectors,     \* reconciles, of one contract each
    Slots,          \* the paths where scenes are kept: one per contract and requirement
    Contracts,
    SlotOf,         \* the slot of each attempt
    ContractOf,     \* the contract of each slot
    Commands,       \* how many commands a hook phase may have
    Scenarios,      \* where a behaviour starts, and its bounds
    None

Reports == {"satisfied", "unsatisfied", "cancelled", "environment", "stopped"}
(* Where an attempt may stand when a behaviour starts: before its beginning, *)
(* with its report made and its scene to retire, or with nothing left.       *)
Starts ==
    [at : {"idle"}, outcome : {"none"}] \cup [at : {"retiring"}, outcome : Reports]
    \cup [at : {"done"}, outcome : {"satisfied", "cancelled"}]

(* The name of a scene is random and that of a slot is not; they differ in   *)
(* length.                                                                   *)
ASSUME ScratchAssumption ==
    /\ Owners = Attempts
    /\ SlotOf \in [Attempts -> Slots] /\ ContractOf \in [Slots -> Contracts]
    /\ Attempts \cap Slots = {} /\ Attempts \cap Collectors = {} /\ None \notin Attempts \cup Collectors
    /\ Commands \subseteq Nat /\ IsFiniteSet(Attempts \cup Collectors)
    /\ \A s \in Scenarios :
         /\ s.from \in [Attempts -> Starts] /\ s.terminal \subseteq Contracts
         /\ s.kept \subseteq {SlotOf[a] : a \in Attempts}

VARIABLES
    attempt,        \* per attempt: where it stands, what it found, what it will report
    collector,      \* per reconcile: its list, the path in hand
    scene,          \* per path: whose worktree is there
    lock,           \* per path: who holds the lock file that is there now
    terminal,       \* the contracts that were accepted or abandoned
    left            \* bounds: aborts, failures and deaths that may still happen

Paths == Attempts \cup Slots
vars == <<attempt, collector, scene, lock, terminal, left, proc>>

Init ==
    \E s \in Scenarios :
        /\ attempt = [a \in Attempts |->
             [at |-> s.from[a].at, outcome |-> s.from[a].outcome, limited |-> a \in s.limited, aborted |-> FALSE,
              todo |-> 0, destroy |-> 0, cleanup |-> FALSE, leak |-> "none"]]
        /\ scene = [p \in Paths |-> IF p \in Attempts /\ s.from[p].at = "retiring" THEN p
                                    ELSE IF p \in s.kept THEN CHOOSE a \in Attempts : SlotOf[a] = p ELSE None]
        /\ lock = [p \in Paths |-> IF p \in Attempts /\ s.from[p].at = "retiring" THEN p ELSE None]
        /\ collector = [c \in Collectors |->
             [at |-> IF c \in s.collectors THEN "idle" ELSE "done", todo |-> {}, path |-> None, removed |-> FALSE]]
        /\ terminal = s.terminal /\ left = s.left
        /\ proc = [a \in Attempts |-> NoChild]

-----------------------------------------------------------------------------
(* Failures, locks and removals                                              *)

Works == UNCHANGED left
Fails == left.failures > 0 /\ left' = [left EXCEPT !.failures = @ - 1]

(* A signal to a group may fail, where a group is there to be signalled.     *)
Signalled(a, sent) == IF sent = "sent" THEN Works ELSE GroupExists(a) /\ Fails
Signals == {"sent", "refused", "failed"}

(* To unlink a lock file leaves who holds it with a lock that nobody sees.   *)
TryLock(p, who) == lock[p] = None /\ lock' = [lock EXCEPT ![p] = who]
Released(p, who) == IF lock[p] = who THEN [lock EXCEPT ![p] = None] ELSE lock
Unlinked(p) == [lock EXCEPT ![p] = None]

(* One bounded attempt to remove what is at a path: a failure is reported,   *)
(* whether or not it left something.                                         *)
Removal(p, ok) ==
    \/ ok /\ Works /\ scene' = [scene EXCEPT ![p] = None]
    \/ ~ok /\ scene[p] # None /\ Fails /\ \E rest \in {scene[p], None} : scene' = [scene EXCEPT ![p] = rest]

At(a, places) == attempt[a].at \in places
GoTo(a, place) == attempt' = [attempt EXCEPT ![a].at = place]
Report(a, outcome, place) == attempt' = [attempt EXCEPT ![a].outcome = outcome, ![a].at = place]

(* An error is put down to the caller's abort if there was one.              *)
Excused(a, outcome) == IF attempt[a].aborted THEN "cancelled" ELSE outcome
Finish(a) == Report(a, IF attempt[a].outcome = "none" THEN Excused(a, "unavailable") ELSE attempt[a].outcome, "done")

-----------------------------------------------------------------------------
(* The scene is made                                                         *)

(* Mutation: the scene is made before it is locked.                          *)
BeginUnlocked(a) ==
    /\ At(a, {"idle"}) /\ Works
    /\ scene' = [scene EXCEPT ![a] = a]
    /\ GoTo(a, "adding")
    /\ UNCHANGED <<collector, lock, terminal, proc>>
Begin(a) ==
    /\ At(a, {"idle"})
    /\ \/ attempt[a].aborted /\ Works /\ Finish(a) /\ UNCHANGED lock
       \/ ~attempt[a].aborted /\ Works /\ TryLock(a, a) /\ GoTo(a, "adding")
       \/ ~attempt[a].aborted /\ Fails /\ Finish(a) /\ UNCHANGED lock
    /\ UNCHANGED <<collector, scene, terminal, proc>>

(* The caller's abort ends the Git child, at any point of its work.          *)
Add(a) ==
    /\ At(a, {"adding"})
    /\ \/ Works /\ scene' = [scene EXCEPT ![a] = a] /\ GoTo(a, "settings")
       \/ /\ IF attempt[a].aborted THEN Works ELSE Fails
          /\ \E part \in {a, None} : scene' = [scene EXCEPT ![a] = part]
          /\ GoTo(a, "undoing")
    /\ UNCHANGED <<collector, lock, terminal, proc>>
Undo(a) ==
    /\ At(a, {"undoing"})
    /\ \E ok \in BOOLEAN :
         /\ Removal(a, ok)
         /\ attempt' = [attempt EXCEPT ![a].at = "undone", ![a].leak = IF ok THEN "none" ELSE "own"]
    /\ UNCHANGED <<collector, lock, terminal, proc>>

(* The hooks are read in the scene; without them nothing is cleaned up.      *)
ReadHooks(a) ==
    /\ At(a, {"settings"})
    /\ \/ attempt[a].aborted /\ Works /\ Report(a, "cancelled", "retiring")
       \/ ~attempt[a].aborted /\ Fails /\ Report(a, "environment", "retiring")
       \/ /\ ~attempt[a].aborted /\ Works
          /\ \E create, destroy \in Commands :
               attempt' = [attempt EXCEPT ![a].at = "setup", ![a].todo = create, ![a].destroy = destroy]
    /\ UNCHANGED <<collector, scene, lock, terminal, proc>>

-----------------------------------------------------------------------------
(* Commands are run in it: the create hooks, the declaration, and, whatever  *)
(* came of those, the destroy hooks, which no abort reaches.                  *)

Phases == {"setup", "checking", "cleaning"}
Verdict == [zero |-> "satisfied", other |-> "unsatisfied", timeout |-> "unsatisfied", cancelled |-> "cancelled",
            unknown |-> "stopped", spawn |-> "stopped"]

Cleaning(a, outcome) ==
    attempt' = [attempt EXCEPT ![a].outcome = outcome, ![a].at = "cleaning", ![a].todo = attempt[a].destroy]
NextCommand(a) == attempt' = [attempt EXCEPT ![a].todo = @ - 1]

(* What a command's result does to its attempt. A termination that failed is *)
(* thrown: past the destroy hooks, or, from these, past the retirement.      *)
AfterCommand(a, result) ==
    IF result = "thrown" THEN IF At(a, {"cleaning"}) THEN GoTo(a, "lost")
                              ELSE Report(a, Excused(a, "environment"), "retiring")
    ELSE IF At(a, {"checking"}) THEN Cleaning(a, Verdict[result])
    ELSE IF result = "zero" THEN NextCommand(a)
    ELSE IF At(a, {"setup"}) THEN Cleaning(a, IF result = "cancelled" THEN "cancelled" ELSE "environment")
    ELSE attempt' = [attempt EXCEPT ![a].cleanup = TRUE, ![a].at = "retiring"]

PhaseEnds(a) ==
    /\ attempt[a].todo = 0 /\ ~Running(a)
    /\ \/ At(a, {"setup"}) /\ GoTo(a, "checking")
       \/ At(a, {"cleaning"}) /\ GoTo(a, "retiring")
    /\ UNCHANGED <<collector, scene, lock, terminal, left, proc>>
StartsCommand(a) ==
    /\ At(a, Phases) /\ ~Running(a) /\ (attempt[a].todo > 0 \/ At(a, {"checking"}))
    /\ \/ attempt[a].aborted /\ ~At(a, {"cleaning"}) /\ Works /\ AfterCommand(a, "cancelled") /\ UNCHANGED proc
       \/ /\ attempt[a].aborted => At(a, {"cleaning"})
          /\ \/ Fails /\ AfterCommand(a, "spawn") /\ UNCHANGED proc
             \/ /\ Works /\ UNCHANGED attempt
                /\ \E crew, keeps \in BOOLEAN :
                     /\ keeps => crew
                     /\ proc' = [proc EXCEPT ![a] = Child(attempt[a].limited \/ ~At(a, {"checking"}), crew, keeps)]
    /\ UNCHANGED <<collector, scene, lock, terminal>>
CommandReturns(a) ==
    /\ Returns(a) /\ Works
    /\ Reap(a) /\ AfterCommand(a, Outcome(a))
    /\ UNCHANGED <<collector, scene, lock, terminal>>

(* The steps of a group that its attempt takes, and those it does not.       *)
Supervises(a) ==
    /\ \/ Works /\ Stage(a)
       \/ \E sent \in Signals :
            Signalled(a, sent) /\ (LimitPasses(a, sent) \/ SeeExit(a, sent) \/ GraceOver(a, sent))
    /\ UNCHANGED <<attempt, collector, scene, lock, terminal>>
GivesUp(a) == Fails /\ GiveUp(a) /\ UNCHANGED <<attempt, collector, scene, lock, terminal>>
Exits(a) == (LeaderExits(a) \/ CrewEnds(a)) /\ UNCHANGED <<attempt, collector, scene, lock, terminal, left>>
Killed(a) == KernelKills(a) /\ UNCHANGED <<attempt, collector, scene, lock, terminal, left>>

(* An abort stops the command that is running, before anything else is seen. *)
Abort(a) ==
    /\ ~attempt[a].aborted /\ left.aborts > 0 /\ ~At(a, {"done", "lost", "dead"})
    /\ attempt' = [attempt EXCEPT ![a].aborted = TRUE]
    /\ IF Stoppable(a) /\ At(a, {"setup", "checking"})
         THEN /\ \E sent \in Signals :
                   /\ RequestStop(a, "cancelled", sent)
                   /\ sent # "sent" => GroupExists(a) /\ left.failures > 0
                   /\ left' = [left EXCEPT !.aborts = @ - 1, !.failures = IF sent = "sent" THEN @ ELSE @ - 1]
         ELSE left' = [left EXCEPT !.aborts = @ - 1] /\ UNCHANGED proc
    /\ UNCHANGED <<collector, scene, lock, terminal>>

-----------------------------------------------------------------------------
(* The scene is removed, or kept in its slot                                 *)

(* Mutation: only a verdict keeps its scene.                                 *)
RetainedVerdict(a) == attempt[a].outcome = "unsatisfied"
Retained(a) == attempt[a].outcome \notin {"satisfied", "cancelled"}

RemoveOwn(a) ==
    /\ \/ At(a, {"retiring"}) /\ ~Retained(a)
       \/ At(a, {"busy", "falling"})
    /\ \E ok \in BOOLEAN :
         /\ Removal(a, ok)
         /\ attempt' = [attempt EXCEPT ![a].at = "closing",
                ![a].leak = IF ~ok THEN "own" ELSE IF Retained(a) THEN "unnamed" ELSE "none"]
    /\ lock' = IF At(a, {"falling"}) THEN Released(SlotOf[a], a) ELSE lock
    /\ UNCHANGED <<collector, terminal, proc>>

(* The slot is waited for, for so long.                                      *)
TakeSlot(a) ==
    /\ At(a, {"retiring"}) /\ Retained(a)
    /\ \/ Works /\ TryLock(SlotOf[a], a) /\ GoTo(a, "replacing")
       \/ (IF lock[SlotOf[a]] # None THEN Works ELSE Fails) /\ GoTo(a, "busy") /\ UNCHANGED lock
    /\ UNCHANGED <<collector, scene, terminal, proc>>
Replace(a) ==
    /\ At(a, {"replacing"})
    /\ \E ok \in BOOLEAN : Removal(SlotOf[a], ok) /\ GoTo(a, IF ok THEN "moving" ELSE "falling")
    /\ UNCHANGED <<collector, lock, terminal, proc>>

Moved(a) == [scene EXCEPT ![a] = None, ![SlotOf[a]] = a]
(* Git moves no worktree to where something is; its failure may come after   *)
(* the move.                                                                 *)
Move(a) ==
    /\ At(a, {"moving"})
    /\ \/ /\ Works /\ scene[SlotOf[a]] = None
          /\ scene' = Moved(a)
          /\ attempt' = [attempt EXCEPT ![a].at = "closing", ![a].leak = "kept"]
          /\ lock' = Released(SlotOf[a], a)
       \/ /\ IF scene[SlotOf[a]] # None THEN Works /\ UNCHANGED scene ELSE Fails /\ scene' \in {scene, Moved(a)}
          /\ GoTo(a, "falling") /\ UNCHANGED lock
    /\ UNCHANGED <<collector, terminal, proc>>

(* The lock file of a scene that is gone goes too, after its release.        *)
Close(a) ==
    /\ At(a, {"closing", "undone"})
    /\ lock' = Released(a, a)
    /\ IF At(a, {"undone"}) /\ attempt[a].leak # "none" THEN Finish(a) ELSE GoTo(a, "unlinking")
    /\ UNCHANGED <<collector, scene, terminal, left, proc>>
Unlink(a) ==
    /\ At(a, {"unlinking"})
    /\ lock' = IF scene[a] = None THEN Unlinked(a) ELSE lock
    /\ Finish(a)
    /\ UNCHANGED <<collector, scene, terminal, left, proc>>

-----------------------------------------------------------------------------
(* Reconciles                                                                *)

(* Mutation: what a living contract keeps is collected too.                  *)
CollectableAny(k) ==
    {p \in Paths : scene[p] # None /\ (p \in Slots => ContractOf[p] = k)}
(* The registered scenes, but for those kept by other contracts or by one    *)
(* that is not known to have ended.                                          *)
Collectable(k) ==
    {p \in Paths : scene[p] # None /\ (p \in Slots => ContractOf[p] = k /\ k \in terminal)}
List(c) ==
    /\ collector[c].at = "idle"
    /\ \E k \in Contracts :
         collector' = [collector EXCEPT ![c].at = "looking", ![c].todo = Collectable(k)]
    /\ UNCHANGED <<attempt, scene, lock, terminal, left, proc>>
TryNext(c) ==
    /\ collector[c].at = "looking"
    /\ IF collector[c].todo = {} THEN collector' = [collector EXCEPT ![c].at = "done"] /\ UNCHANGED lock
       ELSE \E p \in collector[c].todo :
              \/ TryLock(p, c)
                 /\ collector' = [collector EXCEPT ![c].at = "removing", ![c].path = p, ![c].todo = @ \ {p}]
              \/ lock[p] # None /\ collector' = [collector EXCEPT ![c].todo = @ \ {p}] /\ UNCHANGED lock
    /\ UNCHANGED <<attempt, scene, terminal, left, proc>>
Collect(c) ==
    /\ collector[c].at = "removing"
    /\ \E ok \in BOOLEAN :
         /\ Removal(collector[c].path, ok)
         /\ collector' = [collector EXCEPT ![c].at = "releasing", ![c].removed = ok]
    /\ UNCHANGED <<attempt, lock, terminal, proc>>

(* Mutation: the lock file of every scene that was removed is unlinked.      *)
SpentAny(c) == collector[c].removed
(* A slot is used again, so its lock file stays.                             *)
Spent(c) == collector[c].removed /\ collector[c].path \in Attempts
Release(c) ==
    /\ collector[c].at = "releasing"
    /\ lock' = Released(collector[c].path, c)
    /\ collector' = [collector EXCEPT ![c].at = IF Spent(c) THEN "unlinking" ELSE "looking"]
    /\ UNCHANGED <<attempt, scene, terminal, left, proc>>
UnlinkCollected(c) ==
    /\ collector[c].at = "unlinking"
    /\ lock' = Unlinked(collector[c].path)
    /\ collector' = [collector EXCEPT ![c].at = "looking"]
    /\ UNCHANGED <<attempt, scene, terminal, left, proc>>

-----------------------------------------------------------------------------
(* Contracts end, and processes die: the locks go, the commands stay.        *)

ContractEnds(k) ==
    /\ terminal' = terminal \cup {k} /\ k \notin terminal
    /\ UNCHANGED <<attempt, collector, scene, lock, left, proc>>
Dropped(who) == [p \in Paths |-> IF lock[p] = who THEN None ELSE lock[p]]
Mortal == left.deaths > 0 /\ left' = [left EXCEPT !.deaths = @ - 1]
AttemptDies(a) ==
    /\ Mortal /\ ~At(a, {"idle", "done", "dead"})
    /\ GoTo(a, "dead") /\ lock' = Dropped(a)
    /\ proc' = [proc EXCEPT ![a].at = IF @ = "running" THEN "stray" ELSE @]
    /\ UNCHANGED <<collector, scene, terminal>>
CollectorDies(c) ==
    /\ Mortal /\ collector[c].at \notin {"idle", "done", "dead"}
    /\ collector' = [collector EXCEPT ![c].at = "dead"] /\ lock' = Dropped(c)
    /\ UNCHANGED <<attempt, scene, terminal, proc>>

Runtime(a) ==
    \/ Begin(a) \/ Add(a) \/ Undo(a) \/ ReadHooks(a) \/ PhaseEnds(a) \/ StartsCommand(a) \/ CommandReturns(a)
    \/ Supervises(a) \/ RemoveOwn(a) \/ TakeSlot(a) \/ Replace(a) \/ Move(a) \/ Close(a) \/ Unlink(a)
Reconcile(c) == List(c) \/ TryNext(c) \/ Collect(c) \/ Release(c) \/ UnlinkCollected(c)
Next ==
    \/ \E a \in Attempts :
         Runtime(a) \/ GivesUp(a) \/ Exits(a) \/ Killed(a) \/ Abort(a) \/ AttemptDies(a)
    \/ \E c \in Collectors : Reconcile(c) \/ CollectorDies(c)
    \/ \E k \in Contracts : ContractEnds(k)

Spec == Init /\ [][Next]_vars
(* A command may hang; a runtime that lives goes on, and the kernel kills.   *)
LiveSpec == Spec /\ \A a \in Attempts : WF_vars(Runtime(a)) /\ WF_vars(Killed(a))

-----------------------------------------------------------------------------
Over(a) == At(a, {"done", "dead"})
Owning(a) == ~At(a, {"idle", "unlinking", "done", "dead"})
Handling(a) == At(a, {"replacing", "moving", "falling"})
Hands(p) ==
    {a \in Attempts : (p = a /\ Owning(a)) \/ (p = SlotOf[a] /\ Handling(a))}
    \cup {c \in Collectors : collector[c].path = p /\ collector[c].at = "removing"}

(* Lock files come and go, some while they are held or waited for. Nobody    *)
(* ever works on a scene that another works on, and nobody prepares a slot   *)
(* that another prepares (scratch.ts: collectableScratchWorktrees,            *)
(* removeOwnershipLock, retainScratch).                                      *)
OneHand ==
    /\ scene \in [Paths -> Attempts \cup {None}] /\ lock \in [Paths -> Attempts \cup Collectors \cup {None}]
    /\ \A p \in Paths : scene[p] # None \/ p \in Slots => Cardinality(Hands(p)) <= 1

(* A scene goes by its own attempt, whose commands have all ended unless     *)
(* they could not be ended; or, when that attempt is over, by a reconcile.   *)
(* One that was kept goes for a later failure of the same requirement or     *)
(* when its contract has ended (docs/verification.md:113-125; scratch.ts:    *)
(* retainScratch, removeCollectableScratchWorktrees).                        *)
ScenesKept ==
    [][\A p \in Paths : scene[p] # None /\ scene'[p] # scene[p] =>
         \/ /\ p = scene[p] /\ attempt'[p] # attempt[p]
            /\ Alive(p) => proc[p].term = "failed"
         \/ /\ \E c \in Collectors : collector'[c] # collector[c] /\ collector[c].path = p
            /\ p \in Attempts => Over(p) \/ At(p, {"unlinking"})
            /\ p \in Slots => ContractOf[p] \in terminal
         \/ \E a \in Attempts : p = SlotOf[a] /\ attempt'[a] # attempt[a] /\ Retained(a)]_vars

(* Who ends without a word left no scene behind; a failing attempt always    *)
(* has a word on its scene, and one that passed or was cancelled never keeps *)
(* it (execution.ts: materializeScratch, retireScratch). No command is left  *)
(* behind either, with one exception: a group whose termination failed. Of   *)
(* that an attempt that was aborted says nothing: it is "cancelled", and the *)
(* failure is swallowed (execution.ts:276-281).                              *)
HonestRetirement ==
    \A a \in Attempts : At(a, {"done"}) =>
        /\ attempt[a].leak = "none" => scene[a] = None
        /\ attempt[a].outcome \in {"unsatisfied", "environment", "stopped"} => attempt[a].leak # "none"
        /\ attempt[a].outcome \in {"satisfied", "cancelled"} => attempt[a].leak \in {"none", "own"}
        /\ Alive(a) => proc[a].term = "failed"

(* An attempt whose commands are limited in time, or that is aborted, ends,  *)
(* though its commands hang, ignore SIGTERM or keep their output open,       *)
(* unless a group cannot be ended while the destroy hooks run                *)
(* (run.ts: executeProcess; termination.ts: terminateOwnedProcess).          *)
AttemptsEnd ==
    \A a \in Attempts :
        (~At(a, {"idle"}) /\ (attempt[a].limited \/ attempt[a].aborted)) ~> (Over(a) \/ At(a, {"lost"}))
=============================================================================
