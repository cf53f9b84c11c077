----------------------------- MODULE Settlement -----------------------------
(***************************************************************************)
(* How keiyaku ties debts to contracts.  A contract may be bound for a     *)
(* debt; the private state root then names it as the debt's holder, in the *)
(* commit that admits the bind.  When the contract is claimed, settlement  *)
(* completes the debt and, last, releases the holder; what fails on the    *)
(* way is a lag that a later reconcile takes up again.  A fence per debt   *)
(* keeps a settlement and a bind of the same debt apart, the publication   *)
(* seat serialises the writers of the root, and the debt store has locks   *)
(* of its own.  A process may die at any point; a Git child that was       *)
(* publishing for it goes on by itself.                                    *)
(*                                                                         *)
(* The debt store is the part of this module that DebtStore defines; what  *)
(* admission itself decides is the business of ContractProtocol.           *)
(***************************************************************************)
EXTENDS DebtStore

CONSTANTS Contracts, Scenarios

MaxAttempts == 3                      \* MAX_SEMANTIC_ATTEMPTS

ContractVerbs == {"bind", "accept", "abandon", "settle"}

(* What a process may be asked for: only a bind names a debt.              *)
Invocations ==
    [verb : {"bind"}, contract : Contracts, debt : DebtIds \cup {None}]
    \cup [verb : ContractVerbs \ {"bind"}, contract : Contracts, debt : {None}]
    \cup [verb : {"order"}, order : Orders]

(* Where an instance begins: a contract holds at most one debt, and holds  *)
(* it while it is active or claimed.                                       *)
Scenes == [agenda : [Workers -> Seq(Invocations)],
           standing : [Contracts -> {"none", "active", "claimed", "abandoned"}],
           holds : [DebtIds -> Contracts \cup {None}],
           boards : SUBSET Boards,
           budget : [edits : Nat, faults : Nat, kills : Nat, mortal : SUBSET Workers]]

ASSUME SettlementAssumption ==
    /\ None \notin Contracts \cup ContractVerbs \cup {"released", "inert", "held"}
                    \cup [contract : Contracts, disposition : {"held", "released"}]
    /\ Scenarios \subseteq Scenes
    /\ \A s \in Scenarios : \A d \in DebtIds : s.holds[d] # None =>
          /\ s.standing[s.holds[d]] \in {"active", "claimed"}
          /\ \A e \in DebtIds : s.holds[e] = s.holds[d] => e = d

VARIABLES
    standing, holder,      \* contracts and DebtHolders, as the root has them
    root,                  \* the commit that GIT_REF names, counted from the first
    seat,                  \* the holder of private-state.sqlite, or None
    fence,                 \* the holder of each debt's settlement fence, or None
    proc,                  \* each process's control state
    orphans,               \* ref transactions whose process died
    paid                   \* history, as in DebtOwnership

rootVars == <<standing, holder, root>>
vars == <<storeVars, rootVars, seat, fence, proc, orphans, paid>>

Idle == [phase |-> "idle", agenda |-> <<>>, verb |-> None, contract |-> None, debt |-> None, attempt |-> 0,
         offer |-> None, disposition |-> None, lag |-> FALSE, result |-> None]

Init ==
    \E s \in Scenarios :
        /\ \E board \in s.boards : StoreInit(board, s.budget)
        /\ standing = s.standing
        /\ holder = [d \in DebtIds |->
                       IF s.holds[d] = None THEN None ELSE [contract |-> s.holds[d], disposition |-> "held"]]
        /\ root = 0
        /\ seat = None
        /\ fence = [d \in DebtIds |-> None]
        /\ proc = [w \in Workers |-> [Idle EXCEPT !.agenda = s.agenda[w]]]
        /\ orphans = {}
        /\ paid = {}

----------------------------------------------------------------------------
Phase(w) == proc[w].phase
HolderOf(w) == holder[proc[w].debt]
HeldBy(c) == [contract |-> c, disposition |-> "held"]
ReleasedBy(c) == [contract |-> c, disposition |-> "released"]

(* The one debt that a contract holds, or None. *)
HeldDebt(c) == IF \E d \in DebtIds : holder[d] = HeldBy(c) THEN CHOOSE d \in DebtIds : holder[d] = HeldBy(c) ELSE None

(* observeApplicableHolder: only a claimed contract that still holds a debt has anything to settle. *)
Applicable(c) == IF standing[c] = "claimed" THEN HeldDebt(c) ELSE None

Goto(w, phase) == proc' = [proc EXCEPT ![w].phase = phase]
Ended(p, result) == [Idle EXCEPT !.agenda = p.agenda, !.lag = p.lag, !.result = result]

(* An accepted claim is followed by the settlement of its contract. *)
AfterAdmission(p, result) ==
    IF p.verb = "accept" /\ result = "accepted"
       THEN [Idle EXCEPT !.phase = "hinting", !.agenda = p.agenda, !.verb = "settle", !.contract = p.contract]
       ELSE Ended(p, result)

Unfenced(p) == IF p.verb = "settle" THEN Ended(p, p.result) ELSE AfterAdmission(p, p.result)

(* The end of an invocation, by way of the fence when it holds one. *)
Leaving(p, result) ==
    IF p.debt # None THEN [p EXCEPT !.phase = "unfencing", !.result = result]
    ELSE Unfenced([p EXCEPT !.result = result])
Leave(w, result) == proc' = [proc EXCEPT ![w] = Leaving(@, result)]
Lagging(p, result) == Leaving([p EXCEPT !.lag = TRUE], result)

Fault == budget.faults > 0 /\ budget' = [budget EXCEPT !.faults = @ - 1]
StoreStill == UNCHANGED <<debts, author, custody, task>>

----------------------------------------------------------------------------
(* An invocation begins.  One that releases looks for the debt first; the  *)
(* order of a debt command goes to the debt store.                         *)

FirstPhase(op) ==
    CASE op.verb = "bind" -> IF op.debt = None THEN "waiting" ELSE "fencing"
      [] op.verb = "accept" -> "waiting"
      [] op.verb \in {"abandon", "settle"} -> "hinting"

Begin(w) ==
    /\ Phase(w) = "idle" /\ Doing(w, "idle")
    /\ proc[w].agenda # <<>>
    /\ LET op == Head(proc[w].agenda)
           rest == [Idle EXCEPT !.agenda = Tail(proc[w].agenda)]
       IN IF op.verb = "order"
             THEN /\ StartTask(w, op.order)
                  /\ proc' = [proc EXCEPT ![w] = [rest EXCEPT !.phase = "ordering", !.verb = "order"]]
             ELSE /\ proc' = [proc EXCEPT ![w] =
                                [rest EXCEPT !.phase = FirstPhase(op), !.verb = op.verb, !.contract = op.contract,
                                             !.debt = op.debt, !.attempt = 1]]
                  /\ UNCHANGED task
    /\ UNCHANGED <<debts, author, custody, budget, rootVars, seat, fence, orphans, paid>>

Ordered(w) ==
    /\ Phase(w) = "ordering" /\ Doing(w, "idle")
    /\ proc' = [proc EXCEPT ![w] = Ended(@, task[w].result)]
    /\ UNCHANGED <<storeVars, rootVars, seat, fence, orphans, paid>>

(* Without a held debt an abandonment needs no fence, and a settlement is over. *)
Hint(w) ==
    /\ Phase(w) = "hinting"
    /\ LET c == proc[w].contract
           d == IF proc[w].verb = "abandon" THEN HeldDebt(c) ELSE Applicable(c)
       IN IF d # None THEN proc' = [proc EXCEPT ![w].phase = "fencing", ![w].debt = d]
          ELSE IF proc[w].verb = "abandon" THEN Goto(w, "waiting")
          ELSE proc' = [proc EXCEPT ![w] = Ended(@, "inert")]
    /\ UNCHANGED <<storeVars, rootVars, seat, fence, orphans, paid>>

(* The fence is waited for without a limit. *)
AcquireFence(w) ==
    /\ Phase(w) = "fencing"
    /\ fence[proc[w].debt] = None
    /\ fence' = [fence EXCEPT ![proc[w].debt] = w]
    /\ Goto(w, IF proc[w].verb = "settle" THEN "confirming" ELSE "waiting")
    /\ UNCHANGED <<storeVars, rootVars, seat, orphans, paid>>

(* The read of the root, or the fence's database, fails. *)
ObservationFails(w) ==
    /\ Phase(w) \in {"hinting", "fencing"}
    /\ Fault
    /\ proc' = [proc EXCEPT ![w] = IF @.verb = "settle" THEN Ended([@ EXCEPT !.lag = TRUE], "lagging")
                                   ELSE Ended(@, "thrown")]
    /\ UNCHANGED <<rootVars, seat, fence, orphans, paid>> /\ StoreStill

----------------------------------------------------------------------------
(* Settlement, under the fence: the holder is observed again, ...          *)

(* Mutation: the hint is trusted. *)
ConfirmHint(w) ==
    /\ Phase(w) = "confirming"
    /\ Goto(w, "paying")
    /\ UNCHANGED <<storeVars, rootVars, seat, fence, orphans, paid>>

Confirm(w) ==
    /\ Phase(w) = "confirming"
    /\ IF Applicable(proc[w].contract) = proc[w].debt THEN Goto(w, "paying") ELSE Leave(w, "inert")
    /\ UNCHANGED <<storeVars, rootVars, seat, fence, orphans, paid>>

ConfirmFails(w) ==
    /\ Phase(w) \in {"confirming", "paying"}       \* the observation, or the world of the debt (World.at)
    /\ Fault
    /\ proc' = [proc EXCEPT ![w] = Lagging(@, "lagging")]
    /\ UNCHANGED <<rootVars, seat, fence, orphans, paid>> /\ StoreStill

(* ... the debt is completed by the debt store, ...                        *)
Pay(w) ==
    /\ Phase(w) = "paying" /\ Doing(w, "idle")
    /\ StartTask(w, [verb |-> "settle", ids |-> <<proc[w].debt>>])
    /\ Goto(w, "settling")
    /\ UNCHANGED <<debts, author, custody, budget, rootVars, seat, fence, orphans, paid>>

(* Mutation: whatever the debt store answers, the holder is released. *)
PaidAnyhow(w) ==
    /\ Phase(w) = "settling" /\ Doing(w, "idle")
    /\ IF task[w].result = "thrown" THEN proc' = [proc EXCEPT ![w] = Leaving(@, "thrown")]
       ELSE Goto(w, "waiting")
    /\ UNCHANGED <<storeVars, rootVars, seat, fence, orphans, paid>>

Paid(w) ==
    /\ Phase(w) = "settling" /\ Doing(w, "idle")
    /\ LET result == task[w].result IN
       CASE result \in {"changed", "unchanged"} -> Goto(w, "waiting")
         [] result \in {"thrown", "corrupt"} -> proc' = [proc EXCEPT ![w] = Leaving(@, "thrown")]
         [] OTHER -> proc' = [proc EXCEPT ![w] = Lagging(@, "lagging")]
    /\ UNCHANGED <<storeVars, rootVars, seat, fence, orphans, paid>>

(* What the debt store does for its processes.  Settling a debt pays for   *)
(* the contract when the debt is found done, or is renamed to done.        *)
PaysNow(w) ==
    /\ Phase(w) = "settling"
    /\ \/ Doing(w, "renaming")
       \/ Doing(w, "judging") /\ task'[w].result = "unchanged"

StoreStep(w) ==
    /\ TaskStep(w) \/ TaskFault(w)
    /\ paid' = IF PaysNow(w) THEN paid \cup {<<proc[w].contract, proc[w].debt>>} ELSE paid
    /\ UNCHANGED <<rootVars, seat, fence, proc, orphans>>

----------------------------------------------------------------------------
(* The publication seat, and what is decided under it. *)

AcquireSeat(w) ==
    /\ Phase(w) = "waiting"
    /\ seat = None
    /\ seat' = w
    /\ Goto(w, "seated")
    /\ UNCHANGED <<storeVars, rootVars, fence, orphans, paid>>

(* Fifteen seconds without the seat.  Admission reports contention; for    *)
(* settlement it is not among the operational errors (operational).        *)
SeatTimeout(w) ==
    /\ Phase(w) = "waiting"
    /\ seat # None
    /\ proc' = [proc EXCEPT ![w] = IF @.verb = "settle" THEN Leaving(@, "thrown")
                                   ELSE Leaving(@, "contended")]
    /\ UNCHANGED <<storeVars, rootVars, seat, fence, orphans, paid>>

Close(w, result) == proc' = [proc EXCEPT ![w].phase = "closing", ![w].result = result]
CloseWith(w, disposition) ==
    proc' = [proc EXCEPT ![w].phase = "closing", ![w].result = disposition, ![w].disposition = disposition,
                         ![w].lag = @ \/ disposition = "held"]

Offer(w, taken, freed) ==
    proc' = [proc EXCEPT ![w].phase = "publishing",
                         ![w].offer = [seen |-> root, verb |-> proc[w].verb, contract |-> proc[w].contract,
                                       taken |-> taken, freed |-> freed]]

MayDecide(w) ==
    CASE proc[w].verb = "bind" -> standing[proc[w].contract] = "none"
      [] OTHER -> standing[proc[w].contract] = "active"

(* An abandonment releases what its contract still holds, whatever it hinted at. *)
DecideAdmission(w) ==
    /\ Phase(w) = "seated" /\ proc[w].verb # "settle"
    /\ IF ~MayDecide(w) THEN Close(w, "refused")
       ELSE Offer(w, IF proc[w].verb = "bind" THEN proc[w].debt ELSE None,
                     IF proc[w].verb = "abandon" THEN HeldDebt(proc[w].contract) ELSE None)
    /\ UNCHANGED <<storeVars, rootVars, seat, fence, orphans, paid>>

DecideRelease(w) ==
    /\ Phase(w) = "seated" /\ proc[w].verb = "settle"
    /\ IF Applicable(proc[w].contract) # proc[w].debt THEN CloseWith(w, "inert")
       ELSE Offer(w, None, proc[w].debt)
    /\ UNCHANGED <<storeVars, rootVars, seat, fence, orphans, paid>>

----------------------------------------------------------------------------
(* One ref transaction: the root is compared, and names the next commit.   *)

After(o) == CASE o.verb = "bind" -> "active"
              [] o.verb = "accept" -> "claimed"
              [] o.verb = "abandon" -> "abandoned"

(* Mutation: the root is not compared with what was observed. *)
PremiseNone(o) == TRUE

Premise(o) == root = o.seen

Commit(o) ==
    /\ Premise(o)
    /\ root' = root + 1
    /\ standing' = IF o.verb = "settle" THEN standing ELSE [standing EXCEPT ![o.contract] = After(o)]
    /\ holder' = [d \in DebtIds |-> IF d = o.taken THEN HeldBy(o.contract)
                                    ELSE IF d = o.freed THEN ReleasedBy(o.contract) ELSE holder[d]]

Settled(w) == IF proc[w].verb = "settle" THEN CloseWith(w, "released") ELSE Close(w, "accepted")

(* Mutation: a release that was not published is not reported. *)
NotSettledQuiet(w) == IF proc[w].verb = "settle" THEN CloseWith(w, "inert") ELSE Close(w, "retry")

NotSettled(w) == IF proc[w].verb = "settle" THEN CloseWith(w, "held") ELSE Close(w, "retry")

Publish(w) ==
    /\ Phase(w) = "publishing"
    /\ Commit(proc[w].offer)
    /\ Settled(w)
    /\ UNCHANGED <<storeVars, seat, fence, orphans, paid>>

Reject(w) ==
    /\ Phase(w) = "publishing"
    /\ ~Premise(proc[w].offer)
    /\ NotSettled(w)
    /\ UNCHANGED <<storeVars, rootVars, seat, fence, orphans, paid>>

(* Git dies on a signal, before or after it committed. *)
Kill(w) ==
    /\ Phase(w) = "publishing"
    /\ budget.kills > 0
    /\ budget' = [budget EXCEPT !.kills = @ - 1]
    /\ \/ Commit(proc[w].offer)
       \/ UNCHANGED rootVars
    /\ Goto(w, "unknown")
    /\ UNCHANGED <<seat, fence, orphans, paid>> /\ StoreStill

(* Mutation: a release of unknown outcome is taken to have happened. *)
ShowsTransactionSurely(o) == o.verb = "settle" \/ standing[o.contract] = After(o)

(* Only a fresh read says that it happened. *)
ShowsTransaction(o) ==
    IF o.verb = "settle" THEN holder[o.freed] = ReleasedBy(o.contract) ELSE standing[o.contract] = After(o)

Recover(w) ==
    /\ Phase(w) = "unknown"
    /\ IF ShowsTransaction(proc[w].offer) THEN Settled(w) ELSE NotSettled(w)
    /\ UNCHANGED <<storeVars, rootVars, seat, fence, orphans, paid>>

(* The fresh read fails: a lag of the settlement, an exception otherwise. *)
RecoverFails(w) ==
    /\ Phase(w) = "unknown"
    /\ Fault
    /\ IF proc[w].verb = "settle" THEN CloseWith(w, "held") ELSE Close(w, "thrown")
    /\ UNCHANGED <<rootVars, seat, fence, orphans, paid>> /\ StoreStill

----------------------------------------------------------------------------
(* The seat is closed, then the fence. *)

Again(p) == [p EXCEPT !.phase = "waiting", !.attempt = @ + 1, !.offer = None, !.result = None]

CloseSeat(w) ==
    /\ Phase(w) = "closing"
    /\ seat' = None
    /\ proc' = [proc EXCEPT ![w] = IF @.result # "retry" THEN Leaving(@, @.result)
                                   ELSE IF @.attempt = MaxAttempts THEN Leaving(@, "exhausted") ELSE Again(@)]
    /\ UNCHANGED <<storeVars, rootVars, fence, orphans, paid>>

(* Its database fails to close: nothing is lost once a publication is      *)
(* confirmed; otherwise the error replaces the answer.                     *)
CloseSeatFails(w) ==
    /\ Phase(w) = "closing"
    /\ Fault
    /\ seat' = None
    /\ proc' = [proc EXCEPT ![w] =
                  IF @.result \in {"accepted", "released"} THEN Leaving(@, @.result)
                  ELSE IF @.verb = "settle" THEN Lagging([@ EXCEPT !.disposition = "held"], "held")
                  ELSE Leaving(@, "thrown")]
    /\ UNCHANGED <<rootVars, fence, orphans, paid>> /\ StoreStill

(* Mutation: an inert settlement keeps its fence. *)
UnfenceUnlessInert(w) ==
    /\ Phase(w) = "unfencing"
    /\ fence' = IF proc[w].result = "inert" THEN fence ELSE [fence EXCEPT ![proc[w].debt] = None]
    /\ proc' = [proc EXCEPT ![w] = Unfenced(@)]
    /\ UNCHANGED <<storeVars, rootVars, seat, orphans, paid>>

Unfence(w) ==
    /\ Phase(w) = "unfencing"
    /\ fence' = [fence EXCEPT ![proc[w].debt] = None]
    /\ proc' = [proc EXCEPT ![w] = Unfenced(@)]
    /\ UNCHANGED <<storeVars, rootVars, seat, orphans, paid>>

(* An accepted admission, and a release, survive a fence that fails to close. *)
UnfenceFails(w) ==
    /\ Phase(w) = "unfencing"
    /\ Fault
    /\ fence' = [fence EXCEPT ![proc[w].debt] = None]
    /\ proc' = [proc EXCEPT ![w] =
                  IF @.verb = "settle" THEN Ended([@ EXCEPT !.lag = proc[w].lag \/ proc[w].disposition # "released"], @.result)
                  ELSE IF @.result = "accepted" THEN AfterAdmission(@, "accepted")
                  ELSE Ended(@, "thrown")]
    /\ UNCHANGED <<rootVars, seat, orphans, paid>> /\ StoreStill

----------------------------------------------------------------------------
(* Process death. *)

(* Mutation: fences outlive their process. *)
FreedFencesNever(w) == fence

FreedFences(w) == [d \in DebtIds |-> IF fence[d] = w THEN None ELSE fence[d]]

Crash(w) ==
    /\ Phase(w) # "idle"
    /\ w \in budget.mortal
    /\ budget' = [budget EXCEPT !.mortal = @ \ {w}]
    /\ Die(w)
    /\ seat' = IF seat = w THEN None ELSE seat
    /\ fence' = FreedFences(w)
    /\ orphans' = IF Phase(w) = "publishing" THEN orphans \cup {proc[w].offer} ELSE orphans
    /\ proc' = [proc EXCEPT ![w] = Ended([@ EXCEPT !.lag = FALSE], "crashed")]
    /\ UNCHANGED <<debts, author, rootVars, paid>>

OrphanCommits(o) ==
    /\ Commit(o)
    /\ orphans' = orphans \ {o}
    /\ UNCHANGED <<storeVars, seat, fence, proc, paid>>

OrphanDies(o) ==
    /\ orphans' = orphans \ {o}
    /\ UNCHANGED <<storeVars, rootVars, seat, fence, proc, paid>>

Edit(d) ==
    /\ EditByHand(d)
    /\ UNCHANGED <<rootVars, seat, fence, proc, orphans, paid>>

----------------------------------------------------------------------------
(* What a process does by itself; what may befall it. *)

ContractStep(w) ==
    \/ Hint(w) \/ AcquireFence(w) \/ Confirm(w) \/ Pay(w) \/ Paid(w) \/ Ordered(w)
    \/ AcquireSeat(w) \/ SeatTimeout(w) \/ DecideAdmission(w) \/ DecideRelease(w)
    \/ Publish(w) \/ Reject(w) \/ Recover(w) \/ CloseSeat(w) \/ Unfence(w)

ContractFault(w) ==
    \/ ObservationFails(w) \/ ConfirmFails(w) \/ Kill(w) \/ RecoverFails(w)
    \/ CloseSeatFails(w) \/ UnfenceFails(w) \/ Crash(w)

Next ==
    \/ \E w \in Workers : Begin(w) \/ ContractStep(w) \/ ContractFault(w) \/ StoreStep(w)
    \/ \E o \in orphans : OrphanCommits(o) \/ OrphanDies(o)
    \/ \E d \in DebtIds : Edit(d)

Spec == Init /\ [][Next]_vars

(* A process runs on until it ends or dies; the debt locks and the seat    *)
(* are waited for with a limit, the fence without one.                     *)
LiveSpec == Spec /\ \A w \in Workers : WF_vars(ContractStep(w) \/ StoreStep(w))

----------------------------------------------------------------------------
(* Properties. *)

(* Type invariant: the values, and whose the locks are: the seat is held   *)
(* exactly while its holder decides and publishes, a debt's fence while    *)
(* its holder is at work on that debt, a debt store lock during a task.    *)
Phases == {"idle", "ordering", "hinting", "fencing", "confirming", "paying", "settling", "waiting", "seated",
           "publishing", "unknown", "closing", "unfencing"}
TypeOK ==
    /\ standing \in [Contracts -> {"none", "active", "claimed", "abandoned"}]
    /\ holder \in [DebtIds -> [contract : Contracts, disposition : {"held", "released"}] \cup {None}]
    /\ root \in Nat
    /\ seat \in Workers \cup {None} /\ fence \in [DebtIds -> Workers \cup {None}]
    /\ custody \in [Locks -> Workers \cup {None}]
    /\ debts \in Boards
    /\ \A w \in Workers :
          /\ Phase(w) \in Phases /\ proc[w].debt \in DebtIds \cup {None}
          /\ seat = w <=> Phase(w) \in {"seated", "publishing", "unknown", "closing"}
          /\ \A d \in DebtIds : fence[d] = w <=> proc[w].debt = d /\ Phase(w) \notin {"idle", "hinting", "fencing"}
          /\ \A l \in Locks : custody[l] = w => ~Doing(w, "idle") /\ Phase(w) \in {"ordering", "settling"}
    /\ paid \subseteq Contracts \X DebtIds

(* docs/settlement.md, against the code: contracts and debts behave as     *)
(* DebtOwnership says.  A contract that was replaced as a debt's holder    *)
(* neither completes nor releases it, whatever it saw before it had the    *)
(* fence, and nothing is released before its debt has been completed.      *)
Ownership == INSTANCE DebtOwnership
PromiseKept == Ownership!Spec

(* The types and the custody of the locks hold, and a release is reported  *)
(* only when the root names it.                                            *)
ReleasedIsDurable ==
    /\ TypeOK
    /\ \A w \in Workers : proc[w].verb = "settle" /\ proc[w].disposition = "released"
                              => HolderOf(w) = ReleasedBy(proc[w].contract)

(* A settlement that ends without a lag and without an exception leaves    *)
(* nothing owed: its contract does not hold a debt any more.  (The lags    *)
(* are all that a caller has to know that a replay is due.)  And a release *)
(* that it reports, be it because Git said so or because a fresh read      *)
(* showed it (holder.ts), is one that the root still names while the fence *)
(* is held.                                                                *)
HonestReport ==
    /\ ReleasedIsDurable
    /\ [][ /\ ReleasedIsDurable'
           /\ \A w \in Workers, c \in Contracts :
            /\ proc[w].contract = c /\ proc[w].verb = "settle" /\ Phase(w) # "idle" /\ proc'[w].phase = "idle"
            /\ ~proc'[w].lag /\ proc'[w].result \notin {"thrown", "crashed"}
            => Applicable(c)' = None]_vars

(* Every invocation ends: fences, debt locks and the seat are taken and    *)
(* given back in an order in which nobody waits for ever.                  *)
InvocationsEnd == \A w \in Workers : Phase(w) # "idle" ~> Phase(w) = "idle"
=============================================================================
