-------------------------- MODULE ContractProtocol --------------------------
(***************************************************************************)
(* How keiyaku admits facts.  Concurrent operations (separate processes)   *)
(* share one private Git state root.  Each runs a bounded number of        *)
(* attempts; an attempt prepares outside custody, takes the publication    *)
(* seat, observes and decides under it, and publishes one atomic ref       *)
(* transaction that compares the root, the target and the asserted refs    *)
(* with what was observed.  A killed transaction has an unknown outcome    *)
(* that a fresh observation classifies.  A process may die at any point;   *)
(* its SQLite locks then vanish but its Git child may still commit.        *)
(*                                                                         *)
(* A scenario gives each process the operations it is asked for, one after *)
(* the other, and bounds how often the world and its faults interfere.     *)
(***************************************************************************)
EXTENDS ContractFacts

CONSTANTS
    Writers,      \* processes
    Scenarios,    \* [agenda: Writers -> Seq(operations), content: Changes,
                  \*  edits, commits, crashes, kills: Nat]
    HeadRef,      \* the branch the invoking worktree's HEAD names
    Conflicts,    \* <<change, x>>: change does not merge onto a history holding x
    MaxOps        \* bound: operations per process

MaxAttempts == 3                                   \* MAX_SEMANTIC_ATTEMPTS
Ulids == Writers \X (1..MaxOps) \X (1..MaxAttempts)

(* What a process may be asked for. *)
Operations ==
    [verb: {"bind"}, contract: Contracts, target: Targets \cup {None}, terms: Terms]
        \cup [verb: {"amend"}, contract: Contracts, terms: Terms]
        \cup [verb: {"deliver"}, contract: Contracts, overwrite: BOOLEAN]
        \cup [verb: {"review"}, contract: Contracts, verdict: Verdicts]
        \cup [verb: {"verify"}, contract: Contracts, check: Checks, verdict: Verdicts]
        \cup [verb: {"reintegrate", "arc", "abandon", "place"}, contract: Contracts]

(* What a process may be told about an operation. *)
Results == {"accepted", "reused", "refused", "target-moved", "publication-failed", "exhausted",
            "thrown", "placement-failed", "crashed"}

ASSUME ProtocolAssumption ==
    /\ NoneIsAbsence(Ulids) /\ None \notin Writers \cup Results
    /\ HeadRef \in Branches
    /\ Conflicts \subseteq Changes \X (Changes \cup {Foreign})
    /\ MaxOps \in Nat
    /\ \A s \in Scenarios :
          /\ s.agenda \in [Writers -> Seq(Operations)]
          /\ \A w \in Writers : Len(s.agenda[w]) <= MaxOps
          /\ s.content \in Changes
          /\ {s.edits, s.commits, s.crashes, s.kills} \subseteq Nat

VARIABLES
    journal, state, ref,   \* as in ContractLedger
    root,                  \* the commit that GIT_REF names, counted from the first
    worktree,              \* the change that each contract's worktree holds
    seat,                  \* the holder of private-state.sqlite, or None
    fence,                 \* the holder of each target's placement fence, or None
    proc,                  \* each process's control state
    orphans,               \* ref transactions whose process died
    budget                 \* edits, foreign commits, crashes and kills still to come

ledgerVars == <<journal, state, ref>>
vars == <<journal, state, ref, root, worktree, seat, fence, proc, orphans, budget>>

Idle == [phase |-> "idle", agenda |-> <<>>, op |-> 0, attempt |-> 0, intent |-> None, source |-> None,
         prep |-> None, offer |-> None, outcome |-> None, result |-> None]

Init ==
    /\ journal = [c \in Contracts |-> <<>>]
    /\ state = [c \in Contracts |-> None]
    /\ ref = [t \in Targets |-> IF t \in Branches THEN <<>> ELSE None]
    /\ root = 0
    /\ seat = None
    /\ fence = [t \in Targets |-> None]
    /\ orphans = {}
    /\ \E s \in Scenarios :
          /\ proc = [w \in Writers |-> [Idle EXCEPT !.agenda = s.agenda[w]]]
          /\ worktree = [c \in Contracts |-> s.content]
          /\ budget = [edits |-> s.edits, commits |-> s.commits, crashes |-> s.crashes, kills |-> s.kills]

----------------------------------------------------------------------------
(* Derived from the intent and the attempt. *)

Verb(w) == proc[w].intent.verb
Subject(w) == proc[w].intent.contract
Ulid(w) == <<w, proc[w].op, proc[w].attempt>>
JournalHead(c) == Len(journal[c])              \* a journal head: append-only, so its length names it
StartRef(target) == IF target = None THEN HeadRef ELSE target

(* The target whose placement fence an operation holds throughout, or None. *)
FenceTarget(i) ==
    CASE i.verb = "bind" -> IF i.target \in Contracts THEN i.target ELSE None
      [] i.verb \in {"place", "reintegrate"} -> state[i.contract].target
      [] OTHER -> None

Prepared(verb) == verb \in {"bind", "deliver", "reintegrate", "review"}   \* split protocol attempts
HoldsSeat(verb) == verb = "amend"                    \* one custody for all attempts

(* Where an attempt starts. *)
AttemptPhase(verb) ==
    CASE Prepared(verb) -> "external"
      [] OTHER -> "waiting"

Ended(p, result) == [Idle EXCEPT !.agenda = p.agenda, !.op = p.op, !.result = result]

Goto(w, phase) == proc' = [proc EXCEPT ![w].phase = phase]

----------------------------------------------------------------------------
(* An operation begins.  Placement and reintegration are called with the   *)
(* checkpoint of an existing contract, reintegration with its target.      *)

Begin(w) ==
    /\ proc[w].phase = "idle"
    /\ proc[w].agenda # <<>>
    /\ LET i == Head(proc[w].agenda) IN
       /\ i.verb \in {"place", "reintegrate"} => state[i.contract] # None
       /\ i.verb = "reintegrate" => state[i.contract].target # None
       /\ proc' = [proc EXCEPT ![w] = [Idle EXCEPT
                      !.phase = IF FenceTarget(i) # None THEN "fencing"
                                ELSE IF i.verb \in {"amend", "verify"} THEN "reading"
                                ELSE AttemptPhase(i.verb),
                      !.agenda = Tail(proc[w].agenda), !.op = proc[w].op + 1, !.attempt = 1, !.intent = i]]
    /\ UNCHANGED <<ledgerVars, root, worktree, seat, fence, orphans, budget>>

AcquireFence(w) ==
    /\ proc[w].phase = "fencing"
    /\ fence[FenceTarget(proc[w].intent)] = None
    /\ fence' = [fence EXCEPT ![FenceTarget(proc[w].intent)] = w]
    /\ Goto(w, IF Verb(w) = "place" THEN "reading" ELSE AttemptPhase(Verb(w)))
    /\ UNCHANGED <<ledgerVars, root, worktree, seat, orphans, budget>>

(* Five seconds without the fence: placement-failed, or an exception from bind. *)
FenceTimeout(w) ==
    /\ proc[w].phase = "fencing"
    /\ fence[FenceTarget(proc[w].intent)] # None
    /\ proc' = [proc EXCEPT ![w] = Ended(@, IF Verb(w) = "bind" THEN "thrown" ELSE "placement-failed")]
    /\ UNCHANGED <<ledgerVars, root, worktree, seat, fence, orphans, budget>>

----------------------------------------------------------------------------
(* Ends of an operation.  The fence is released last. *)

Finished(p, result) ==
    IF FenceTarget(p.intent) = None THEN Ended(p, result)
    ELSE [Ended(p, result) EXCEPT !.phase = "unfencing", !.intent = p.intent]

Finish(w, result) == proc' = [proc EXCEPT ![w] = Finished(@, result)]

Unfence(w) ==
    /\ proc[w].phase = "unfencing"
    /\ fence' = [fence EXCEPT ![FenceTarget(proc[w].intent)] = None]
    /\ proc' = [proc EXCEPT ![w] = Ended(@, @.result)]
    /\ UNCHANGED <<ledgerVars, root, worktree, seat, orphans, budget>>

(* Releasing the fence fails: an accepted placement stays accepted, with a *)
(* physical lag; every other result is replaced by the failure.            *)
UnfenceFails(w) ==
    /\ proc[w].phase = "unfencing"
    /\ budget.kills > 0
    /\ budget' = [budget EXCEPT !.kills = @ - 1]
    /\ fence' = [fence EXCEPT ![FenceTarget(proc[w].intent)] = None]
    /\ proc' = [proc EXCEPT ![w] = Ended(@,
                    CASE Verb(w) = "place" /\ @.result = "accepted" -> "accepted"
                      [] Verb(w) = "bind" -> "thrown"
                      [] OTHER -> "placement-failed")]
    /\ UNCHANGED <<ledgerVars, root, worktree, seat, orphans>>

----------------------------------------------------------------------------
(* Work outside custody.  Each reads the state without authority. *)

MergeConflict(history, change) == \E i \in DOMAIN history : <<change, history[i]>> \in Conflicts

(* planIntegration: the predecessor an integration of c would extend, or None if refused. *)
Plan(c, change) ==
    IF state[c].target = None THEN state[c].start
    ELSE LET head == ref[state[c].target] IN
         IF head = None \/ MergeConflict(head, change) THEN None ELSE head

ReusesCandidate(i, c, change) ==
    /\ ~i.overwrite
    /\ Active(state, c)
    /\ state[c].delivery # None
    /\ state[c].integration.changeId = change

(* One read for the whole operation: the amended source terms, the snapshot *)
(* that Verification runs on, or the movement a placement expects to make.  *)
ReadSource(w) ==
    /\ proc[w].phase = "reading"
    /\ LET i == proc[w].intent
           c == i.contract
       IN CASE i.verb = "amend" ->
                 proc' = [proc EXCEPT ![w].phase = "waiting",
                              ![w].source = IF state[c] = None THEN None ELSE state[c].terms]
            [] i.verb = "place" ->
                 proc' = [proc EXCEPT ![w].phase = "waiting",
                              ![w].source = IF Active(state, c) /\ state[c].integration # None
                                            THEN Movement(state[c]) ELSE None]
            [] i.verb = "verify" ->
                 IF /\ Active(state, c)
                    /\ TargetOpen(state, c, state[c].target)
                    /\ i.check \in state[c].terms.obligations
                    /\ Plan(c, worktree[c]) # None
                 THEN proc' = [proc EXCEPT ![w].phase = "waiting",
                                   ![w].source = Append(Plan(c, worktree[c]), worktree[c])]
                 ELSE Finish(w, "refused")
    /\ UNCHANGED <<ledgerVars, root, worktree, seat, fence, orphans, budget>>

(* One attempt's external preparation and its witnesses. *)
PrepareBind(i) ==
    [kind |-> IF ref[StartRef(i.target)] = None THEN "refused" ELSE "prepared",
     start |-> ref[StartRef(i.target)]]

PrepareDeliver(i) ==
    LET c == i.contract  change == worktree[c]  plan == Plan(c, change) IN
    [kind |-> CASE ReusesCandidate(i, c, change) -> "reuse"
                [] OTHER -> IF plan = None THEN "refused" ELSE "prepared",
     head |-> JournalHead(c), change |-> change, predecessor |-> plan]

PrepareReintegrate(i) ==
    LET c == i.contract IN
    IF state[c].delivery = None
    THEN [kind |-> "defer", head |-> JournalHead(c)]
    ELSE LET plan == Plan(c, state[c].integration.changeId) IN
         [kind |-> IF plan = None THEN "refused" ELSE "prepared",
          head |-> JournalHead(c), predecessor |-> plan]

PrepareReview(i) == [kind |-> "prepared", head |-> JournalHead(i.contract), change |-> worktree[i.contract]]

Prepare(i) ==
    CASE i.verb = "bind" -> PrepareBind(i)
      [] i.verb # "bind" /\ state[i.contract] = None -> [kind |-> "unavailable"]
      [] OTHER -> CASE i.verb = "deliver" -> PrepareDeliver(i)
                    [] i.verb = "reintegrate" -> PrepareReintegrate(i)
                    [] i.verb = "review" -> PrepareReview(i)

PrepareExternally(w) ==
    /\ proc[w].phase = "external"
    /\ proc' = [proc EXCEPT ![w].phase = "waiting", ![w].prep = Prepare(proc[w].intent)]
    /\ UNCHANGED <<ledgerVars, root, worktree, seat, fence, orphans, budget>>

----------------------------------------------------------------------------
(* The publication seat. *)

AcquireSeat(w) ==
    /\ proc[w].phase = "waiting"
    /\ seat = None
    /\ seat' = w
    /\ Goto(w, "seated")
    /\ UNCHANGED <<ledgerVars, root, worktree, fence, orphans, budget>>

TakesSeatItself(i) ==
    \/ i.verb \in {"amend", "reintegrate"}
    \/ i.verb = "place" /\ FenceTarget(i) # None

(* Fifteen seconds without the seat.  Verbs that take the seat themselves,  *)
(* rather than through privateStateSeatAttempt, let the exception escape.   *)
SeatTimeout(w) ==
    /\ proc[w].phase = "waiting"
    /\ seat # None
    /\ Finish(w, IF TakesSeatItself(proc[w].intent) THEN "thrown" ELSE "publication-failed")
    /\ UNCHANGED <<ledgerVars, root, worktree, seat, fence, orphans, budget>>

(* What an attempt under custody came to.  Amend keeps its seat and tries again. *)
Settled(p, outcome) ==
    IF outcome = "retry" /\ HoldsSeat(p.intent.verb) /\ p.attempt < MaxAttempts
    THEN [p EXCEPT !.phase = "seated", !.attempt = @ + 1, !.offer = None]
    ELSE [p EXCEPT !.phase = "closing", !.outcome = outcome, !.offer = None]

Settle(w, outcome) == proc' = [proc EXCEPT ![w] = Settled(@, outcome)]

NextAttempt(p) ==
    [p EXCEPT !.phase = AttemptPhase(p.intent.verb), !.attempt = @ + 1, !.prep = None, !.outcome = None]

CloseSeat(w) ==
    /\ proc[w].phase = "closing"
    /\ seat' = None
    /\ proc' = [proc EXCEPT ![w] =
                  IF @.outcome # "retry" THEN Finished(@, @.outcome)
                  ELSE IF @.attempt < MaxAttempts THEN NextAttempt(@)
                  ELSE Finished(@, "exhausted")]
    /\ UNCHANGED <<ledgerVars, root, worktree, fence, orphans, budget>>

(* Releasing the lock fails: a confirmed publication keeps its acceptance   *)
(* (with close lag), anything else becomes an exception.                    *)
CloseSeatFails(w) ==
    /\ proc[w].phase = "closing"
    /\ budget.kills > 0
    /\ budget' = [budget EXCEPT !.kills = @ - 1]
    /\ seat' = None
    /\ Finish(w, IF proc[w].outcome = "accepted" THEN "accepted" ELSE "thrown")
    /\ UNCHANGED <<ledgerVars, root, worktree, fence, orphans>>

----------------------------------------------------------------------------
(* Decisions under custody: one observation, the witnesses of the outside  *)
(* preparation, the legal decision, and at most one offer.                 *)

Seated(w, verb) == proc[w].phase = "seated" /\ Verb(w) = verb

Untouched == UNCHANGED <<ledgerVars, root, worktree, seat, fence, orphans, budget>>

Offer(w, entry, movement, asserts) ==
    proc' = [proc EXCEPT ![w].phase = "publishing",
                         ![w].offer = [contract |-> Subject(w), entry |-> entry, movement |-> movement,
                                       asserts |-> asserts, seen |-> root]]

DecideBind(w) ==
    /\ Seated(w, "bind")
    /\ LET i == proc[w].intent
           p == proc[w].prep
           from == StartRef(i.target)
       IN IF p.kind = "refused" THEN Settle(w, "refused")
          ELSE IF ref[from] # p.start THEN Settle(w, "retry")
          ELSE IF ~MayBind(state, i.contract, i.target, i.terms) THEN Settle(w, "refused")
          ELSE Offer(w, BindFact(Ulid(w), p.start, i.target, i.terms), None, {[ref |-> from, oid |-> p.start]})
    /\ Untouched

DecideAmend(w) ==
    /\ Seated(w, "amend")
    /\ LET i == proc[w].intent
           source == proc[w].source
       IN IF source = None THEN Settle(w, "refused")
          ELSE IF ~MayAmend(state, i.contract, source, i.terms) THEN Settle(w, "refused")
          ELSE Offer(w, AmendFact(Ulid(w), i.terms), None, {})
    /\ Untouched

(* Mutation: the journal may have grown since the preparation. *)
SpentOnlyByBirth(w) == proc[w].prep.kind = "unavailable" /\ state[Subject(w)] # None

(* The outside preparation of a split attempt no longer describes the contract. *)
Spent(w) ==
    LET c == Subject(w)  p == proc[w].prep IN
    IF p.kind = "unavailable" THEN state[c] # None ELSE p.head # JournalHead(c)

(* Mutation: the witness is compared without its change. *)
SameWorktreePath(c, p) == p.change \in Changes

(* The worktree still holds what was captured outside (sameWorktreeWitness). *)
SameWorktreeWitness(c, p) == worktree[c] = p.change

(* A contract target is resolved again under custody; a branch target is not. *)
DestinationMoved(c, predecessor) ==
    state[c].target \in Contracts /\ ref[state[c].target] # predecessor

DecideDeliver(w) ==
    /\ Seated(w, "deliver")
    /\ LET i == proc[w].intent
           c == i.contract
           p == proc[w].prep
       IN IF Spent(w) THEN Settle(w, "retry")
          ELSE IF p.kind \in {"unavailable", "refused"} THEN Settle(w, "refused")
          ELSE IF ~SameWorktreeWitness(c, p) THEN Settle(w, "retry")
          ELSE IF p.kind = "reuse" /\ ~ReusesCandidate(i, c, p.change) THEN Settle(w, "retry")
          ELSE IF ~TargetOpen(state, c, state[c].target) THEN Settle(w, "refused")
          ELSE IF p.kind = "reuse" THEN Settle(w, "reused")
          ELSE IF DestinationMoved(c, p.predecessor) THEN Settle(w, "retry")
          ELSE IF ~MayDeliver(state, c, state[c].terms.document) THEN Settle(w, "refused")
          ELSE Offer(w, DeliverFact(Ulid(w), Integration(p.predecessor, p.change)), None, {})
    /\ Untouched

DecideReintegrate(w) ==
    /\ Seated(w, "reintegrate")
    /\ LET c == Subject(w)
           p == proc[w].prep
       IN IF Spent(w) THEN Settle(w, "retry")
          ELSE IF ~MayReintegrate(state, c) \/ p.kind = "refused" THEN Settle(w, "refused")
          ELSE IF DestinationMoved(c, p.predecessor) THEN Settle(w, "retry")
          ELSE Offer(w, ReintegratedFact(Ulid(w), p.predecessor,
                            Append(p.predecessor, state[c].integration.changeId)),
                     None, {[ref |-> state[c].target, oid |-> p.predecessor]})
    /\ Untouched

DecideReview(w) ==
    /\ Seated(w, "review")
    /\ LET i == proc[w].intent
           c == i.contract
           p == proc[w].prep
       IN IF Spent(w) THEN Settle(w, "retry")
          ELSE IF p.kind = "unavailable" THEN Settle(w, "refused")
          ELSE IF ~SameWorktreeWitness(c, p) THEN Settle(w, "retry")
          ELSE IF ~Active(state, c) THEN Settle(w, "refused")
          ELSE Offer(w, AttestationFact(Ulid(w), Reviewed,
                            ReviewSubject(state[c].terms.document, p.change), i.verdict), None, {})
    /\ Untouched

(* The latest testimony of this check about this snapshot already says so. *)
ReusesTestimony(c, check, subject, verdict) ==
    LET about == {k \in DOMAIN state[c].attestations :
                    /\ state[c].attestations[k].obligation = check
                    /\ state[c].attestations[k].subject = subject}
    IN \E k \in about : (\A l \in about : l <= k) /\ state[c].attestations[k].verdict = verdict

DecideVerify(w) ==
    /\ Seated(w, "verify")
    /\ LET i == proc[w].intent
           c == i.contract
           subject == VerificationSubject(proc[w].source)
       IN IF ~Active(state, c) THEN Settle(w, "refused")
          ELSE IF ReusesTestimony(c, i.check, subject, i.verdict) THEN Settle(w, "reused")
          ELSE Offer(w, AttestationFact(Ulid(w), i.check, subject, i.verdict), None, {})
    /\ Untouched

DecideArc(w) ==
    /\ Seated(w, "arc")
    /\ LET c == Subject(w) IN
       IF ~Active(state, c) THEN Settle(w, "refused")
       ELSE Offer(w, ArcFact(Ulid(w), state[c]), None, {})
    /\ Untouched

DecideAbandon(w) ==
    /\ Seated(w, "abandon")
    /\ LET c == Subject(w) IN
       IF ~Active(state, c) THEN Settle(w, "refused")
       ELSE Offer(w, AbandonedFact(Ulid(w)), None, {})
    /\ Untouched

(* The movement that the fresh offer names is remembered for the next      *)
(* attempt when the changes prepared outside were for another one.         *)
DecidePlace(w) ==
    /\ Seated(w, "place")
    /\ LET c == Subject(w)
           movement == Movement(state[c])
           claim == ClaimedFact(Ulid(w), state[c])
       IN IF ~MayPlace(state, c) THEN Settle(w, "refused")
          ELSE IF movement = None THEN Offer(w, claim, None, {})
          ELSE IF ref[movement.ref] # movement.expected THEN Settle(w, "target-moved")
          ELSE IF proc[w].source # movement
               THEN proc' = [proc EXCEPT ![w] = [Settled(@, "retry") EXCEPT !.source = movement]]
          ELSE Offer(w, claim, movement, {})
    /\ Untouched

Decide(w) ==
    \/ DecideBind(w) \/ DecideAmend(w) \/ DecideDeliver(w) \/ DecideReintegrate(w)
    \/ DecideReview(w) \/ DecideVerify(w) \/ DecideArc(w) \/ DecideAbandon(w) \/ DecidePlace(w)

----------------------------------------------------------------------------
(* Publication: one ref transaction (updateRefsAtomically). *)

(* Mutations: the transaction does not compare the target it moves, ... *)
PremiseWithoutTarget(o) ==
    /\ root = o.seen
    /\ \A a \in o.asserts : ref[a.ref] = a.oid

(* ... or not the root it extends. *)
PremiseWithoutRoot(o) ==
    /\ o.movement # None => ref[o.movement.ref] = o.movement.expected
    /\ \A a \in o.asserts : ref[a.ref] = a.oid

Premise(o) ==
    /\ root = o.seen
    /\ o.movement # None => ref[o.movement.ref] = o.movement.expected
    /\ \A a \in o.asserts : ref[a.ref] = a.oid

Commit(o) ==
    /\ Premise(o)
    /\ root' = root + 1
    /\ journal' = [journal EXCEPT ![o.contract] = Append(@, o.entry)]
    /\ state' = [state EXCEPT ![o.contract] = IF @ = None THEN StateFromBind(o.entry) ELSE FoldEntry(@, o.entry)]
    /\ ref' = IF o.movement = None THEN ref ELSE [ref EXCEPT ![o.movement.ref] = o.movement.new]

Publish(w) ==
    /\ proc[w].phase = "publishing"
    /\ Commit(proc[w].offer)
    /\ Settle(w, "accepted")
    /\ UNCHANGED <<worktree, seat, fence, orphans, budget>>

(* Git refuses the transaction because a compared ref has moved ... *)
Reject(w) ==
    /\ proc[w].phase = "publishing"
    /\ ~Premise(proc[w].offer)
    /\ Goto(w, "rejected")
    /\ UNCHANGED <<ledgerVars, root, worktree, seat, fence, orphans, budget>>

(* ... or for a reason of its own, such as a foreign ref lock. *)
RejectSpurious(w) ==
    /\ proc[w].phase = "publishing"
    /\ budget.kills > 0
    /\ budget' = [budget EXCEPT !.kills = @ - 1]
    /\ Goto(w, "rejected")
    /\ UNCHANGED <<ledgerVars, root, worktree, seat, fence, orphans>>

(* Mutation: a rejection is only ever put down to a moved premise. *)
JudgeMovedOnly(w) ==
    /\ proc[w].phase = "rejected"
    /\ ~Premise(proc[w].offer)
    /\ Settle(w, "retry")
    /\ UNCHANGED <<ledgerVars, root, worktree, seat, fence, orphans, budget>>

(* The refs are read again: a moved premise asks for a new decision. *)
Judge(w) ==
    /\ proc[w].phase = "rejected"
    /\ Settle(w, IF Premise(proc[w].offer) THEN "publication-failed" ELSE "retry")
    /\ UNCHANGED <<ledgerVars, root, worktree, seat, fence, orphans, budget>>

(* Git dies on a signal, before or after it committed. *)
Kill(w) ==
    /\ proc[w].phase = "publishing"
    /\ budget.kills > 0
    /\ budget' = [budget EXCEPT !.kills = @ - 1]
    /\ \/ Commit(proc[w].offer)
       \/ UNCHANGED <<ledgerVars, root>>
    /\ Goto(w, "unknown")
    /\ UNCHANGED <<worktree, seat, fence, orphans>>

(* Mutations: a root that moved is taken for this transaction's doing, ... *)
RecordedIfRootMoved(o) == root # o.seen

(* ... or the journal is read from the observation that was decided on. *)
RecordedWhenDecided(o) ==
    root = o.seen /\ \E i \in DOMAIN journal[o.contract] : journal[o.contract][i] = o.entry

(* The journal alone says what became of the transaction. *)
Recorded(o) == \E i \in DOMAIN journal[o.contract] : journal[o.contract][i] = o.entry

Recover(w) ==
    /\ proc[w].phase = "unknown"
    /\ Settle(w, IF Recorded(proc[w].offer) THEN "accepted" ELSE "retry")
    /\ UNCHANGED <<ledgerVars, root, worktree, seat, fence, orphans, budget>>

(* Five seconds without an answer from the recovery read. *)
RecoverFails(w) ==
    /\ proc[w].phase = "unknown"
    /\ Settle(w, IF FenceTarget(proc[w].intent) # None /\ Verb(w) # "bind" THEN "placement-failed" ELSE "thrown")
    /\ UNCHANGED <<ledgerVars, root, worktree, seat, fence, orphans, budget>>

----------------------------------------------------------------------------
(* Process death.  The kernel drops the process's SQLite locks; a Git child *)
(* that was already running goes on by itself.                             *)

(* Mutation: fences outlive their process. *)
ReleasedNever(locks, w) == locks

Released(locks, w) == [t \in Targets |-> IF locks[t] = w THEN None ELSE locks[t]]

Crash(w) ==
    /\ proc[w].phase # "idle"
    /\ budget.crashes > 0
    /\ budget' = [budget EXCEPT !.crashes = @ - 1]
    /\ seat' = IF seat = w THEN None ELSE seat
    /\ fence' = Released(fence, w)
    /\ orphans' = IF proc[w].phase = "publishing" THEN orphans \cup {proc[w].offer} ELSE orphans
    /\ proc' = [proc EXCEPT ![w] = Ended(@, "crashed")]
    /\ UNCHANGED <<ledgerVars, root, worktree>>

OrphanCommits(o) ==
    /\ Commit(o)
    /\ orphans' = orphans \ {o}
    /\ UNCHANGED <<worktree, seat, fence, proc, budget>>

OrphanDies(o) ==
    /\ orphans' = orphans \ {o}
    /\ UNCHANGED <<ledgerVars, root, worktree, seat, fence, proc, budget>>

----------------------------------------------------------------------------
(* The world around keiyaku. *)

ForeignCommit(t) ==
    /\ ref[t] # None
    /\ budget.commits > 0
    /\ budget' = [budget EXCEPT !.commits = @ - 1]
    /\ ref' = [ref EXCEPT ![t] = Append(@, Foreign)]
    /\ UNCHANGED <<journal, state, root, worktree, seat, fence, proc, orphans>>

Provision(c) ==
    /\ Active(state, c)
    /\ ref[c] = None
    /\ ref' = [ref EXCEPT ![c] = state[c].start]
    /\ UNCHANGED <<journal, state, root, worktree, seat, fence, proc, orphans, budget>>

Edit(c, change) ==
    /\ budget.edits > 0
    /\ worktree[c] # change
    /\ budget' = [budget EXCEPT !.edits = @ - 1]
    /\ worktree' = [worktree EXCEPT ![c] = change]
    /\ UNCHANGED <<ledgerVars, root, seat, fence, proc, orphans>>

World ==
    \/ \E t \in Targets : ForeignCommit(t)
    \/ \E c \in Contracts : Provision(c)
    \/ \E c \in Contracts, change \in Changes : Edit(c, change)
    \/ \E o \in orphans : OrphanCommits(o) \/ OrphanDies(o)

----------------------------------------------------------------------------
(* What a process does by itself; what may befall it. *)

Step(w) ==
    \/ AcquireFence(w) \/ FenceTimeout(w) \/ ReadSource(w) \/ PrepareExternally(w)
    \/ AcquireSeat(w) \/ SeatTimeout(w) \/ Decide(w)
    \/ Publish(w) \/ Reject(w) \/ Judge(w) \/ Recover(w)
    \/ CloseSeat(w) \/ Unfence(w)

Fault(w) == RejectSpurious(w) \/ Kill(w) \/ RecoverFails(w) \/ CloseSeatFails(w) \/ UnfenceFails(w) \/ Crash(w)

Next ==
    \/ \E w \in Writers : Begin(w) \/ Step(w) \/ Fault(w)
    \/ World

Spec == Init /\ [][Next]_vars

(* The waits for the fence and for the seat are bounded, Git answers or is *)
(* killed, and a process runs on until it ends or dies.                    *)
LiveSpec == Spec /\ \A w \in Writers : WF_vars(Step(w))

----------------------------------------------------------------------------
(* Properties. *)

Phases == {"idle", "fencing", "reading", "external", "waiting", "seated", "publishing",
           "rejected", "unknown", "closing", "unfencing"}

(* Type invariant: the ledger is well typed, the seat and the fences are   *)
(* held by processes whose phase says so, and by those only.               *)
TypeOK ==
    /\ journal \in [Contracts -> Seq(Facts(Ulids))]
    /\ state \in [Contracts -> States(Ulids) \cup {None}]
    /\ ref \in [Targets -> Commits \cup {None}]
    /\ root \in Nat
    /\ worktree \in [Contracts -> Changes]
    /\ \A w \in Writers :
          /\ proc[w].phase \in Phases
          /\ proc[w].result \in Results \cup {None}
          /\ proc[w].attempt \in 0..MaxAttempts
          /\ seat = w <=> proc[w].phase \in {"seated", "publishing", "rejected", "unknown", "closing"}
    /\ \A t \in Targets :
          /\ fence[t] \in Writers \cup {None}
          /\ fence[t] # None => /\ proc[fence[t]].phase \notin {"idle", "fencing"}
                                /\ FenceTarget(proc[fence[t]].intent) = t

(* The facts that an operation has left in the journals. *)
Left(w, op) ==
    {e \in UNION {{journal[c][i] : i \in DOMAIN journal[c]} : c \in Contracts} :
        e.entry[1] = w /\ e.entry[2] = op}

(* What a process is told is true: an accepted operation left its fact in  *)
(* the journal, and one that was refused, reused earlier work, found its   *)
(* target moved, failed to publish or ran out of attempts left none.  (An  *)
(* exception, placement-failed or a dead process says nothing.)  This is   *)
(* what classifyUnknownAttempt and publicationPremiseMoved are for.  The   *)
(* types and the custody of seat and fences hold.                          *)
VerdictTruthful ==
    /\ TypeOK
    /\ \A w \in Writers :
          /\ proc[w].result = "accepted" => Left(w, proc[w].op) # {}
          /\ proc[w].result \in {"refused", "reused", "target-moved", "publication-failed", "exhausted"}
                => Left(w, proc[w].op) = {}

(* No two facts are of one operation.                                      *)
AtMostOnce ==
    \A c, d \in Contracts : \A i \in DOMAIN journal[c], j \in DOMAIN journal[d] :
        /\ journal[c][i].entry[1] = journal[d][j].entry[1]
        /\ journal[c][i].entry[2] = journal[d][j].entry[2]
        => c = d /\ i = j

(* The fact that a step admits to c. *)
Admitted(c) == journal'[c][Len(journal'[c])]

(* Work already admitted is not admitted again: a delivery without         *)
(* overwrite never repeats the current change, and a check never repeats   *)
(* its own latest testimony about a snapshot, even when the other process  *)
(* admitted it while this one was preparing.  Nor is an operation admitted *)
(* twice, however often it retries: an offer whose outcome is unknown is   *)
(* never replayed while it may have been committed.                        *)
NoRedundantFact ==
    [][ /\ AtMostOnce'
        /\ \A c \in Contracts :
            journal'[c] # journal[c] /\ state[c] # None =>
               /\ Admitted(c).kind = "deliver" /\ state[c].delivery # None
                    /\ (\E w \in Writers : /\ proc[w].offer # None /\ proc[w].offer.entry = Admitted(c)
                                           /\ ~proc[w].intent.overwrite)
                    => Admitted(c).integration.changeId # state[c].integration.changeId
               /\ Admitted(c).kind = "attestation" /\ Admitted(c).data.obligation \in Checks
                    => ~ReusesTestimony(c, Admitted(c).data.obligation, Admitted(c).data.subject,
                                        Admitted(c).data.verdict)]_vars

(* What is offered about a worktree is what the worktree holds when the    *)
(* offer is made, not what it held when it was captured outside custody:   *)
(* edits are covered by no compare-and-swap (WorktreeWitness).             *)
WitnessedContent ==
    [][\A w \in Writers :
         proc[w].phase = "seated" /\ proc'[w].phase = "publishing" =>
            LET e == proc'[w].offer.entry  held == worktree[Subject(w)] IN
            /\ e.kind = "deliver" => e.integration.changeId = held
            /\ e.kind = "attestation" /\ e.data.obligation = Reviewed => <<"change", held>> \in e.data.subject]_vars

(* The ledger that the writers implement, with any unused identity and no  *)
(* bound of its own.                                                       *)
AnyFresh(c, unused) == unused
Unbounded(entries, kind) == TRUE
Ledger == INSTANCE ContractLedger
            WITH Mint <- AnyFresh, Room <- Unbounded

(* The writers implement the ledger: whatever their interleaving, retries, *)
(* kills and deaths, each fact is admitted as if it had been decided on    *)
(* the ledger at the very moment at which it is published.  The formula is *)
(* Ledger!Spec, with Ledger!Next asked of steps that change the ledger and *)
(* Ledger!Fact of the contract whose journal grew, as it does in each Fact. *)
Grown == {c \in Contracts : journal'[c] # journal[c]}
ImplementsLedger ==
    /\ Ledger!Init
    /\ [][ledgerVars' # ledgerVars => (\E c \in Grown : Ledger!Fact(c)) \/ Ledger!World]_ledgerVars

(* Every operation ends: bounded attempts, bounded waits, no lock cycle    *)
(* between the fences and the seat.                                        *)
OpsEnd == <>[](\A w \in Writers : proc[w].phase = "idle")
============================================================================
