--------------------------- MODULE ContractLedger ---------------------------
(***************************************************************************)
(* What keiyaku promises about contracts, with no writer in sight: every   *)
(* fact is admitted in one atomic step that decides on the ledger as it is *)
(* at that very step, and a claim moves its target in the same step.       *)
(* ContractProtocol (seat, observation, compare-and-swap publication,      *)
(* retries, crashes) is shown to implement this specification.             *)
(*                                                                         *)
(* The refs are not keiyaku's alone: other Git users advance them.         *)
(***************************************************************************)
EXTENDS ContractFacts, SequencesExt

CONSTANTS
    Ulids,            \* entry identities
    HeadRef,          \* the branch the invoking worktree's HEAD names
    Mint(_, _),       \* the identities that a fact of a contract may be given, of a set of unused ones
    Room(_, _)        \* bound: may a journal, or a ref's history, take one more entry of this kind?

ASSUME LedgerAssumption ==
    /\ NoneIsAbsence(Ulids)
    /\ HeadRef \in Branches
    /\ \A c \in Contracts, U \in SUBSET Ulids : Mint(c, U) \subseteq U

VARIABLES
    journal,    \* the entries of each contract's journal (<<>>: no journal)
    state,      \* the folded state of each journal (None: no journal)
    ref         \* where each target stands (None: the worktree is not provisioned)

ledgerVars == <<journal, state, ref>>

InitRef(t) == IF t \in Branches THEN <<>> ELSE None

Init ==
    /\ journal = [c \in Contracts |-> <<>>]
    /\ state = [c \in Contracts |-> None]
    /\ ref = [t \in Targets |-> InitRef(t)]

----------------------------------------------------------------------------
(* Admission of one fact: the journal grows by it and is folded again, and *)
(* the target movement, if any, happens in the same ref transaction.       *)

Used == UNION {{journal[c][i].entry : i \in DOMAIN journal[c]} : c \in Contracts}
Fresh(c) == Mint(c, Ulids \ Used)

(* Mutation: a claim moves its target without comparing where it stands. *)
AdmitUncompared(c, e, movement) ==
    /\ Room(journal[c], e.kind)
    /\ journal' = [journal EXCEPT ![c] = Append(@, e)]
    /\ state' = [state EXCEPT ![c] = IF @ = None THEN StateFromBind(e) ELSE FoldEntry(@, e)]
    /\ ref' = IF movement = None THEN ref ELSE [ref EXCEPT ![movement.ref] = movement.new]

Admit(c, e, movement) ==
    /\ Room(journal[c], e.kind)
    /\ journal' = [journal EXCEPT ![c] = Append(@, e)]
    /\ state' = [state EXCEPT ![c] = IF @ = None THEN StateFromBind(e) ELSE FoldEntry(@, e)]
    /\ IF movement = None
       THEN ref' = ref
       ELSE /\ ref[movement.ref] = movement.expected
            /\ ref' = [ref EXCEPT ![movement.ref] = movement.new]

(* Where a bind's start is read: its target's head, else the invoking HEAD. *)
StartRef(target) == IF target = None THEN HeadRef ELSE target

(* Every head that a target has had: refs only advance. *)
Heads(t) == IF ref[t] = None THEN {} ELSE {SubSeq(ref[t], 1, n) : n \in 0..Len(ref[t])}

(* The commits that a delivery of contract c may have been integrated on. *)
Predecessors(c) == IF state[c].target = None THEN {state[c].start} ELSE Heads(state[c].target)

Bind(c, target, terms) ==
    /\ MayBind(state, c, target, terms)
    /\ ref[StartRef(target)] # None
    /\ \E u \in Fresh(c) : Admit(c, BindFact(u, ref[StartRef(target)], target, terms), None)

Amend(c, terms) ==
    /\ Active(state, c)
    /\ MayAmend(state, c, state[c].terms, terms)
    /\ \E u \in Fresh(c) : Admit(c, AmendFact(u, terms), None)

(* A delivery was integrated on a head its target had; the target may have moved since. *)
Deliver(c, change) ==
    /\ Active(state, c)
    /\ MayDeliver(state, c, state[c].terms.document)
    /\ \E u \in Fresh(c), predecessor \in Predecessors(c) :
          Admit(c, DeliverFact(u, Integration(predecessor, change)), None)

(* A reintegration is planned on exactly the head its target has at admission. *)
Reintegrate(c) ==
    /\ MayReintegrate(state, c)
    /\ state[c].target # None
    /\ ref[state[c].target] # None
    /\ LET head == ref[state[c].target] IN
       \E u \in Fresh(c) :
          Admit(c, ReintegratedFact(u, head, Append(head, state[c].integration.changeId)), None)

(* A review speaks about the current document and a captured change. *)
Review(c, change, verdict) ==
    /\ Active(state, c)
    /\ \E u \in Fresh(c) :
          Admit(c, AttestationFact(u, Reviewed, ReviewSubject(state[c].terms.document, change), verdict), None)

(* A verification speaks about the snapshot it ran on, whatever happened since. *)
Verify(c, check, change, verdict) ==
    /\ Active(state, c)
    /\ \E u \in Fresh(c), predecessor \in Predecessors(c) :
          Admit(c, AttestationFact(u, check, VerificationSubject(Append(predecessor, change)), verdict), None)

Arc(c) ==
    /\ Active(state, c)
    /\ \E u \in Fresh(c) : Admit(c, ArcFact(u, state[c]), None)

Abandon(c) ==
    /\ Active(state, c)
    /\ \E u \in Fresh(c) : Admit(c, AbandonedFact(u), None)

Place(c) ==
    /\ MayPlace(state, c)
    /\ \E u \in Fresh(c) : Admit(c, ClaimedFact(u, state[c]), Movement(state[c]))

----------------------------------------------------------------------------
(* The world around keiyaku. *)

(* Somebody else commits on a target: a push, or a Body's commit in a worktree. *)
ForeignCommit(t) ==
    /\ ref[t] # None
    /\ Room(ref[t], "foreign")
    /\ ref' = [ref EXCEPT ![t] = Append(@, Foreign)]
    /\ UNCHANGED <<journal, state>>

(* The worktree of an open contract is created at the contract's start. *)
Provision(c) ==
    /\ Active(state, c)
    /\ ref[c] = None
    /\ ref' = [ref EXCEPT ![c] = state[c].start]
    /\ UNCHANGED <<journal, state>>

World ==
    \/ \E t \in Targets : ForeignCommit(t)
    \/ \E c \in Contracts : Provision(c)

Fact(c) ==
    \/ \E target \in Targets \cup {None}, terms \in Terms : Bind(c, target, terms)
    \/ \E terms \in Terms : Amend(c, terms)
    \/ \E change \in Changes : Deliver(c, change)
    \/ Reintegrate(c)
    \/ \E change \in Changes, verdict \in Verdicts : Review(c, change, verdict)
    \/ \E check \in Checks, change \in Changes, verdict \in Verdicts : Verify(c, check, change, verdict)
    \/ Arc(c)
    \/ Abandon(c)
    \/ Place(c)

Next == (\E c \in Contracts : Fact(c)) \/ World

Spec == Init /\ [][Next]_ledgerVars

----------------------------------------------------------------------------
(* Properties. *)

(* Type invariant: journals hold facts with known identities, states are   *)
(* folded states, refs are commits.                                        *)
TypeOK ==
    /\ journal \in [Contracts -> Seq(Facts(Ulids))]
    /\ state \in [Contracts -> States(Ulids) \cup {None}]
    /\ ref \in [Targets -> Commits \cup {None}]

(* A claimed or abandoned fact is the last entry of its journal, and the   *)
(* folded state is terminal exactly then: nothing is admitted to a         *)
(* contract that has ended (activeContract, requireActive).                *)
TerminalLast ==
    \A c \in Contracts : \A i \in DOMAIN journal[c] :
        journal[c][i].kind \in {"claimed", "abandoned"}
            <=> i = Len(journal[c]) /\ state[c].terminal # "active"

(* No contract waits, through any chain of prerequisites, for itself: a    *)
(* claim would otherwise be impossible for ever (prerequisitesReach, and   *)
(* bind admitting only known prerequisites).                               *)
AfterAcyclic ==
    \A c \in Contracts : state[c] # None => ~PrerequisitesReach(state, c, state[c].terms.after)

LastOf(entries, kinds) ==
    CHOOSE i \in DOMAIN entries :
        /\ entries[i].kind \in kinds
        /\ \A j \in DOMAIN entries : entries[j].kind \in kinds => j <= i

About(terms, integration, snapshot, o) ==
    IF o = Reviewed THEN ReviewSubject(terms.document, integration.changeId) ELSE VerificationSubject(snapshot)

(* What landed was judged, read from the journal alone: for every          *)
(* obligation of the last terms, the last testimony about the very         *)
(* document, change or snapshot that was claimed is favourable (gateReports *)
(* and the latest-current rule, over amendments and reintegrations).       *)
ClaimedJudged ==
    \A c \in Contracts : Claimed(state, c) =>
        LET entries == journal[c]
            terms == entries[LastOf(entries, {"bind", "amend"})].terms
            integration == entries[LastOf(entries, {"deliver"})].integration
            placed == entries[LastOf(entries, {"deliver", "reintegrated"})]
            snapshot == IF placed.kind = "deliver" THEN placed.integration.snapshot ELSE placed.snapshot
            Heard(o) == {i \in DOMAIN entries :
                            /\ entries[i].kind = "attestation"
                            /\ entries[i].data.obligation = o
                            /\ entries[i].data.subject = About(terms, integration, snapshot, o)}
        IN \A o \in terms.obligations :
              \E i \in Heard(o) :
                  (\A j \in Heard(o) : j <= i) /\ entries[i].data.verdict = "satisfied"

(* Every prerequisite of a claimed contract was claimed, and one that      *)
(* shares its target had landed in the history that the claim extended.    *)
PrerequisitesLandFirst ==
    \A c \in Contracts : Claimed(state, c) =>
        \A a \in state[c].terms.after :
            /\ Claimed(state, a)
            /\ state[a].target = state[c].target /\ state[c].target # None =>
                  IsPrefix(state[a].integration.snapshot, state[c].integration.predecessor)

(* A claim is never undone by another claim: the candidate of every claimed *)
(* contract stays in the history of its target.                             *)
NoLostLanding ==
    \A c \in Contracts :
        Claimed(state, c) /\ state[c].target # None =>
            /\ ref[state[c].target] # None
            /\ IsPrefix(state[c].integration.snapshot, ref[state[c].target])

(* What a decision offers never corrupts the journal: the fold that admit  *)
(* repeats over the candidate journal accepts every fact, so it never      *)
(* throws AuthorityCorruptionError over keiyaku's own offers.              *)
FoldNeverThrows ==
    [][\A c \in Contracts :
         journal'[c] # journal[c] /\ state[c] # None =>
             FoldAccepts(state[c], journal'[c][Len(journal'[c])])]_ledgerVars
============================================================================
