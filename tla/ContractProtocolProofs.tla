----------------------- MODULE ContractProtocolProofs -----------------------
(***************************************************************************)
(* Theorems about ContractProtocol, for every value of its constants: any  *)
(* number of processes and contracts, any agendas, any number of edits,    *)
(* foreign commits, kills and deaths.                                      *)
(*                                                                         *)
(* The argument is about offers.  An offer is decided on the ledger of one *)
(* root; the root moves whenever a fact is admitted, and Git compares it,  *)
(* so an offer that is published was decided on the ledger to which it is  *)
(* admitted (Decided), however long ago and by whichever process.  What    *)
(* the root does not cover - refs that others move, worktrees that are     *)
(* edited, a contract read before custody - is covered by what the offer   *)
(* asserts, by refs only advancing (Advances), or by the journal's length. *)
(***************************************************************************)
EXTENDS ContractProtocol, TLAPS

(* The theorems of the ledger that the writers implement. *)
L == INSTANCE ContractLedgerProofs WITH Mint <- AnyFresh, Room <- Unbounded

----------------------------------------------------------------------------
(* What a process remembers. *)

Custody == {"seated", "publishing", "rejected", "unknown", "closing"}
Offering == {"publishing", "rejected", "unknown"}
Outcomes == {"accepted", "reused", "refused", "target-moved", "publication-failed", "retry",
             "thrown", "placement-failed"}

(* Nothing was admitted: so say these outcomes and results. *)
Fruitless == {"reused", "refused", "target-moved", "publication-failed", "retry", "exhausted"}

Preparations ==
    [kind: {"refused", "prepared"}, start: Commits \cup {None}]
        \cup [kind: {"unavailable"}]
        \cup [kind: {"reuse", "refused", "prepared"}, head: Nat, change: Changes, predecessor: Commits \cup {None}]
        \cup [kind: {"defer"}, head: Nat]
        \cup [kind: {"refused", "prepared"}, head: Nat, predecessor: Commits \cup {None}]
        \cup [kind: {"prepared"}, head: Nat, change: Changes]

Offers ==
    [contract: Contracts, entry: Facts(Ulids), movement: Movements \cup {None},
     asserts: SUBSET [ref: Targets, oid: Commits], seen: Nat]

Processes ==
    [phase: Phases, agenda: Seq(Operations), op: Nat, attempt: 0..MaxAttempts,
     intent: Operations \cup {None}, source: Terms \cup Movements \cup Commits \cup {None},
     prep: Preparations \cup {None}, offer: Offers \cup {None},
     outcome: Outcomes \cup {None}, result: Results \cup {None}]

----------------------------------------------------------------------------
(* The invariant, of a process p of writer w. *)

Working(p) ==
    /\ p.op + Len(p.agenda) <= MaxOps
    /\ p.phase # "idle" => p.intent \in Operations /\ p.op >= 1
    /\ p.phase \notin {"idle", "unfencing"} => p.attempt >= 1
    /\ p.phase = "fencing" => p.intent.verb \in {"bind", "place", "reintegrate"}
    /\ p.phase = "reading" => p.intent.verb \in {"amend", "place", "verify"}
    /\ p.phase = "external" => Prepared(p.intent.verb)

(* Placement and reintegration are of a contract that exists, with a target. *)
Checkpointed(p) ==
    p.phase # "idle" =>
        /\ p.intent.verb \in {"place", "reintegrate"} => state[p.intent.contract] # None
        /\ p.intent.verb = "reintegrate" => state[p.intent.contract].target # None

(* What the preparation outside custody still says under custody. *)
BindPrepared(q) == q.kind \in {"refused", "prepared"} /\ (q.kind = "prepared" => q.start \in Commits)

DeliveryPrepared(i, q) ==
    LET c == i.contract IN
    q.kind # "unavailable" =>
        /\ q.kind \in {"reuse", "refused", "prepared"}
        /\ state[c] # None /\ q.head \in Nat /\ q.head <= Len(journal[c])
        /\ q.change \in Changes
        /\ q.kind = "prepared" => q.predecessor \in L!Predecessors(c)
        /\ q.kind = "prepared" /\ q.head = Len(journal[c]) => ~ReusesCandidate(i, c, q.change)

ReintegrationPrepared(i, q) ==
    LET c == i.contract IN
    q.kind # "unavailable" =>
        /\ q.kind \in {"defer", "refused", "prepared"}
        /\ state[c] # None /\ q.head \in Nat /\ q.head <= Len(journal[c])
        /\ q.kind = "defer" /\ q.head = Len(journal[c]) => state[c].delivery = None
        /\ q.kind = "prepared" => q.predecessor \in Commits

ReviewPrepared(q) == q.kind # "unavailable" => q.kind = "prepared" /\ q.change \in Changes

PreparationFits(p) ==
    p.phase \in {"waiting", "seated"} =>
        /\ p.intent.verb = "bind" => BindPrepared(p.prep)
        /\ p.intent.verb = "deliver" => DeliveryPrepared(p.intent, p.prep)
        /\ p.intent.verb = "reintegrate" => ReintegrationPrepared(p.intent, p.prep)
        /\ p.intent.verb = "review" => ReviewPrepared(p.prep)

(* Verification runs on an integration of a change on a head the target had. *)
SourceFits(p) ==
    p.phase \in Custody \cup {"waiting"} /\ p.intent.verb = "verify" =>
        LET c == p.intent.contract IN
        /\ state[c] # None
        /\ \E predecessor \in L!Predecessors(c), change \in Changes : p.source = Append(predecessor, change)

----------------------------------------------------------------------------
(* Offer o is what its verb decides on the ledger as it is. *)

Plain(o, entry) == o.entry = entry /\ o.movement = None

DecidedOn(o, c, u) ==
    \/ \E target \in Targets \cup {None}, terms \in Terms, start \in Commits :
          /\ MayBind(state, c, target, terms)
          /\ Plain(o, BindFact(u, start, target, terms))
          /\ [ref |-> StartRef(target), oid |-> start] \in o.asserts
    \/ \E terms \in Terms :
          MayAmend(state, c, state[c].terms, terms) /\ Plain(o, AmendFact(u, terms))
    \/ \E predecessor \in L!Predecessors(c), change \in Changes :
          /\ MayDeliver(state, c, state[c].terms.document)
          /\ Plain(o, DeliverFact(u, Integration(predecessor, change)))
    \/ \E head \in Commits :
          /\ MayReintegrate(state, c) /\ state[c].target # None
          /\ Plain(o, ReintegratedFact(u, head, Append(head, state[c].integration.changeId)))
          /\ [ref |-> state[c].target, oid |-> head] \in o.asserts
    \/ \E change \in Changes, verdict \in Verdicts :
          /\ Active(state, c)
          /\ Plain(o, AttestationFact(u, Reviewed, ReviewSubject(state[c].terms.document, change), verdict))
    \/ \E check \in Checks, predecessor \in L!Predecessors(c), change \in Changes, verdict \in Verdicts :
          /\ Active(state, c)
          /\ Plain(o, AttestationFact(u, check, VerificationSubject(Append(predecessor, change)), verdict))
          /\ ~ReusesTestimony(c, check, VerificationSubject(Append(predecessor, change)), verdict)
    \/ Active(state, c) /\ Plain(o, ArcFact(u, state[c]))
    \/ Active(state, c) /\ Plain(o, AbandonedFact(u))
    \/ MayPlace(state, c) /\ o.entry = ClaimedFact(u, state[c]) /\ o.movement = Movement(state[c])

Decided(o) == DecidedOn(o, o.contract, o.entry.entry)

Standing(o) == o.seen <= root /\ (o.seen = root => Decided(o))

(* A delivery that is to reuse a current candidate does not repeat it. *)
Novel(i, o) ==
    LET s == state[o.contract] IN
    o.seen = root /\ o.entry.kind = "deliver" =>
        /\ i.verb = "deliver"
        /\ ~i.overwrite /\ s.delivery # None => o.entry.integration.changeId # s.integration.changeId

OfferFits(w, p) ==
    IF p.phase \in Offering
    THEN /\ p.offer \in Offers
         /\ p.offer.contract = p.intent.contract
         /\ p.offer.entry.entry = <<w, p.op, p.attempt>>
         /\ p.phase = "publishing" => Standing(p.offer) /\ Novel(p.intent, p.offer)
    ELSE p.offer = None

----------------------------------------------------------------------------
(* Some journal holds a fact of this operation. *)

Told(w, n) ==
    \E c \in Contracts : \E i \in DOMAIN journal[c] :
        journal[c][i].entry[1] = w /\ journal[c][i].entry[2] = n

Truthful(w, n, verdict) ==
    /\ verdict = "accepted" => Told(w, n)
    /\ verdict \in Fruitless => ~Told(w, n)

Once(w, p) ==
    /\ p.phase \in {"fencing", "reading", "external", "waiting", "seated", "publishing", "rejected"} =>
          ~Told(w, p.op)
    /\ p.phase = "unknown" /\ Told(w, p.op) => Recorded(p.offer)
    /\ p.phase = "closing" => p.outcome \in Outcomes /\ Truthful(w, p.op, p.outcome)
    /\ p.phase \in {"idle", "unfencing"} => Truthful(w, p.op, p.result)
    /\ p.phase \notin {"idle", "unfencing"} => p.result = None

Local(w, p) ==
    /\ Working(p)
    /\ Checkpointed(p)
    /\ PreparationFits(p)
    /\ SourceFits(p)
    /\ OfferFits(w, p)
    /\ Once(w, p)

----------------------------------------------------------------------------
(* The invariant. *)

Seats ==
    /\ seat \in Writers \cup {None}
    /\ \A w \in Writers : seat = w <=> proc[w].phase \in Custody

Fences ==
    /\ fence \in [Targets -> Writers \cup {None}]
    /\ \A t \in Targets : fence[t] # None =>
          /\ proc[fence[t]].phase \notin {"idle", "fencing"}
          /\ FenceTarget(proc[fence[t]].intent) = t

(* Only operations that were begun have left facts. *)
Begun == \A c \in Contracts : \A i \in DOMAIN journal[c] :
            journal[c][i].entry[2] <= proc[journal[c][i].entry[1]].op

OrphanFits(o) ==
    LET w == o.entry.entry[1]  n == o.entry.entry[2] IN
    /\ o \in Offers
    /\ Standing(o)
    /\ ~Told(w, n)
    /\ n <= proc[w].op
    /\ n = proc[w].op => proc[w].phase = "idle" /\ proc[w].result = "crashed"

Orphaned ==
    /\ \A o \in orphans : OrphanFits(o)
    /\ \A o, q \in orphans :
          o.entry.entry[1] = q.entry.entry[1] /\ o.entry.entry[2] = q.entry.entry[2] => o = q

Processed == proc \in [Writers -> Processes] /\ \A w \in Writers : Local(w, proc[w])

Inv ==
    /\ L!WellFormed
    /\ root \in Nat
    /\ worktree \in [Contracts -> Changes]
    /\ Processed
    /\ Seats
    /\ Fences
    /\ Begun
    /\ Orphaned
    /\ AtMostOnce

----------------------------------------------------------------------------
(* The ledger's operators are those of the writers. *)

LEMMA SameSets ==
    /\ L!Obligations = Obligations /\ L!Targets = Targets /\ L!Commits = Commits
    /\ L!Integrations = Integrations /\ L!Verdicts = Verdicts /\ L!Movements = Movements
    /\ L!Keys = Keys /\ L!Attestations = Attestations
    /\ L!States(Ulids) = States(Ulids) /\ L!Facts(Ulids) = Facts(Ulids)
<1>1. L!Obligations = Obligations /\ L!Targets = Targets /\ L!Commits = Commits /\ L!Verdicts = Verdicts
    BY DEF L!Obligations, Obligations, L!Targets, Targets, L!Commits, Commits, L!Verdicts, Verdicts
<1>2. L!Integrations = Integrations /\ L!Movements = Movements /\ L!Keys = Keys
    BY <1>1, Zenon DEF L!Integrations, Integrations, L!Movements, Movements, L!Keys, Keys
<1>3. L!Attestations = Attestations
    BY <1>1, <1>2, Zenon DEF L!Attestations, Attestations
<1>4. L!States(Ulids) = States(Ulids)
    BY <1>1, <1>2, <1>3, Zenon DEF L!States, States
<1>5. L!Facts(Ulids) = Facts(Ulids)
    BY <1>1, <1>2, <1>3, Zenon DEF L!Facts, Facts
<1> QED
    BY <1>1, <1>2, <1>3, <1>4, <1>5

(* What the ledger's theorems assume is what the writers assume. *)
LEMMA LedgerAssumed ==
    /\ Reviewed \notin Checks
    /\ Terms \subseteq [document: Documents, obligations: SUBSET L!Obligations, after: SUBSET Contracts]
    /\ L!NoneIsAbsence(Ulids)
    /\ HeadRef \in Branches
    /\ \A c \in Contracts, U \in SUBSET Ulids : AnyFresh(c, U) \subseteq U
<1>1. Terms \subseteq [document: Documents, obligations: SUBSET L!Obligations, after: SUBSET Contracts]
    BY SameSets, TermsAssumption
<1>2. L!NoneIsAbsence(Ulids)
    BY SameSets, ProtocolAssumption, Zenon DEF L!NoneIsAbsence, NoneIsAbsence
<1> QED
    BY <1>1, <1>2, ObligationsAssumption, ProtocolAssumption DEF AnyFresh

LEMMA LedgerAdvances ==
    ASSUME L!WellFormed, [L!Next]_ledgerVars
    PROVE  L!WellFormed' /\ L!Advances
<1>1. [L!Next]_L!ledgerVars
    BY DEF L!ledgerVars, ledgerVars
<1> QED
    BY <1>1, LedgerAssumed, L!NextWellFormed, L!NextAdvances

LEMMA SameGuards ==
    ASSUME NEW obs, NEW c
    PROVE  /\ L!Active(obs, c) <=> Active(obs, c)
           /\ \A target : L!TargetOpen(obs, c, target) <=> TargetOpen(obs, c, target)
           /\ \A target, terms : L!MayBind(obs, c, target, terms) <=> MayBind(obs, c, target, terms)
           /\ \A source, terms : L!MayAmend(obs, c, source, terms) <=> MayAmend(obs, c, source, terms)
           /\ \A document : L!MayDeliver(obs, c, document) <=> MayDeliver(obs, c, document)
           /\ L!MayReintegrate(obs, c) <=> MayReintegrate(obs, c)
           /\ L!MayPlace(obs, c) <=> MayPlace(obs, c)
<1>1. \A d : L!Active(obs, d) <=> Active(obs, d)
    BY DEF L!Active, Active
<1>2. \A target : L!TargetOpen(obs, c, target) <=> TargetOpen(obs, c, target)
    BY <1>1 DEF L!TargetOpen, TargetOpen
<1>3. \A prerequisites : L!Known(obs, prerequisites) <=> Known(obs, prerequisites)
    BY DEF L!Known, Known
<1>4. \A target, terms : L!MayBind(obs, c, target, terms) <=> MayBind(obs, c, target, terms)
    BY <1>2, <1>3 DEF L!MayBind, MayBind
<1>5. \A source, terms : L!MayAmend(obs, c, source, terms) <=> MayAmend(obs, c, source, terms)
    <2>1. \A x : L!AfterOf(obs, x) = AfterOf(obs, x)
        BY DEF L!AfterOf, AfterOf
    <2>2. \A prerequisites : L!PrerequisitesReach(obs, c, prerequisites) <=> PrerequisitesReach(obs, c, prerequisites)
        BY <2>1 DEF L!PrerequisitesReach, PrerequisitesReach
    <2> QED
        BY <1>1, <1>3, <2>2 DEF L!MayAmend, MayAmend
<1>6. \A document : L!MayDeliver(obs, c, document) <=> MayDeliver(obs, c, document)
    BY <1>1, <1>2 DEF L!MayDeliver, MayDeliver
<1>7. L!MayReintegrate(obs, c) <=> MayReintegrate(obs, c)
    BY <1>1, <1>2 DEF L!MayReintegrate, MayReintegrate
<1>8. L!MayPlace(obs, c) <=> MayPlace(obs, c)
    <2>1. \A a : L!Claimed(obs, a) <=> Claimed(obs, a)
        BY DEF L!Claimed, Claimed
    <2>2. L!GatesSatisfied(obs[c]) <=> GatesSatisfied(obs[c])
        BY DEF L!GatesSatisfied, GatesSatisfied, L!Satisfied, Satisfied, L!CurrentTestimony, CurrentTestimony,
               L!CurrentKeys, CurrentKeys
    <2> QED
        BY <1>1, <1>2, <2>1, <2>2 DEF L!MayPlace, MayPlace
<1> QED
    BY <1>1, <1>2, <1>4, <1>5, <1>6, <1>7, <1>8

LEMMA SameFacts ==
    ASSUME NEW u
    PROVE  /\ \A start, target, terms : L!BindFact(u, start, target, terms) = BindFact(u, start, target, terms)
           /\ \A terms : L!AmendFact(u, terms) = AmendFact(u, terms)
           /\ \A integration : L!DeliverFact(u, integration) = DeliverFact(u, integration)
           /\ \A p, q : L!ReintegratedFact(u, p, q) = ReintegratedFact(u, p, q)
           /\ \A o, subject, verdict : L!AttestationFact(u, o, subject, verdict) = AttestationFact(u, o, subject, verdict)
           /\ \A s : L!ClaimedFact(u, s) = ClaimedFact(u, s)
           /\ \A s : L!ArcFact(u, s) = ArcFact(u, s)
           /\ L!AbandonedFact(u) = AbandonedFact(u)
           /\ \A p, x : L!Integration(p, x) = Integration(p, x)
           /\ \A d, x : L!ReviewSubject(d, x) = ReviewSubject(d, x)
           /\ \A q : L!VerificationSubject(q) = VerificationSubject(q)
           /\ \A s : L!Movement(s) = Movement(s)
           /\ \A target : L!StartRef(target) = StartRef(target)
BY Zenon DEF L!BindFact, BindFact, L!AmendFact, AmendFact, L!DeliverFact, DeliverFact,
       L!ReintegratedFact, ReintegratedFact, L!AttestationFact, AttestationFact,
       L!ClaimedFact, ClaimedFact, L!ArcFact, ArcFact, L!AbandonedFact, AbandonedFact,
       L!Integration, Integration, L!ReviewSubject, ReviewSubject,
       L!VerificationSubject, VerificationSubject, L!Movement, Movement, L!StartRef, StartRef

LEMMA SameFold ==
    /\ \A e : L!StateFromBind(e) = StateFromBind(e)
    /\ \A s, e : L!FoldEntry(s, e) = FoldEntry(s, e)
<1>1. \A e : L!StateFromBind(e) = StateFromBind(e)
    BY DEF L!StateFromBind, StateFromBind
<1>2. \A s, e : L!FoldEntry(s, e) = FoldEntry(s, e)
    BY Zenon DEF L!FoldEntry, FoldEntry
<1> QED
    BY <1>1, <1>2

----------------------------------------------------------------------------
(* An offer that was decided on the ledger as it is, with an identity that *)
(* no entry has, and that Git commits: a fact of the ledger.               *)

LEMMA CommitAdmits ==
    ASSUME NEW o, Commit(o)
    PROVE  L!Admit(o.contract, o.entry, o.movement)
<1>1. /\ journal' = [journal EXCEPT ![o.contract] = Append(@, o.entry)]
      /\ state' = [state EXCEPT ![o.contract] = IF @ = None THEN StateFromBind(o.entry)
                                                ELSE FoldEntry(@, o.entry)]
      /\ ref' = IF o.movement = None THEN ref ELSE [ref EXCEPT ![o.movement.ref] = o.movement.new]
      /\ o.movement # None => ref[o.movement.ref] = o.movement.expected
    BY DEF Commit, Premise
<1>2. state' = [state EXCEPT ![o.contract] = IF @ = None THEN L!StateFromBind(o.entry)
                                             ELSE L!FoldEntry(@, o.entry)]
    BY <1>1, SameFold, Zenon
<1> QED
    BY <1>1, <1>2 DEF L!Admit, Unbounded

LEMMA CommitIsFact ==
    ASSUME L!WellFormed, NEW o \in Offers, Decided(o), Commit(o), o.entry.entry \in L!Fresh(o.contract)
    PROVE  L!Fact(o.contract)
<1> DEFINE c == o.contract
           u == o.entry.entry
<1>1. L!Admit(c, o.entry, o.movement)
    BY CommitAdmits
<1>2. c \in Contracts /\ u \in L!Fresh(c)
    BY DEF Offers
<1>3. \A a \in o.asserts : ref[a.ref] = a.oid
    BY DEF Commit, Premise
<1>4. /\ \A s \in Commits : s # None
      /\ \A t \in Contracts : t # None
    BY ProtocolAssumption DEF NoneIsAbsence, Targets
<1> HIDE DEF c, u
<1>5. ASSUME NEW target \in Targets \cup {None}, NEW terms \in Terms, NEW start \in Commits,
             MayBind(state, c, target, terms), Plain(o, BindFact(u, start, target, terms)),
             [ref |-> StartRef(target), oid |-> start] \in o.asserts
      PROVE  L!Fact(c)
    <2>1. ref[L!StartRef(target)] = start /\ start # None
        BY <1>3, <1>4, <1>5, SameFacts
    <2>2. o.entry = L!BindFact(u, ref[L!StartRef(target)], target, terms) /\ o.movement = None
        BY <1>5, <2>1, SameFacts DEF Plain
    <2>3. L!Bind(c, target, terms)
        BY <1>1, <1>2, <1>5, <2>1, <2>2, SameGuards DEF L!Bind
    <2> QED
        BY <2>3, SameSets DEF L!Fact
<1>6. ASSUME NEW terms \in Terms, MayAmend(state, c, state[c].terms, terms), Plain(o, AmendFact(u, terms))
      PROVE  L!Fact(c)
    <2>1. o.entry = L!AmendFact(u, terms) /\ o.movement = None
        BY <1>6, SameFacts DEF Plain
    <2>2. L!Active(state, c)
        BY <1>6, SameGuards DEF MayAmend
    <2>3. L!Amend(c, terms)
        BY <1>1, <1>2, <1>6, <2>1, <2>2, SameGuards DEF L!Amend
    <2> QED
        BY <2>3 DEF L!Fact
<1>7. ASSUME NEW predecessor \in L!Predecessors(c), NEW change \in Changes,
             MayDeliver(state, c, state[c].terms.document),
             Plain(o, DeliverFact(u, Integration(predecessor, change)))
      PROVE  L!Fact(c)
    <2>1. o.entry = L!DeliverFact(u, L!Integration(predecessor, change)) /\ o.movement = None
        BY <1>7, SameFacts DEF Plain
    <2>2. L!Active(state, c)
        BY <1>7, SameGuards DEF MayDeliver
    <2>3. L!Deliver(c, change)
        BY <1>1, <1>2, <1>7, <2>1, <2>2, SameGuards DEF L!Deliver
    <2> QED
        BY <2>3 DEF L!Fact
<1>8. ASSUME NEW head \in Commits, MayReintegrate(state, c), state[c].target # None,
             Plain(o, ReintegratedFact(u, head, Append(head, state[c].integration.changeId))),
             [ref |-> state[c].target, oid |-> head] \in o.asserts
      PROVE  L!Fact(c)
    <2>1. ref[state[c].target] = head /\ head # None
        BY <1>3, <1>4, <1>8
    <2>2. /\ o.entry = L!ReintegratedFact(u, ref[state[c].target],
                            Append(ref[state[c].target], state[c].integration.changeId))
          /\ o.movement = None
        BY <1>8, <2>1, SameFacts DEF Plain
    <2>3. L!Reintegrate(c)
        BY <1>1, <1>2, <1>8, <2>1, <2>2, SameGuards DEF L!Reintegrate
    <2> QED
        BY <2>3 DEF L!Fact
<1>9. ASSUME NEW change \in Changes, NEW verdict \in Verdicts, Active(state, c),
             Plain(o, AttestationFact(u, Reviewed, ReviewSubject(state[c].terms.document, change), verdict))
      PROVE  L!Fact(c)
    <2>1. /\ o.entry = L!AttestationFact(u, Reviewed, L!ReviewSubject(state[c].terms.document, change), verdict)
          /\ o.movement = None
        BY <1>9, SameFacts DEF Plain
    <2>2. L!Review(c, change, verdict)
        BY <1>1, <1>2, <1>9, <2>1, SameGuards DEF L!Review
    <2> QED
        BY <2>2, SameSets DEF L!Fact
<1>10. ASSUME NEW check \in Checks, NEW predecessor \in L!Predecessors(c), NEW change \in Changes,
              NEW verdict \in Verdicts, Active(state, c),
              Plain(o, AttestationFact(u, check, VerificationSubject(Append(predecessor, change)), verdict))
       PROVE  L!Fact(c)
    <2>1. /\ o.entry = L!AttestationFact(u, check, L!VerificationSubject(Append(predecessor, change)), verdict)
          /\ o.movement = None
        BY <1>10, SameFacts DEF Plain
    <2>2. L!Verify(c, check, change, verdict)
        BY <1>1, <1>2, <1>10, <2>1, SameGuards DEF L!Verify
    <2> QED
        BY <2>2, SameSets DEF L!Fact
<1>11. ASSUME Active(state, c), Plain(o, ArcFact(u, state[c]))
       PROVE  L!Fact(c)
    <2>1. L!Arc(c)
        BY <1>1, <1>2, <1>11, SameGuards, SameFacts DEF L!Arc, Plain
    <2> QED
        BY <2>1 DEF L!Fact
<1>12. ASSUME Active(state, c), Plain(o, AbandonedFact(u))
       PROVE  L!Fact(c)
    <2>1. L!Abandon(c)
        BY <1>1, <1>2, <1>12, SameGuards, SameFacts DEF L!Abandon, Plain
    <2> QED
        BY <2>1 DEF L!Fact
<1>13. ASSUME MayPlace(state, c), o.entry = ClaimedFact(u, state[c]), o.movement = Movement(state[c])
       PROVE  L!Fact(c)
    <2>1. L!Place(c)
        BY <1>1, <1>2, <1>13, SameGuards, SameFacts DEF L!Place
    <2> QED
        BY <2>1 DEF L!Fact
<1>14. DecidedOn(o, c, u)
    BY DEF Decided, c, u
<1>15. L!Fact(c)
    BY <1>5, <1>6, <1>7, <1>8, <1>9, <1>10, <1>11, <1>12, <1>13, <1>14 DEF DecidedOn
<1> QED
    BY <1>15 DEF c

----------------------------------------------------------------------------
(* Types. *)

LEMMA LedgerTyped ==
    ASSUME L!WellFormed
    PROVE  /\ journal \in [Contracts -> Seq(Facts(Ulids))]
           /\ state \in [Contracts -> States(Ulids) \cup {None}]
           /\ ref \in [Targets -> Commits \cup {None}]
           /\ \A c \in Contracts : Len(journal[c]) \in Nat /\ DOMAIN journal[c] = 1..Len(journal[c])
           /\ \A c \in Contracts : state[c] # None =>
                 /\ state[c] \in States(Ulids)
                 /\ state[c].delivery # None => state[c].integration \in Integrations
<1>1. /\ journal \in [Contracts -> Seq(Facts(Ulids))]
      /\ state \in [Contracts -> States(Ulids) \cup {None}]
      /\ ref \in [Targets -> Commits \cup {None}]
    BY SameSets DEF L!WellFormed, L!TypeOK
<1>2. \A c \in Contracts : state[c] # None /\ state[c].delivery # None => state[c].integration \in Integrations
    BY SameSets DEF L!WellFormed, L!Integrated
<1>3. \A c \in Contracts : journal[c] \in Seq(Facts(Ulids))
    BY <1>1
<1> QED
    BY <1>1, <1>2, <1>3

LEMMA PredecessorsTyped ==
    ASSUME L!WellFormed, NEW c \in Contracts, state[c] # None
    PROVE  L!Predecessors(c) \subseteq Commits
BY LedgerAssumed, L!PredecessorsTyped, SameSets DEF L!WellFormed

LEMMA OperationTyped ==
    ASSUME NEW i \in Operations
    PROVE  /\ i.contract \in Contracts
           /\ i.verb \in {"bind", "amend", "deliver", "review", "verify", "reintegrate", "arc", "abandon", "place"}
           /\ i.verb = "bind" => i.target \in Targets \cup {None} /\ i.terms \in Terms
           /\ i.verb = "amend" => i.terms \in Terms
           /\ i.verb = "review" => i.verdict \in Verdicts
           /\ i.verb = "verify" => i.check \in Checks /\ i.verdict \in Verdicts
BY DEF Operations

LEMMA UlidTyped ==
    ASSUME NEW w \in Writers, NEW p \in Processes, Working(p), p.op >= 1, p.attempt >= 1
    PROVE  <<w, p.op, p.attempt>> \in Ulids
<1>1. p.op \in Nat /\ Len(p.agenda) \in Nat /\ p.attempt \in 0..MaxAttempts /\ MaxOps \in Nat
    BY ProtocolAssumption DEF Processes
<1> QED
    BY <1>1 DEF Working, Ulids, MaxAttempts

LEMMA FactsTyped ==
    ASSUME NEW u \in Ulids
    PROVE  /\ \A start \in Commits, target \in Targets \cup {None}, terms \in Terms :
                 BindFact(u, start, target, terms) \in Facts(Ulids)
           /\ \A terms \in Terms : AmendFact(u, terms) \in Facts(Ulids)
           /\ \A integration \in Integrations : DeliverFact(u, integration) \in Facts(Ulids)
           /\ \A p, q \in Commits : ReintegratedFact(u, p, q) \in Facts(Ulids)
           /\ \A o \in Obligations, subject \in SUBSET Keys, verdict \in Verdicts :
                 AttestationFact(u, o, subject, verdict) \in Facts(Ulids)
           /\ \A s \in States(Ulids) : s.delivery # None => ClaimedFact(u, s) \in Facts(Ulids)
           /\ \A s \in States(Ulids) : ArcFact(u, s) \in Facts(Ulids)
           /\ AbandonedFact(u) \in Facts(Ulids)
BY LedgerAssumed, L!FactsTyped, SameSets, SameFacts

----------------------------------------------------------------------------
(* What a process remembers stays true while the ledger advances. *)

Steady(p) == Working(p) /\ Checkpointed(p) /\ SourceFits(p)

(* The root is the ledger's version. *)
RootMoves ==
    /\ root \in Nat
    /\ root' = root \/ root' = root + 1
    /\ root' = root => journal' = journal /\ state' = state

LEMMA PredecessorsGrow ==
    ASSUME L!WellFormed, L!Advances, NEW c \in Contracts, state[c] # None
    PROVE  L!Predecessors(c) \subseteq L!Predecessors(c)'
<1>1. state'[c] # None /\ state'[c].target = state[c].target /\ state'[c].start = state[c].start
    BY DEF L!Advances
<1>2. state[c].target \in Targets \cup {None}
    BY LedgerTyped DEF States
<1>3. CASE state[c].target = None
    BY <1>1, <1>3 DEF L!Predecessors
<1>4. CASE state[c].target # None
    <2>1. L!Heads(state[c].target) \subseteq L!Heads(state[c].target)'
        <3>1. state[c].target \in L!Targets
            BY <1>2, <1>4, SameSets
        <3>2. CASE ref[state[c].target] = None
            BY <3>2 DEF L!Heads
        <3>3. CASE ref[state[c].target] # None
            <4>1. \A t \in L!Targets : ref[t] # None => L!Heads(t) \subseteq L!Heads(t)'
                BY DEF L!Advances
            <4> DEFINE t == state[c].target
            <4>2. t' = t
                BY <1>1
            <4>3. L!Heads(t) \subseteq L!Heads(t)'
                BY <3>1, <3>3, <4>1, <4>2
            <4> QED
                BY <4>3
        <3> QED
            BY <3>2, <3>3
    <2>2. L!Predecessors(c)' = L!Heads(state[c].target)'
        BY <1>1, <1>4 DEF L!Predecessors
    <2> QED
        BY <1>4, <2>1, <2>2 DEF L!Predecessors
<1> QED
    BY <1>3, <1>4

LEMMA SteadyKept ==
    ASSUME L!WellFormed, L!Advances, NEW p \in Processes, Steady(p)
    PROVE  Steady(p)'
<1>1. Working(p)'
    BY DEF Steady, Working
<1>2. p.phase # "idle" => p.intent \in Operations /\ p.intent.contract \in Contracts
    BY OperationTyped DEF Steady, Working
<1>3. Checkpointed(p)'
    BY <1>2 DEF Steady, Checkpointed, L!Advances
<1>4. SourceFits(p)'
    <2>1. SUFFICES ASSUME p.phase \in Custody \cup {"waiting"}, p.intent.verb = "verify"
                   PROVE  SourceFits(p)'
        BY DEF SourceFits
    <2> DEFINE c == p.intent.contract
    <2>2. c \in Contracts /\ state[c] # None
        BY <1>2, <2>1 DEF Steady, SourceFits, Custody
    <2>3. PICK predecessor \in L!Predecessors(c), change \in Changes : p.source = Append(predecessor, change)
        BY <2>1 DEF Steady, SourceFits
    <2>4. state'[c] # None /\ L!Predecessors(c) \subseteq L!Predecessors(c)'
        BY <2>2, PredecessorsGrow DEF L!Advances
    <2> QED
        BY <2>3, <2>4 DEF SourceFits
<1> QED
    BY <1>1, <1>3, <1>4 DEF Steady

LEMMA SameWhileRootStands ==
    ASSUME L!WellFormed, L!Advances, RootMoves, NEW c \in Contracts, state[c] # None
    PROVE  /\ Len(journal'[c]) \in Nat /\ Len(journal[c]) <= Len(journal'[c])
           /\ Len(journal'[c]) = Len(journal[c]) => state'[c] = state[c]
           /\ state'[c] # None /\ L!Predecessors(c) \subseteq L!Predecessors(c)'
<1>1. state'[c] # None /\ L!Predecessors(c) \subseteq L!Predecessors(c)'
    BY PredecessorsGrow DEF L!Advances
<1>2. \/ journal'[c] = journal[c] /\ state'[c] = state[c]
      \/ \E e \in Facts(Ulids) : journal'[c] = Append(journal[c], e)
    BY SameSets DEF L!Advances
<1>3. journal[c] \in Seq(Facts(Ulids))
    BY LedgerTyped
<1>4. CASE journal'[c] = journal[c] /\ state'[c] = state[c]
    BY <1>1, <1>3, <1>4
<1>5. CASE \E e \in Facts(Ulids) : journal'[c] = Append(journal[c], e)
    <2>1. PICK e \in Facts(Ulids) : journal'[c] = Append(journal[c], e)
        BY <1>5
    <2>2. Len(Append(journal[c], e)) = Len(journal[c]) + 1 /\ Len(journal[c]) \in Nat
        BY <1>3
    <2> QED
        BY <1>1, <2>1, <2>2
<1> QED
    BY <1>2, <1>4, <1>5

LEMMA PreparationKept ==
    ASSUME L!WellFormed, L!Advances, RootMoves, NEW p \in Processes, Working(p), PreparationFits(p)
    PROVE  PreparationFits(p)'
<1> SUFFICES ASSUME p.phase \in {"waiting", "seated"}
             PROVE  PreparationFits(p)'
    BY DEF PreparationFits
<1> DEFINE i == p.intent
           c == p.intent.contract
           q == p.prep
<1>1. c \in Contracts
    BY OperationTyped DEF Working
<1>2. ASSUME i.verb = "deliver"
      PROVE  DeliveryPrepared(i, q)'
    <2>1. DeliveryPrepared(i, q)
        BY <1>2 DEF PreparationFits
    <2>2. CASE q.kind = "unavailable"
        BY <2>2 DEF DeliveryPrepared
    <2>3. CASE q.kind # "unavailable"
        <3>1. state[c] # None
            BY <2>1, <2>3 DEF DeliveryPrepared
        <3>2. /\ Len(journal'[c]) \in Nat /\ Len(journal[c]) <= Len(journal'[c])
              /\ Len(journal'[c]) = Len(journal[c]) => state'[c] = state[c]
              /\ state'[c] # None /\ L!Predecessors(c) \subseteq L!Predecessors(c)'
            BY <1>1, <3>1, SameWhileRootStands
        <3>3. Len(journal[c]) \in Nat
            BY <1>1, LedgerTyped
        <3>4. Len(journal'[c]) = Len(journal[c]) => (ReusesCandidate(i, c, q.change)' <=> ReusesCandidate(i, c, q.change))
            BY <3>2 DEF ReusesCandidate, Active
        <3>5. q.head = Len(journal'[c]) => q.head = Len(journal[c])
            BY <2>1, <2>3, <3>2, <3>3 DEF DeliveryPrepared
        <3> QED
            BY <2>1, <2>3, <3>2, <3>3, <3>4, <3>5 DEF DeliveryPrepared
    <2> QED
        BY <2>2, <2>3
<1>3. ASSUME i.verb = "reintegrate"
      PROVE  ReintegrationPrepared(i, q)'
    <2>1. ReintegrationPrepared(i, q)
        BY <1>3 DEF PreparationFits
    <2>2. CASE q.kind = "unavailable"
        BY <2>2 DEF ReintegrationPrepared
    <2>3. CASE q.kind # "unavailable"
        <3>1. state[c] # None
            BY <2>1, <2>3 DEF ReintegrationPrepared
        <3>2. /\ Len(journal'[c]) \in Nat /\ Len(journal[c]) <= Len(journal'[c])
              /\ Len(journal'[c]) = Len(journal[c]) => state'[c] = state[c]
              /\ state'[c] # None
            BY <1>1, <3>1, SameWhileRootStands
        <3>3. Len(journal[c]) \in Nat
            BY <1>1, LedgerTyped
        <3>4. q.head = Len(journal'[c]) => q.head = Len(journal[c])
            BY <2>1, <2>3, <3>2, <3>3 DEF ReintegrationPrepared
        <3> QED
            BY <2>1, <2>3, <3>2, <3>3, <3>4 DEF ReintegrationPrepared
    <2> QED
        BY <2>2, <2>3
<1>4. /\ i.verb = "bind" => BindPrepared(q)
      /\ i.verb = "review" => ReviewPrepared(q)
    BY DEF PreparationFits
<1> QED
    BY <1>2, <1>3, <1>4 DEF PreparationFits, BindPrepared, ReviewPrepared

LEMMA DecidedKept ==
    ASSUME L!WellFormed, L!Advances, UNCHANGED <<journal, state>>, NEW o \in Offers, Decided(o)
    PROVE  Decided(o)'
<1> DEFINE c == o.contract
           u == o.entry.entry
<1>1. c \in Contracts
    BY DEF Offers
<1>2. state[c] # None => L!Predecessors(c) \subseteq L!Predecessors(c)'
    BY <1>1, PredecessorsGrow
<1> HIDE DEF c, u
<1>3. state' = state
    OBVIOUS
<1>4. /\ \A target, terms : MayBind(state, c, target, terms) => MayBind(state, c, target, terms)'
      /\ \A terms : MayAmend(state, c, state[c].terms, terms) => MayAmend(state, c, state[c].terms, terms)'
      /\ \A document : MayDeliver(state, c, document) => MayDeliver(state, c, document)' /\ state[c] # None
      /\ MayReintegrate(state, c) => MayReintegrate(state, c)'
      /\ MayPlace(state, c) => MayPlace(state, c)'
      /\ Active(state, c) => Active(state, c)' /\ state[c] # None
      /\ \A check, subject, verdict :
            ~ReusesTestimony(c, check, subject, verdict) => ~ReusesTestimony(c, check, subject, verdict)'
    BY <1>3 DEF MayDeliver, Active, ReusesTestimony
<1>5. ASSUME DecidedOn(o, c, u)
      PROVE  DecidedOn(o, c, u)'
    <2>1. ASSUME NEW predecessor \in L!Predecessors(c), NEW change \in Changes,
                 MayDeliver(state, c, state[c].terms.document),
                 Plain(o, DeliverFact(u, Integration(predecessor, change)))
          PROVE  DecidedOn(o, c, u)'
        <3>1. predecessor \in L!Predecessors(c)'
            BY <1>2, <1>4, <2>1
        <3> QED
            BY <1>3, <1>4, <2>1, <3>1 DEF DecidedOn, Plain
    <2>2. ASSUME NEW check \in Checks, NEW predecessor \in L!Predecessors(c), NEW change \in Changes,
                 NEW verdict \in Verdicts, Active(state, c),
                 Plain(o, AttestationFact(u, check, VerificationSubject(Append(predecessor, change)), verdict)),
                 ~ReusesTestimony(c, check, VerificationSubject(Append(predecessor, change)), verdict)
          PROVE  DecidedOn(o, c, u)'
        <3>1. predecessor \in L!Predecessors(c)'
            BY <1>2, <1>4, <2>2
        <3>2. Active(state, c)'
            BY <1>4, <2>2
        <3>3. ~ReusesTestimony(c, check, VerificationSubject(Append(predecessor, change)), verdict)'
            BY <1>4, <2>2
        <3> QED
            BY <2>2, <3>1, <3>2, <3>3 DEF DecidedOn, Plain
    <2> QED
        BY <1>3, <1>4, <1>5, <2>1, <2>2 DEF DecidedOn, Plain
<1> QED
    BY <1>5 DEF Decided, c, u

LEMMA StandingKept ==
    ASSUME L!WellFormed, L!Advances, RootMoves, NEW o \in Offers, Standing(o)
    PROVE  Standing(o)'
<1>1. o.seen \in Nat /\ root \in Nat /\ o.seen <= root
    BY DEF Offers, RootMoves, Standing
<1>2. CASE root' = root + 1
    BY <1>1, <1>2 DEF Standing
<1>3. CASE root' = root
    <2>1. o.seen = root => Decided(o)'
        BY <1>3, DecidedKept DEF RootMoves, Standing
    <2> QED
        BY <1>1, <1>3, <2>1 DEF Standing
<1> QED
    BY <1>2, <1>3 DEF RootMoves

LEMMA RecordedKept ==
    ASSUME L!WellFormed, L!Advances, NEW o, o.contract \in Contracts, Recorded(o)
    PROVE  Recorded(o)'
<1> DEFINE c == o.contract
<1>1. PICK i \in DOMAIN journal[c] : journal[c][i] = o.entry
    BY DEF Recorded
<1>2. journal[c] \in Seq(Facts(Ulids))
    BY LedgerTyped
<1>3. CASE journal'[c] = journal[c]
    BY <1>1, <1>3 DEF Recorded
<1>4. CASE \E e \in Facts(Ulids) : journal'[c] = Append(journal[c], e)
    <2>1. PICK e \in Facts(Ulids) : journal'[c] = Append(journal[c], e)
        BY <1>4
    <2>2. i \in DOMAIN Append(journal[c], e) /\ Append(journal[c], e)[i] = journal[c][i]
        BY <1>1, <1>2
    <2> QED
        BY <1>1, <2>1, <2>2 DEF Recorded
<1> QED
    BY <1>3, <1>4, SameSets DEF L!Advances

(* An operation's fact may appear behind the back of a process that died. *)
ToldKept(w, p) ==
    \/ Told(w, p.op)' = Told(w, p.op)
    \/ p.phase = "idle" /\ p.result = "crashed"

LEMMA NovelKept ==
    ASSUME RootMoves, NEW i, NEW o, o.seen <= root, o.seen \in Nat, Novel(i, o)
    PROVE  Novel(i, o)'
<1>1. CASE root' = root + 1
    BY <1>1 DEF Novel, RootMoves
<1>2. CASE root' = root
    BY <1>2 DEF Novel, RootMoves
<1> QED
    BY <1>1, <1>2 DEF RootMoves

LEMMA OfferKept ==
    ASSUME L!WellFormed, L!Advances, RootMoves, NEW w \in Writers, NEW p \in Processes, OfferFits(w, p)
    PROVE  OfferFits(w, p)'
<1>1. CASE p.phase \notin Offering
    BY <1>1 DEF OfferFits
<1>2. CASE p.phase \in Offering
    <2>1. p.offer \in Offers
        BY <1>2 DEF OfferFits
    <2>2. p.phase = "publishing" => Standing(p.offer)' /\ Novel(p.intent, p.offer)'
        <3> HAVE p.phase = "publishing"
        <3>1. Standing(p.offer) /\ Novel(p.intent, p.offer)
            BY <1>2 DEF OfferFits
        <3>2. Standing(p.offer)'
            BY <2>1, <3>1, StandingKept
        <3>3. p.offer.seen \in Nat /\ p.offer.seen <= root
            BY <2>1, <3>1 DEF Offers, Standing
        <3>4. Novel(p.intent, p.offer)'
            BY <3>1, <3>3, NovelKept
        <3> QED
            BY <3>2, <3>4
    <2> QED
        BY <1>2, <2>1, <2>2 DEF OfferFits
<1> QED
    BY <1>1, <1>2

LEMMA OnceKept ==
    ASSUME L!WellFormed, L!Advances, NEW w \in Writers, NEW p \in Processes,
           ToldKept(w, p), OfferFits(w, p), Once(w, p)
    PROVE  Once(w, p)'
<1>1. CASE Told(w, p.op)' = Told(w, p.op)
    <2>1. p.phase = "unknown" /\ Recorded(p.offer) => Recorded(p.offer)'
        <3> HAVE p.phase = "unknown" /\ Recorded(p.offer)
        <3>1. p.offer.contract \in Contracts
            BY DEF OfferFits, Offering, Offers
        <3> QED
            BY <3>1, RecordedKept
    <2>2. \A verdict : Truthful(w, p.op, verdict) => Truthful(w, p.op, verdict)'
        BY <1>1, Zenon DEF Truthful
    <2> QED
        BY <1>1, <2>1, <2>2, Zenon DEF Once
<1>2. CASE p.phase = "idle" /\ p.result = "crashed"
    BY <1>2 DEF Once, Truthful, Fruitless
<1> QED
    BY <1>1, <1>2 DEF ToldKept

LEMMA LocalKept ==
    ASSUME L!WellFormed, L!Advances, RootMoves, NEW w \in Writers, NEW p \in Processes,
           ToldKept(w, p), Local(w, p)
    PROVE  Local(w, p)'
<1>1. Steady(p) /\ PreparationFits(p) /\ OfferFits(w, p) /\ Once(w, p) /\ Working(p)
    BY DEF Local, Steady
<1>2. Steady(p)' /\ PreparationFits(p)' /\ OfferFits(w, p)' /\ Once(w, p)'
    BY <1>1, SteadyKept, PreparationKept, OfferKept, OnceKept
<1> QED
    BY <1>2 DEF Local, Steady

----------------------------------------------------------------------------
(* Where a process goes by itself. *)

LEMMA EndedLocal ==
    ASSUME NEW w \in Writers, NEW p \in Processes, Working(p), NEW result \in Results \cup {None},
           Truthful(w, p.op, result)
    PROVE  Ended(p, result) \in Processes /\ Local(w, Ended(p, result))
<1> DEFINE q == Ended(p, result)
<1>1. /\ q.phase = "idle" /\ q.agenda = p.agenda /\ q.op = p.op /\ q.attempt = 0 /\ q.intent = None
      /\ q.source = None /\ q.prep = None /\ q.offer = None /\ q.outcome = None /\ q.result = result
    BY DEF Ended, Idle
<1>2. q \in Processes
    <2>1. q = [phase |-> "idle", agenda |-> p.agenda, op |-> p.op, attempt |-> 0, intent |-> None, source |-> None,
               prep |-> None, offer |-> None, outcome |-> None, result |-> result]
        <3>1. q = [Idle EXCEPT !.agenda = p.agenda, !.op = p.op, !.result = result]
            BY DEF Ended
        <3> HIDE DEF q
        <3> QED
            BY <3>1 DEF Idle
    <2>2. p.agenda \in Seq(Operations) /\ p.op \in Nat
        BY DEF Processes
    <2> HIDE DEF q
    <2> QED
        BY <2>1, <2>2 DEF Processes, Phases, MaxAttempts
<1> HIDE DEF q
<1>3. Working(q) /\ Checkpointed(q) /\ PreparationFits(q) /\ SourceFits(q)
    BY <1>1 DEF Working, Checkpointed, PreparationFits, SourceFits, Custody
<1>4. OfferFits(w, q) /\ Once(w, q)
    BY <1>1 DEF OfferFits, Offering, Once
<1> QED
    BY <1>2, <1>3, <1>4 DEF Local, q

LEMMA FinishedLocal ==
    ASSUME NEW w \in Writers, NEW p \in Processes, Steady(p), p.phase # "idle",
           NEW result \in Results, Truthful(w, p.op, result)
    PROVE  Finished(p, result) \in Processes /\ Local(w, Finished(p, result))
<1>1. CASE FenceTarget(p.intent) = None
    BY <1>1, EndedLocal DEF Finished, Steady
<1>2. CASE FenceTarget(p.intent) # None
    <2> DEFINE q == Finished(p, result)
    <2>1. q = [Ended(p, result) EXCEPT !.phase = "unfencing", !.intent = p.intent]
        BY <1>2 DEF Finished
    <2>2. /\ q.phase = "unfencing" /\ q.agenda = p.agenda /\ q.op = p.op /\ q.attempt = 0 /\ q.intent = p.intent
          /\ q.source = None /\ q.prep = None /\ q.offer = None /\ q.outcome = None /\ q.result = result
        BY <2>1 DEF Ended, Idle
    <2>3. q \in Processes
        <3>1. q = [phase |-> "unfencing", agenda |-> p.agenda, op |-> p.op, attempt |-> 0, intent |-> p.intent,
                   source |-> None, prep |-> None, offer |-> None, outcome |-> None, result |-> result]
            BY <2>1 DEF Ended, Idle
        <3>2. p.agenda \in Seq(Operations) /\ p.op \in Nat /\ p.intent \in Operations \cup {None}
            BY DEF Processes
        <3> HIDE DEF q
        <3> QED
            BY <3>1, <3>2 DEF Processes, Phases, MaxAttempts
    <2> HIDE DEF q
    <2>4. Working(q) /\ Checkpointed(q) /\ PreparationFits(q) /\ SourceFits(q)
        BY <2>2 DEF Steady, Working, Checkpointed, PreparationFits, SourceFits, Custody
    <2>5. OfferFits(w, q) /\ Once(w, q)
        BY <2>2 DEF OfferFits, Offering, Once
    <2> QED
        BY <2>3, <2>4, <2>5 DEF Local, q
<1> QED
    BY <1>1, <1>2

LEMMA SettledLocal ==
    ASSUME NEW w \in Writers, NEW p \in Processes, Steady(p), p.phase \in Custody, p.result = None,
           NEW outcome \in Outcomes, Truthful(w, p.op, outcome)
    PROVE  Settled(p, outcome) \in Processes /\ Local(w, Settled(p, outcome))
<1> DEFINE q == Settled(p, outcome)
<1>1. p.attempt \in 1..MaxAttempts /\ p.intent \in Operations /\ p.op >= 1
    BY DEF Steady, Working, Custody, Processes, MaxAttempts
<1>2. CASE outcome = "retry" /\ HoldsSeat(p.intent.verb) /\ p.attempt < MaxAttempts
    <2>1. q = [p EXCEPT !.phase = "seated", !.attempt = @ + 1, !.offer = None]
        BY <1>2 DEF Settled
    <2>2. /\ q.phase = "seated" /\ q.agenda = p.agenda /\ q.op = p.op /\ q.attempt = p.attempt + 1
          /\ q.intent = p.intent /\ q.source = p.source /\ q.offer = None /\ q.result = None
          /\ q.intent.verb = "amend"
        BY <1>2, <2>1 DEF Processes, HoldsSeat
    <2>3. q \in Processes
        <3>1. p.attempt + 1 \in 0..MaxAttempts
            BY <1>1, <1>2 DEF MaxAttempts
        <3> QED
            BY <2>1, <3>1 DEF Processes, Phases
    <2>4. ~Told(w, q.op)
        BY <1>2, <2>2 DEF Truthful, Fruitless
    <2> HIDE DEF q
    <2>5. Working(q) /\ Checkpointed(q)
        BY <1>1, <2>2 DEF Steady, Working, Checkpointed, MaxAttempts, Custody
    <2>6. PreparationFits(q) /\ SourceFits(q)
        BY <2>2 DEF PreparationFits, SourceFits
    <2>7. OfferFits(w, q) /\ Once(w, q)
        BY <2>2, <2>4 DEF OfferFits, Offering, Once
    <2> QED
        BY <2>3, <2>5, <2>6, <2>7 DEF Local, q
<1>3. CASE ~(outcome = "retry" /\ HoldsSeat(p.intent.verb) /\ p.attempt < MaxAttempts)
    <2>1. q = [p EXCEPT !.phase = "closing", !.outcome = outcome, !.offer = None]
        BY <1>3 DEF Settled
    <2>2. /\ q.phase = "closing" /\ q.agenda = p.agenda /\ q.op = p.op /\ q.attempt = p.attempt
          /\ q.intent = p.intent /\ q.source = p.source /\ q.offer = None /\ q.result = None
          /\ q.outcome = outcome
        BY <2>1 DEF Processes
    <2>3. q \in Processes
        BY <2>1 DEF Processes, Phases
    <2> HIDE DEF q
    <2>4. Working(q) /\ Checkpointed(q)
        BY <1>1, <2>2 DEF Steady, Working, Checkpointed, MaxAttempts, Custody
    <2>5. PreparationFits(q) /\ SourceFits(q)
        BY <2>2 DEF Steady, PreparationFits, SourceFits, Custody
    <2>6. OfferFits(w, q) /\ Once(w, q)
        BY <2>2 DEF OfferFits, Offering, Once
    <2> QED
        BY <2>3, <2>4, <2>5, <2>6 DEF Local, q
<1> QED
    BY <1>2, <1>3

LEMMA NextAttemptLocal ==
    ASSUME NEW w \in Writers, NEW p \in Processes, Local(w, p), p.phase = "closing", p.outcome = "retry",
           p.attempt < MaxAttempts
    PROVE  NextAttempt(p) \in Processes /\ Local(w, NextAttempt(p))
<1> DEFINE q == NextAttempt(p)
<1>1. /\ Steady(p) /\ p.attempt \in 1..MaxAttempts /\ p.intent \in Operations /\ p.op >= 1
      /\ ~Told(w, p.op) /\ p.result = None
    BY DEF Local, Steady, Working, Processes, MaxAttempts, Once, Truthful, Fruitless
<1>2. q = [p EXCEPT !.phase = AttemptPhase(p.intent.verb), !.attempt = @ + 1, !.prep = None, !.outcome = None]
    BY DEF NextAttempt
<1>3. /\ AttemptPhase(p.intent.verb) \in {"external", "waiting"}
      /\ AttemptPhase(p.intent.verb) = "external" <=> Prepared(p.intent.verb)
    BY Zenon DEF AttemptPhase
<1>4. p.attempt + 1 \in 0..MaxAttempts
    BY <1>1 DEF MaxAttempts
<1> HIDE DEF q
<1>5. q \in Processes
    BY <1>2, <1>3, <1>4 DEF Processes, Phases
<1>6. /\ q.phase = AttemptPhase(p.intent.verb) /\ q.agenda = p.agenda /\ q.op = p.op
      /\ q.attempt = p.attempt + 1 /\ q.intent = p.intent /\ q.source = p.source /\ q.offer = None
      /\ q.result = None
    BY <1>1, <1>2 DEF Processes, Local, OfferFits, Offering
<1>7. Working(q) /\ Checkpointed(q)
    BY <1>1, <1>3, <1>6 DEF Steady, Working, Checkpointed, MaxAttempts
<1>8. PreparationFits(q) /\ SourceFits(q)
    BY <1>1, <1>3, <1>6 DEF Steady, PreparationFits, SourceFits, Custody, Prepared
<1>9. OfferFits(w, q) /\ Once(w, q)
    BY <1>1, <1>3, <1>6 DEF OfferFits, Offering, Once
<1> QED
    BY <1>5, <1>7, <1>8, <1>9 DEF Local, q

LEMMA OfferedLocal ==
    ASSUME NEW w \in Writers, NEW p \in Processes, Local(w, p), p.phase = "seated", root \in Nat,
           NEW o \in Offers, o.contract = p.intent.contract, o.entry.entry = <<w, p.op, p.attempt>>,
           o.seen = root, Decided(o), Novel(p.intent, o),
           NEW q, q = [p EXCEPT !.phase = "publishing", !.offer = o]
    PROVE  q \in Processes /\ Local(w, q)
<1>1. q \in Processes
    BY DEF Processes, Phases
<1>2. /\ q.phase = "publishing" /\ q.agenda = p.agenda /\ q.op = p.op /\ q.attempt = p.attempt
      /\ q.intent = p.intent /\ q.source = p.source /\ q.offer = o /\ q.result = p.result
    BY DEF Processes
<1>3. Working(q) /\ Checkpointed(q)
    BY <1>2 DEF Local, Working, Checkpointed
<1>4. PreparationFits(q) /\ SourceFits(q)
    BY <1>2 DEF Local, PreparationFits, SourceFits, Custody
<1>5. OfferFits(w, q)
    BY <1>2 DEF OfferFits, Offering, Standing
<1>6. Once(w, q)
    BY <1>2 DEF Local, Once
<1> QED
    BY <1>1, <1>3, <1>4, <1>5, <1>6 DEF Local

----------------------------------------------------------------------------
(* Steps of a process that leave the ledger alone. *)

(* The invariant without the custody of seat and fences. *)
Memory ==
    /\ L!WellFormed
    /\ root \in Nat
    /\ worktree \in [Contracts -> Changes]
    /\ Processed
    /\ Begun
    /\ Orphaned
    /\ AtMostOnce

LEMMA EntryTyped ==
    ASSUME L!WellFormed, NEW c \in Contracts, NEW i \in DOMAIN journal[c]
    PROVE  /\ journal[c][i] \in Facts(Ulids) /\ journal[c][i].entry \in Ulids
           /\ journal[c][i].entry[1] \in Writers /\ journal[c][i].entry[2] \in 1..MaxOps
<1>1. journal[c] \in Seq(Facts(Ulids))
    BY LedgerTyped
<1>2. journal[c][i] \in Facts(Ulids)
    BY <1>1
<1>3. journal[c][i].entry \in Ulids
    BY <1>2 DEF Facts
<1> QED
    BY <1>2, <1>3 DEF Ulids

LEMMA QuietLedger ==
    ASSUME L!WellFormed, UNCHANGED ledgerVars
    PROVE  L!WellFormed' /\ L!Advances
BY LedgerAdvances

(* The process that moves has not died; its orphans are of earlier operations. *)
Moves(w, q) ==
    /\ proc' = [proc EXCEPT ![w] = q]
    /\ \/ q.op = proc[w].op /\ (proc[w].phase # "idle" \/ q = proc[w])
       \/ q.op = proc[w].op + 1

LEMMA MovedMemory ==
    ASSUME Memory, UNCHANGED <<ledgerVars, root>>, worktree' \in [Contracts -> Changes], UNCHANGED orphans,
           NEW w \in Writers, NEW q \in Processes, Local(w, q), Moves(w, q)
    PROVE  Memory'
<1>1. L!WellFormed' /\ L!Advances /\ RootMoves
    BY QuietLedger DEF Memory, RootMoves, ledgerVars
<1>2. UNCHANGED <<journal, state, ref>>
    BY DEF ledgerVars
<1>3. /\ proc \in [Writers -> Processes] /\ proc' \in [Writers -> Processes] /\ proc'[w] = q
      /\ \A x \in Writers \ {w} : proc'[x] = proc[x]
      /\ \A x \in Writers : proc[x].op \in Nat
    BY DEF Memory, Processed, Moves, Processes
<1>4. \A x, n : Told(x, n)' = Told(x, n)
    BY <1>2 DEF Told
<1>5. Processed'
    <2>1. ASSUME NEW x \in Writers
          PROVE  Local(x, proc[x])'
        <3>1. ASSUME NEW p \in Processes, Local(x, p)
              PROVE  Local(x, p)'
            <4>1. Told(x, p.op)' = Told(x, p.op)
                BY <1>4
            <4>2. ToldKept(x, p)
                BY <4>1 DEF ToldKept
            <4> QED
                BY <1>1, <3>1, <4>2, LocalKept DEF Memory
        <3>2. proc'[x] \in Processes /\ Local(x, proc'[x])
            BY <1>3 DEF Memory, Processed
        <3> QED
            BY <3>1, <3>2
    <2> QED
        BY <1>3, <2>1 DEF Processed
<1>6. \A x \in Writers : proc'[x].op >= proc[x].op
    BY <1>3 DEF Moves
<1>7. Begun'
    <2>1. ASSUME NEW c \in Contracts, NEW i \in DOMAIN journal[c]
          PROVE  journal[c][i].entry[2] <= proc'[journal[c][i].entry[1]].op
        <3>1. /\ journal[c][i].entry[1] \in Writers /\ journal[c][i].entry[2] \in Nat
              /\ journal[c][i].entry[2] <= proc[journal[c][i].entry[1]].op
            BY EntryTyped DEF Memory, Begun
        <3>2. proc'[journal[c][i].entry[1]].op \in Nat
            BY <1>3, <3>1 DEF Processes
        <3> QED
            BY <1>3, <1>6, <3>1, <3>2
    <2> QED
        BY <1>2, <2>1 DEF Begun
<1>8. Orphaned'
    <2>1. ASSUME NEW o \in orphans
          PROVE  OrphanFits(o)'
        <3> DEFINE x == o.entry.entry[1]
                   n == o.entry.entry[2]
        <3>1. /\ o \in Offers /\ Standing(o) /\ ~Told(x, n) /\ n <= proc[x].op
              /\ n = proc[x].op => proc[x].phase = "idle" /\ proc[x].result = "crashed"
            BY DEF Memory, Orphaned, OrphanFits
        <3>2. o.entry.entry \in Ulids
            BY <3>1 DEF Offers, Facts
        <3>3. x \in Writers /\ n \in Nat
            BY <3>2 DEF Ulids
        <3>4. Standing(o)'
            BY <1>1, <3>1, StandingKept DEF Memory
        <3>5. ~Told(x, n)'
            BY <1>4, <3>1
        <3>6. /\ n <= proc'[x].op
              /\ n = proc'[x].op => proc'[x].phase = "idle" /\ proc'[x].result = "crashed"
            <4>1. CASE x # w
                BY <1>3, <3>1, <3>3, <4>1
            <4>2. CASE x = w
                BY <1>3, <3>1, <3>3, <4>2 DEF Moves
            <4> QED
                BY <4>1, <4>2
        <3> QED
            BY <3>1, <3>4, <3>5, <3>6 DEF OrphanFits
    <2> QED
        BY <2>1 DEF Memory, Orphaned
<1>9. AtMostOnce'
    BY <1>2 DEF Memory, AtMostOnce
<1> QED
    BY <1>1, <1>5, <1>7, <1>8, <1>9 DEF Memory, RootMoves

----------------------------------------------------------------------------
(* Custody. *)

LEMMA FenceTargetKept ==
    ASSUME L!Advances, NEW p \in Processes, Steady(p), p.phase # "idle"
    PROVE  FenceTarget(p.intent)' = FenceTarget(p.intent)
<1>1. p.intent.contract \in Contracts
    BY OperationTyped DEF Steady, Working
<1>2. CASE p.intent.verb \in {"place", "reintegrate"}
    <2>1. state'[p.intent.contract].target = state[p.intent.contract].target
        BY <1>1, <1>2 DEF Steady, Checkpointed, L!Advances
    <2>2. FenceTarget(p.intent) = state[p.intent.contract].target
        BY <1>2, Zenon DEF FenceTarget
    <2>3. FenceTarget(p.intent)' = state'[p.intent.contract].target
        BY <1>2, Zenon DEF FenceTarget
    <2> QED
        BY <2>1, <2>2, <2>3
<1>3. CASE p.intent.verb \notin {"place", "reintegrate"}
    BY <1>3 DEF FenceTarget
<1> QED
    BY <1>2, <1>3

LEMMA FencesKept ==
    ASSUME Processed, Fences, L!Advances, fence' = fence,
           NEW w \in Writers, NEW q, proc' = [proc EXCEPT ![w] = q],
           \A t \in Targets : fence[t] = w => q.phase \notin {"idle", "fencing"} /\ q.intent = proc[w].intent
    PROVE  Fences'
<1>1. SUFFICES ASSUME NEW t \in Targets, fence[t] # None
               PROVE  /\ proc'[fence[t]].phase \notin {"idle", "fencing"}
                      /\ FenceTarget(proc[fence[t]].intent)' = t
    BY DEF Fences
<1> DEFINE x == fence[t]
<1>2. /\ x \in Writers /\ proc[x].phase \notin {"idle", "fencing"}
      /\ FenceTarget(proc[x].intent) = t
    BY <1>1 DEF Fences
<1>3. proc \in [Writers -> Processes] /\ Local(x, proc[x])
    BY <1>2 DEF Processed
<1>4. proc'[x].phase \notin {"idle", "fencing"} /\ proc'[x].intent = proc[x].intent
    BY <1>2, <1>3
<1>5. PICK p \in Processes : p = proc[x]
    BY <1>2, <1>3
<1>6. FenceTarget(p.intent)' = FenceTarget(p.intent)
    BY <1>2, <1>3, <1>5, FenceTargetKept DEF Local, Steady
<1>7. proc'[fence'[t]].intent = p.intent
    BY <1>4, <1>5
<1> QED
    BY <1>2, <1>4, <1>5, <1>6, <1>7

LEMMA SeatsKept ==
    ASSUME Processed, Seats, seat' = seat, NEW w \in Writers, NEW q, proc' = [proc EXCEPT ![w] = q],
           q.phase \in Custody <=> proc[w].phase \in Custody
    PROVE  Seats'
BY DEF Seats, Processed

(* Holding neither seat nor fence changes. *)
LEMMA MovedInPlace ==
    ASSUME Inv, UNCHANGED <<ledgerVars, root, worktree, seat, fence, orphans>>,
           NEW w \in Writers, NEW q \in Processes, Local(w, q), Moves(w, q),
           q.phase \in Custody <=> proc[w].phase \in Custody,
           \A t \in Targets : fence[t] = w => q.phase \notin {"idle", "fencing"} /\ q.intent = proc[w].intent
    PROVE  Inv'
<1>1. Memory'
    BY MovedMemory DEF Inv, Memory
<1>2. proc' = [proc EXCEPT ![w] = q] /\ fence' = fence /\ seat' = seat
    BY DEF Moves
<1>3. L!Advances
    BY QuietLedger DEF Inv
<1>4. Seats'
    BY <1>2, SeatsKept DEF Inv
<1>5. Fences'
    BY <1>2, <1>3, FencesKept DEF Inv
<1> QED
    BY <1>1, <1>4, <1>5 DEF Inv, Memory

(* A process as the invariant knows it, and the fence it may hold. *)
LEMMA Remembered ==
    ASSUME Inv, NEW w \in Writers
    PROVE  /\ proc[w] \in Processes /\ Local(w, proc[w]) /\ Steady(proc[w])
           /\ proc[w].phase # "idle" => proc[w].intent \in Operations /\ proc[w].intent.contract \in Contracts
           /\ \A t \in Targets : fence[t] = w => /\ proc[w].phase \notin {"idle", "fencing"}
                                                /\ FenceTarget(proc[w].intent) = t
           /\ None \notin Targets /\ w # None
<1>1. proc[w] \in Processes /\ Local(w, proc[w]) /\ Steady(proc[w])
    BY DEF Inv, Processed, Local, Steady
<1>2. proc[w].phase # "idle" => proc[w].intent \in Operations /\ proc[w].intent.contract \in Contracts
    BY <1>1, OperationTyped DEF Local, Working
<1>3. None \notin Targets /\ w # None
    BY ProtocolAssumption DEF NoneIsAbsence
<1>4. ASSUME NEW t \in Targets, fence[t] = w
      PROVE  /\ proc[w].phase \notin {"idle", "fencing"}
             /\ FenceTarget(proc[w].intent) = t
    BY <1>3, <1>4 DEF Inv, Fences
<1> QED
    BY <1>1, <1>2, <1>3, <1>4

LEMMA FenceTargetCases ==
    ASSUME NEW i
    PROVE  /\ i.verb = "bind" => FenceTarget(i) = IF i.target \in Contracts THEN i.target ELSE None
           /\ i.verb \in {"place", "reintegrate"} => FenceTarget(i) = state[i.contract].target
           /\ i.verb \notin {"bind", "place", "reintegrate"} => FenceTarget(i) = None
BY Zenon DEF FenceTarget

(* What may be said of an operation under way. *)
LEMMA Sayable ==
    ASSUME Inv, NEW w \in Writers, proc[w].phase # "idle"
    PROVE  /\ proc[w].phase \notin {"idle", "unfencing"} => proc[w].result = None
           /\ proc[w].phase \in {"fencing", "reading", "external", "waiting", "seated", "publishing", "rejected"} =>
                 ~Told(w, proc[w].op)
           /\ \A verdict \in {"thrown", "placement-failed", "crashed"} : Truthful(w, proc[w].op, verdict)
           /\ ~Told(w, proc[w].op) => \A verdict \in Fruitless : Truthful(w, proc[w].op, verdict)
           /\ Told(w, proc[w].op) => Truthful(w, proc[w].op, "accepted")
           /\ proc[w].op \in Nat /\ proc[w].attempt \in 0..MaxAttempts
<1>1. Once(w, proc[w]) /\ proc[w].op \in Nat /\ proc[w].attempt \in 0..MaxAttempts
    BY DEF Inv, Processed, Local, Processes
<1>2. \A verdict \in {"thrown", "placement-failed", "crashed"} : verdict \notin Fruitless /\ verdict # "accepted"
    BY DEF Fruitless
<1>3. "accepted" \notin Fruitless
    BY DEF Fruitless
<1> QED
    BY <1>1, <1>2, <1>3 DEF Once, Truthful

----------------------------------------------------------------------------
(* An operation begins. *)

LEMMA ToldOnlyBegun ==
    ASSUME Inv, NEW w \in Writers
    PROVE  ~Told(w, proc[w].op + 1)
<1>1. proc[w].op \in Nat
    BY DEF Inv, Processed, Processes
<1>2. SUFFICES ASSUME NEW c \in Contracts, NEW i \in DOMAIN journal[c],
                      journal[c][i].entry[1] = w, journal[c][i].entry[2] = proc[w].op + 1
               PROVE  FALSE
    BY DEF Told
<1>3. proc[w].op + 1 <= proc[w].op
    BY <1>2 DEF Inv, Begun
<1> QED
    BY <1>1, <1>3

LEMMA BeginKeeps ==
    ASSUME Inv, NEW w \in Writers, Begin(w)
    PROVE  Inv'
<1> DEFINE p == proc[w]
           i == Head(p.agenda)
           phase == IF FenceTarget(i) # None THEN "fencing"
                    ELSE IF i.verb \in {"amend", "verify"} THEN "reading"
                    ELSE AttemptPhase(i.verb)
           q == [Idle EXCEPT !.phase = phase, !.agenda = Tail(p.agenda), !.op = p.op + 1,
                             !.attempt = 1, !.intent = i]
<1>1. /\ p.phase = "idle" /\ p.agenda # <<>>
      /\ i.verb \in {"place", "reintegrate"} => state[i.contract] # None
      /\ i.verb = "reintegrate" => state[i.contract].target # None
      /\ proc' = [proc EXCEPT ![w] = q]
      /\ UNCHANGED <<ledgerVars, root, worktree, seat, fence, orphans>>
    BY DEF Begin
<1>2. /\ p \in Processes /\ Working(p) /\ p.agenda \in Seq(Operations) /\ p.op \in Nat /\ MaxOps \in Nat
      /\ \A t \in Targets : fence[t] # w
    BY <1>1, Remembered, ProtocolAssumption DEF Steady, Processes
<1>3. /\ i \in Operations /\ Tail(p.agenda) \in Seq(Operations)
      /\ p.op + 1 + Len(Tail(p.agenda)) <= MaxOps
    BY <1>1, <1>2 DEF Working
<1>4. i.verb \in {"bind", "amend", "deliver", "review", "verify", "reintegrate", "arc", "abandon", "place"}
    BY <1>3, OperationTyped
<1>5. /\ phase \in {"fencing", "reading", "external", "waiting"}
      /\ phase = "fencing" => i.verb \in {"bind", "place", "reintegrate"}
      /\ phase = "reading" => i.verb \in {"amend", "verify"}
      /\ phase = "external" => Prepared(i.verb)
      /\ phase = "waiting" => ~Prepared(i.verb) /\ i.verb # "verify"
    BY <1>4, FenceTargetCases DEF AttemptPhase
<1> HIDE DEF i, p, phase
<1>6. q = [phase |-> phase, agenda |-> Tail(p.agenda), op |-> p.op + 1, attempt |-> 1, intent |-> i,
           source |-> None, prep |-> None, offer |-> None, outcome |-> None, result |-> None]
    <2>1. q = [Idle EXCEPT !.phase = phase, !.agenda = Tail(p.agenda), !.op = p.op + 1,
                           !.attempt = 1, !.intent = i]
        OBVIOUS
    <2> HIDE DEF q
    <2> DEFINE a == Tail(p.agenda)
               n == p.op + 1
    <2>2. q = [Idle EXCEPT !.phase = phase, !.agenda = a, !.op = n, !.attempt = 1, !.intent = i]
        BY <2>1
    <2> HIDE DEF a, n
    <2>3. q = [phase |-> phase, agenda |-> a, op |-> n, attempt |-> 1, intent |-> i,
               source |-> None, prep |-> None, offer |-> None, outcome |-> None, result |-> None]
        BY <2>2 DEF Idle
    <2> QED
        BY <2>3 DEF a, n
<1> HIDE DEF q
<1>7. q \in Processes
    BY <1>2, <1>3, <1>5, <1>6 DEF Processes, Phases, MaxAttempts
<1>8. /\ q.phase = phase /\ q.agenda = Tail(p.agenda) /\ q.op = p.op + 1 /\ q.attempt = 1 /\ q.intent = i
      /\ q.offer = None /\ q.result = None
    BY <1>6
<1>9. Working(q) /\ Checkpointed(q)
    BY <1>1, <1>2, <1>3, <1>5, <1>8 DEF Working, Checkpointed
<1>10. PreparationFits(q) /\ SourceFits(q)
    BY <1>5, <1>8 DEF PreparationFits, SourceFits, Prepared, Custody
<1>11. ~Told(w, q.op)
    BY <1>8, ToldOnlyBegun DEF p
<1>12. OfferFits(w, q) /\ Once(w, q)
    BY <1>5, <1>8, <1>11 DEF OfferFits, Offering, Once
<1>13. Moves(w, q)
    BY <1>1, <1>8 DEF Moves, p
<1>14. q.phase \in Custody <=> proc[w].phase \in Custody
    BY <1>1, <1>5, <1>8 DEF Custody, p
<1> QED
    BY <1>1, <1>2, <1>7, <1>9, <1>10, <1>12, <1>13, <1>14, MovedInPlace DEF Local

----------------------------------------------------------------------------
(* The fence. *)

LEMMA AcquireFenceKeeps ==
    ASSUME Inv, NEW w \in Writers, AcquireFence(w)
    PROVE  Inv'
<1> DEFINE p == proc[w]
           t == FenceTarget(p.intent)
           phase == IF p.intent.verb = "place" THEN "reading" ELSE AttemptPhase(p.intent.verb)
           q == [p EXCEPT !.phase = phase]
<1>1. /\ p.phase = "fencing" /\ fence[t] = None
      /\ fence' = [fence EXCEPT ![t] = w]
      /\ proc' = [proc EXCEPT ![w] = q]
      /\ UNCHANGED <<ledgerVars, root, worktree, seat, orphans>>
    BY DEF AcquireFence, Goto, Verb
<1>2. /\ p \in Processes /\ Local(w, p) /\ Steady(p) /\ \A s \in Targets : fence[s] # w
      /\ p.intent.verb \in {"bind", "place", "reintegrate"} /\ w # None
    BY <1>1, Remembered DEF Steady, Working
<1>3. /\ phase \in {"reading", "external"}
      /\ phase = "reading" => p.intent.verb = "place"
      /\ phase = "external" => Prepared(p.intent.verb)
    BY <1>2 DEF AttemptPhase, Prepared
<1> HIDE DEF phase
<1>4. q \in Processes
    BY <1>2, <1>3 DEF Processes, Phases
<1>5. /\ q.phase = phase /\ q.agenda = p.agenda /\ q.op = p.op /\ q.attempt = p.attempt /\ q.intent = p.intent
      /\ q.source = p.source /\ q.prep = p.prep /\ q.offer = p.offer /\ q.outcome = p.outcome
      /\ q.result = p.result
    BY <1>2 DEF Processes
<1> HIDE DEF q, p
<1>6. Local(w, q)
    <2>1. Working(q) /\ Checkpointed(q)
        BY <1>1, <1>2, <1>3, <1>5 DEF Steady, Working, Checkpointed
    <2>2. PreparationFits(q) /\ SourceFits(q)
        BY <1>3, <1>5 DEF PreparationFits, SourceFits, Custody
    <2>3. OfferFits(w, q) /\ Once(w, q)
        BY <1>1, <1>2, <1>3, <1>5 DEF Local, OfferFits, Offering, Once
    <2> QED
        BY <2>1, <2>2, <2>3 DEF Local
<1>7. Moves(w, q)
    BY <1>1, <1>5 DEF Moves, p
<1>8. Memory'
    BY <1>1, <1>4, <1>6, <1>7, MovedMemory DEF Inv, Memory
<1>9. Seats'
    BY <1>1, <1>3, <1>5, SeatsKept DEF Inv, Custody, p
<1>10. Fences'
    <2>1. fence' \in [Targets -> Writers \cup {None}]
        BY <1>1 DEF Inv, Fences
    <2>2. ASSUME NEW s \in Targets, fence'[s] # None
          PROVE  proc'[fence'[s]].phase \notin {"idle", "fencing"} /\ FenceTarget(proc[fence[s]].intent)' = s
        <3>1. proc \in [Writers -> Processes] /\ fence \in [Targets -> Writers \cup {None}]
            BY DEF Inv, Processed, Fences
        <3>2. UNCHANGED state
            BY <1>1 DEF ledgerVars
        <3>3. CASE s = t
            <4>1. fence'[s] = w /\ proc'[w] = q
                BY <1>1, <3>1, <3>3
            <4>2. PICK r \in Processes : r = q
                BY <1>4
            <4>3. FenceTarget(r.intent)' = FenceTarget(r.intent)
                BY <3>2 DEF FenceTarget
            <4>4. r.phase \notin {"idle", "fencing"} /\ FenceTarget(r.intent) = s
                BY <1>3, <1>5, <3>3, <4>2
            <4>5. proc'[fence'[s]] = r
                BY <4>1, <4>2
            <4> QED
                BY <4>3, <4>4, <4>5
        <3>4. CASE s # t
            <4>1. fence'[s] = fence[s] /\ fence[s] # w /\ fence[s] \in Writers
                BY <1>1, <1>2, <2>2, <3>1, <3>4
            <4>2. PICK x \in Writers : x = fence[s]
                BY <4>1
            <4>3. proc'[x] = proc[x] /\ proc[x].phase \notin {"idle", "fencing"} /\ FenceTarget(proc[x].intent) = s
                BY <1>1, <2>2, <3>1, <4>1, <4>2 DEF Inv, Fences
            <4>4. FenceTarget(proc[x].intent)' = FenceTarget(proc[x].intent)
                BY <3>2, <4>3 DEF FenceTarget
            <4> QED
                BY <4>1, <4>2, <4>3, <4>4
        <3> QED
            BY <3>3, <3>4
    <2> QED
        BY <2>1, <2>2 DEF Fences
<1> QED
    BY <1>8, <1>9, <1>10 DEF Inv, Memory

(* An operation ends without its fence, and leaves seat and fences alone. *)
LEMMA EndedKeeps ==
    ASSUME Inv, UNCHANGED <<ledgerVars, root, worktree, seat, fence, orphans>>,
           NEW w \in Writers, proc[w].phase \notin Custody \cup {"idle"},
           \A t \in Targets : fence[t] # w,
           NEW result \in Results \cup {None}, Truthful(w, proc[w].op, result),
           proc' = [proc EXCEPT ![w] = Ended(@, result)]
    PROVE  Inv'
<1> DEFINE q == Ended(proc[w], result)
<1>1. proc[w] \in Processes /\ Working(proc[w])
    BY Remembered DEF Steady
<1>2. q \in Processes /\ Local(w, q)
    BY <1>1, EndedLocal
<1>3. q.phase = "idle" /\ q.op = proc[w].op
    BY DEF Ended, Idle
<1>4. Moves(w, q)
    BY <1>3 DEF Moves
<1> HIDE DEF q
<1> QED
    BY <1>2, <1>3, <1>4, MovedInPlace DEF Custody

LEMMA FenceTimeoutKeeps ==
    ASSUME Inv, NEW w \in Writers, FenceTimeout(w)
    PROVE  Inv'
<1> DEFINE result == IF Verb(w) = "bind" THEN "thrown" ELSE "placement-failed"
<1>1. /\ proc[w].phase = "fencing"
      /\ proc' = [proc EXCEPT ![w] = Ended(@, result)]
      /\ UNCHANGED <<ledgerVars, root, worktree, seat, fence, orphans>>
    BY DEF FenceTimeout
<1>2. result \in Results \cup {None} /\ Truthful(w, proc[w].op, result)
    BY <1>1, Sayable DEF Results
<1>3. \A t \in Targets : fence[t] # w
    BY <1>1, Remembered
<1>4. proc[w].phase \notin Custody \cup {"idle"}
    BY <1>1 DEF Custody
<1> HIDE DEF result
<1> QED
    BY <1>1, <1>2, <1>3, <1>4, EndedKeeps

(* The release of the fence, and what the caller is told. *)
LEMMA ReleasedKeeps ==
    ASSUME Inv, UNCHANGED <<ledgerVars, root, worktree, seat, orphans>>,
           NEW w \in Writers, proc[w].phase = "unfencing",
           fence' = [fence EXCEPT ![FenceTarget(proc[w].intent)] = None],
           NEW result \in Results \cup {None}, Truthful(w, proc[w].op, result),
           proc' = [proc EXCEPT ![w] = Ended(@, result)]
    PROVE  Inv'
<1> DEFINE q == Ended(proc[w], result)
<1>1. proc[w] \in Processes /\ Working(proc[w])
    BY Remembered DEF Steady
<1>2. q \in Processes /\ Local(w, q)
    BY <1>1, EndedLocal
<1>3. q.phase = "idle" /\ q.op = proc[w].op
    BY DEF Ended, Idle
<1>4. Moves(w, q)
    BY <1>3 DEF Moves
<1>5. proc' = [proc EXCEPT ![w] = q]
    OBVIOUS
<1> HIDE DEF q
<1>6. Memory'
    BY <1>2, <1>4, MovedMemory DEF Inv, Memory
<1>7. Seats'
    BY <1>3, <1>5, SeatsKept DEF Inv, Custody
<1>8. Fences'
    <2>1. proc \in [Writers -> Processes] /\ fence \in [Targets -> Writers \cup {None}] /\ UNCHANGED state
        BY DEF Inv, Processed, Fences, ledgerVars
    <2>2. fence' \in [Targets -> Writers \cup {None}]
        BY <2>1
    <2>3. ASSUME NEW s \in Targets, fence'[s] # None
          PROVE  proc'[fence'[s]].phase \notin {"idle", "fencing"} /\ FenceTarget(proc[fence[s]].intent)' = s
        <3>1. fence'[s] = fence[s] /\ s # FenceTarget(proc[w].intent)
            BY <2>1, <2>3
        <3>2. fence[s] # w /\ fence[s] \in Writers
            BY <2>1, <2>3, <3>1, Remembered
        <3>3. PICK x \in Writers : x = fence[s]
            BY <3>2
        <3>4. proc'[x] = proc[x] /\ proc[x].phase \notin {"idle", "fencing"} /\ FenceTarget(proc[x].intent) = s
            BY <1>5, <2>1, <2>3, <3>1, <3>2, <3>3 DEF Inv, Fences
        <3>5. FenceTarget(proc[x].intent)' = FenceTarget(proc[x].intent)
            BY <2>1, <3>4 DEF FenceTarget
        <3> QED
            BY <3>1, <3>3, <3>4, <3>5
    <2> QED
        BY <2>2, <2>3 DEF Fences
<1> QED
    BY <1>6, <1>7, <1>8 DEF Inv, Memory

LEMMA UnfenceKeeps ==
    ASSUME Inv, NEW w \in Writers, Unfence(w) \/ UnfenceFails(w)
    PROVE  Inv'
<1> DEFINE p == proc[w]
<1>1. /\ p.phase = "unfencing" /\ fence' = [fence EXCEPT ![FenceTarget(p.intent)] = None]
      /\ UNCHANGED <<ledgerVars, root, worktree, seat, orphans>>
    BY DEF Unfence, UnfenceFails
<1>2. p \in Processes /\ Once(w, p) /\ p.result \in Results \cup {None}
    BY Remembered DEF Local, Processes
<1>3. Truthful(w, p.op, p.result)
    BY <1>1, <1>2 DEF Once
<1>4. \A verdict \in {"thrown", "placement-failed"} : verdict \in Results /\ Truthful(w, p.op, verdict)
    BY <1>1, Sayable DEF Results
<1>5. CASE Unfence(w)
    <2>1. proc' = [proc EXCEPT ![w] = Ended(@, p.result)]
        BY <1>5 DEF Unfence
    <2> QED
        BY <1>1, <1>2, <1>3, <2>1, ReleasedKeeps
<1>6. CASE UnfenceFails(w)
    <2> DEFINE result == CASE Verb(w) = "place" /\ p.result = "accepted" -> "accepted"
                           [] Verb(w) = "bind" -> "thrown"
                           [] OTHER -> "placement-failed"
    <2>1. proc' = [proc EXCEPT ![w] = Ended(@, result)]
        BY <1>6 DEF UnfenceFails
    <2>2. result \in {"thrown", "placement-failed"} \/ result = p.result
        OBVIOUS
    <2>3. result \in Results \cup {None} /\ Truthful(w, p.op, result)
        <3> HIDE DEF result
        <3> QED
            BY <1>2, <1>3, <1>4, <2>2
    <2> HIDE DEF result
    <2> QED
        BY <1>1, <2>1, <2>3, ReleasedKeeps
<1> QED
    BY <1>5, <1>6

----------------------------------------------------------------------------
(* The ends of an operation and of a custody. *)

LEMMA SeatReleased ==
    ASSUME Processed, Seats, NEW w \in Writers, NEW q, proc' = [proc EXCEPT ![w] = q],
           proc[w].phase \in Custody, q.phase \notin Custody, seat' = None
    PROVE  Seats'
BY ProtocolAssumption DEF Seats, Processed

LEMMA FinishedShape ==
    ASSUME NEW p, NEW result
    PROVE  /\ Finished(p, result).op = p.op
           /\ \/ Finished(p, result).phase = "idle" /\ FenceTarget(p.intent) = None
              \/ Finished(p, result).phase = "unfencing" /\ Finished(p, result).intent = p.intent
<1>1. CASE FenceTarget(p.intent) = None
    BY <1>1 DEF Finished, Ended, Idle
<1>2. CASE FenceTarget(p.intent) # None
    BY <1>2 DEF Finished, Ended, Idle
<1> QED
    BY <1>1, <1>2

LEMMA FinishKeeps ==
    ASSUME Inv, UNCHANGED <<ledgerVars, root, worktree, fence, orphans>>,
           NEW w \in Writers, proc[w].phase \notin {"idle", "fencing"},
           NEW result \in Results, Truthful(w, proc[w].op, result),
           proc' = [proc EXCEPT ![w] = Finished(@, result)],
           IF proc[w].phase \in Custody THEN seat' = None ELSE seat' = seat
    PROVE  Inv'
<1> DEFINE q == Finished(proc[w], result)
<1>1. /\ proc[w] \in Processes /\ Steady(proc[w])
      /\ \A t \in Targets : fence[t] = w => FenceTarget(proc[w].intent) = t
      /\ None \notin Targets
    BY Remembered
<1>2. q \in Processes /\ Local(w, q)
    BY <1>1, FinishedLocal
<1>3. /\ q.op = proc[w].op
      /\ \/ q.phase = "idle" /\ FenceTarget(proc[w].intent) = None
         \/ q.phase = "unfencing" /\ q.intent = proc[w].intent
    BY FinishedShape
<1>4. proc' = [proc EXCEPT ![w] = q]
    OBVIOUS
<1> HIDE DEF q
<1>5. Moves(w, q)
    BY <1>3, <1>4 DEF Moves
<1>6. Memory'
    BY <1>2, <1>5, MovedMemory DEF Inv, Memory
<1>7. Seats'
    BY <1>3, <1>4, SeatsKept, SeatReleased DEF Inv, Custody
<1>8. Fences'
    <2>1. \A t \in Targets : fence[t] = w => q.phase \notin {"idle", "fencing"} /\ q.intent = proc[w].intent
        BY <1>1, <1>3
    <2> QED
        BY <1>4, <2>1, QuietLedger, FencesKept DEF Inv
<1> QED
    BY <1>6, <1>7, <1>8 DEF Inv, Memory

LEMMA SeatTimeoutKeeps ==
    ASSUME Inv, NEW w \in Writers, SeatTimeout(w)
    PROVE  Inv'
<1> DEFINE result == IF TakesSeatItself(proc[w].intent) THEN "thrown" ELSE "publication-failed"
<1>1. /\ proc[w].phase = "waiting"
      /\ proc' = [proc EXCEPT ![w] = Finished(@, result)]
      /\ UNCHANGED <<ledgerVars, root, worktree, seat, fence, orphans>>
    BY DEF SeatTimeout, Finish
<1>2. result \in Results /\ Truthful(w, proc[w].op, result)
    BY <1>1, Sayable DEF Results, Fruitless
<1> HIDE DEF result
<1>3. proc[w].phase \notin Custody
    BY <1>1 DEF Custody
<1> QED
    BY <1>1, <1>2, <1>3, FinishKeeps

LEMMA CloseSeatKeeps ==
    ASSUME Inv, NEW w \in Writers, CloseSeat(w)
    PROVE  Inv'
<1> DEFINE p == proc[w]
<1>1. /\ p.phase = "closing" /\ seat' = None
      /\ UNCHANGED <<ledgerVars, root, worktree, fence, orphans>>
    BY DEF CloseSeat
<1>2. /\ p \in Processes /\ Local(w, p) /\ p.outcome \in Outcomes /\ Truthful(w, p.op, p.outcome)
      /\ p.attempt \in 0..MaxAttempts
    BY <1>1, Remembered DEF Local, Once, Processes
<1>3. p.phase \in Custody
    BY <1>1 DEF Custody
<1>4. CASE p.outcome # "retry"
    <2>1. proc' = [proc EXCEPT ![w] = Finished(@, p.outcome)]
        BY <1>4 DEF CloseSeat
    <2>2. p.outcome \in Results
        BY <1>2, <1>4 DEF Outcomes, Results
    <2> QED
        BY <1>1, <1>2, <1>3, <2>1, <2>2, FinishKeeps
<1>5. CASE p.outcome = "retry" /\ ~(p.attempt < MaxAttempts)
    <2>1. proc' = [proc EXCEPT ![w] = Finished(@, "exhausted")]
        BY <1>5 DEF CloseSeat
    <2>2. "exhausted" \in Results /\ Truthful(w, p.op, "exhausted")
        BY <1>2, <1>5 DEF Results, Truthful, Fruitless
    <2> QED
        BY <1>1, <1>3, <2>1, <2>2, FinishKeeps
<1>6. CASE p.outcome = "retry" /\ p.attempt < MaxAttempts
    <2> DEFINE q == NextAttempt(p)
    <2>1. proc' = [proc EXCEPT ![w] = q]
        BY <1>6 DEF CloseSeat
    <2>2. q \in Processes /\ Local(w, q)
        BY <1>1, <1>2, <1>6, NextAttemptLocal
    <2>3. q.phase \in {"external", "waiting"} /\ q.op = p.op /\ q.intent = p.intent
        <3>1. AttemptPhase(p.intent.verb) \in {"external", "waiting"}
            BY DEF AttemptPhase
        <3> QED
            BY <1>2, <3>1 DEF NextAttempt, Processes
    <2> HIDE DEF q
    <2>4. Memory'
        <3>1. Moves(w, q)
            BY <1>1, <2>1, <2>3 DEF Moves
        <3> QED
            BY <1>1, <2>2, <3>1, MovedMemory DEF Inv, Memory
    <2>5. Seats'
        BY <1>1, <1>3, <2>1, <2>3, SeatReleased DEF Inv, Custody
    <2>6. Fences'
        BY <1>1, <2>1, <2>3, QuietLedger, FencesKept DEF Inv
    <2> QED
        BY <2>4, <2>5, <2>6 DEF Inv, Memory
<1> QED
    BY <1>4, <1>5, <1>6

LEMMA CloseSeatFailsKeeps ==
    ASSUME Inv, NEW w \in Writers, CloseSeatFails(w)
    PROVE  Inv'
<1> DEFINE p == proc[w]
           result == IF p.outcome = "accepted" THEN "accepted" ELSE "thrown"
<1>1. /\ p.phase = "closing" /\ seat' = None
      /\ proc' = [proc EXCEPT ![w] = Finished(@, result)]
      /\ UNCHANGED <<ledgerVars, root, worktree, fence, orphans>>
    BY DEF CloseSeatFails, Finish
<1>2. Truthful(w, p.op, p.outcome)
    BY <1>1, Remembered DEF Local, Once
<1>3. result \in Results /\ Truthful(w, p.op, result)
    BY <1>1, <1>2, Sayable DEF Results
<1> HIDE DEF result
<1>4. p.phase \in Custody
    BY <1>1 DEF Custody
<1> QED
    BY <1>1, <1>3, <1>4, FinishKeeps

LEMMA AcquireSeatKeeps ==
    ASSUME Inv, NEW w \in Writers, AcquireSeat(w)
    PROVE  Inv'
<1> DEFINE p == proc[w]
           q == [p EXCEPT !.phase = "seated"]
<1>1. /\ p.phase = "waiting" /\ seat = None /\ seat' = w
      /\ proc' = [proc EXCEPT ![w] = q]
      /\ UNCHANGED <<ledgerVars, root, worktree, fence, orphans>>
    BY DEF AcquireSeat, Goto
<1>2. p \in Processes /\ Local(w, p)
    BY Remembered
<1>3. q \in Processes
    BY <1>2 DEF Processes, Phases
<1>4. /\ q.phase = "seated" /\ q.agenda = p.agenda /\ q.op = p.op /\ q.attempt = p.attempt /\ q.intent = p.intent
      /\ q.source = p.source /\ q.prep = p.prep /\ q.offer = p.offer /\ q.result = p.result
    BY <1>2 DEF Processes
<1> HIDE DEF q, p
<1>5. Local(w, q)
    <2>1. Working(q) /\ Checkpointed(q)
        BY <1>1, <1>2, <1>4 DEF Local, Working, Checkpointed
    <2>2. PreparationFits(q) /\ SourceFits(q)
        BY <1>1, <1>2, <1>4 DEF Local, PreparationFits, SourceFits, Custody
    <2>3. OfferFits(w, q) /\ Once(w, q)
        BY <1>1, <1>2, <1>4 DEF Local, OfferFits, Offering, Once
    <2> QED
        BY <2>1, <2>2, <2>3 DEF Local
<1>6. Memory'
    <2>1. Moves(w, q)
        BY <1>1, <1>4 DEF Moves, p
    <2> QED
        BY <1>1, <1>3, <1>5, <2>1, MovedMemory DEF Inv, Memory
<1>7. Seats'
    <2>1. proc \in [Writers -> Processes] /\ \A x \in Writers : seat # x
        BY <1>1, ProtocolAssumption DEF Inv, Processed
    <2> QED
        BY <1>1, <1>4, <2>1 DEF Inv, Seats, Custody
<1>8. Fences'
    <2>1. \A t \in Targets : fence[t] = w => q.phase \notin {"idle", "fencing"} /\ q.intent = proc[w].intent
        BY <1>4 DEF p
    <2> QED
        BY <1>1, <2>1, QuietLedger, FencesKept DEF Inv
<1> QED
    BY <1>6, <1>7, <1>8 DEF Inv, Memory

----------------------------------------------------------------------------
(* Work outside custody. *)

LEMMA PlanIsPredecessor ==
    ASSUME L!WellFormed, NEW c \in Contracts, state[c] # None, NEW change
    PROVE  /\ Plan(c, change) \in Commits \cup {None}
           /\ Plan(c, change) # None => Plan(c, change) \in L!Predecessors(c)
           /\ None \notin Commits
<1>1. None \notin Commits
    BY ProtocolAssumption DEF NoneIsAbsence
<1>2. state[c].start \in Commits /\ state[c].target \in Targets \cup {None}
    BY LedgerTyped DEF States
<1>3. CASE state[c].target = None
    BY <1>1, <1>2, <1>3 DEF Plan, L!Predecessors
<1>4. CASE state[c].target # None
    <2> DEFINE head == ref[state[c].target]
    <2>1. head \in Commits \cup {None}
        BY <1>2, <1>4, LedgerTyped
    <2>2. Plan(c, change) \in {None, head}
        BY <1>4 DEF Plan
    <2>3. head # None => head \in L!Heads(state[c].target)
        <3> HAVE head # None
        <3>1. head \in Seq(Changes \cup {Foreign})
            BY <2>1 DEF Commits
        <3>2. Len(head) \in 0..Len(head) /\ SubSeq(head, 1, Len(head)) = head
            BY <3>1
        <3> QED
            BY <3>2 DEF L!Heads
    <2>4. L!Predecessors(c) = L!Heads(state[c].target)
        BY <1>4 DEF L!Predecessors
    <2> HIDE DEF head
    <2> QED
        BY <1>1, <2>1, <2>2, <2>3, <2>4
<1> QED
    BY <1>3, <1>4

(* From work outside custody to the wait for the seat. *)
Waiting(p, source, prep) == [p EXCEPT !.phase = "waiting", !.source = source, !.prep = prep]

LEMMA WaitingShape ==
    ASSUME NEW p \in Processes, NEW source \in Terms \cup Movements \cup Commits \cup {None},
           NEW prep \in Preparations \cup {None}
    PROVE  LET q == Waiting(p, source, prep) IN
           /\ q \in Processes
           /\ q.phase = "waiting" /\ q.agenda = p.agenda /\ q.op = p.op /\ q.attempt = p.attempt
           /\ q.intent = p.intent /\ q.source = source /\ q.prep = prep /\ q.offer = p.offer
           /\ q.result = p.result
<1> DEFINE q == Waiting(p, source, prep)
<1>1. q = [p EXCEPT !.phase = "waiting", !.source = source, !.prep = prep]
    BY DEF Waiting
<1> HIDE DEF q
<1>2. q \in Processes
    BY <1>1 DEF Processes, Phases
<1>3. /\ q.phase = "waiting" /\ q.agenda = p.agenda /\ q.op = p.op /\ q.attempt = p.attempt
      /\ q.intent = p.intent /\ q.source = source /\ q.prep = prep /\ q.offer = p.offer
      /\ q.result = p.result
    BY <1>1 DEF Processes
<1> QED
    BY <1>2, <1>3 DEF q

LEMMA WaitingKeeps ==
    ASSUME Inv, UNCHANGED <<ledgerVars, root, worktree, seat, fence, orphans>>,
           NEW w \in Writers, proc[w].phase \in {"reading", "external"},
           NEW source \in Terms \cup Movements \cup Commits \cup {None}, NEW prep \in Preparations \cup {None},
           PreparationFits(Waiting(proc[w], source, prep)), SourceFits(Waiting(proc[w], source, prep)),
           proc' = [proc EXCEPT ![w] = Waiting(@, source, prep)]
    PROVE  Inv'
<1> DEFINE p == proc[w]
           q == Waiting(p, source, prep)
<1>1. p \in Processes /\ Local(w, p)
    BY Remembered
<1>2. /\ q \in Processes
      /\ q.phase = "waiting" /\ q.agenda = p.agenda /\ q.op = p.op /\ q.attempt = p.attempt
      /\ q.intent = p.intent /\ q.offer = p.offer /\ q.result = p.result
    BY <1>1, WaitingShape
<1>3. proc' = [proc EXCEPT ![w] = q] /\ PreparationFits(q) /\ SourceFits(q) /\ p.phase \in {"reading", "external"}
    OBVIOUS
<1> HIDE DEF q, p
<1>4. Working(q) /\ Checkpointed(q)
    BY <1>1, <1>2, <1>3 DEF Local, Working, Checkpointed
<1>5. OfferFits(w, q) /\ Once(w, q)
    BY <1>1, <1>2, <1>3 DEF Local, OfferFits, Offering, Once
<1>6. Moves(w, q)
    BY <1>2, <1>3 DEF Moves, p
<1>7. q.phase \in Custody <=> proc[w].phase \in Custody
    BY <1>2, <1>3 DEF Custody, p
<1>8. Local(w, q)
    BY <1>3, <1>4, <1>5 DEF Local
<1>9. \A t \in Targets : fence[t] = w => q.phase \notin {"idle", "fencing"} /\ q.intent = proc[w].intent
    BY <1>2 DEF p
<1> QED
    BY <1>2, <1>6, <1>7, <1>8, <1>9, MovedInPlace

LEMMA ReadSourceKeeps ==
    ASSUME Inv, NEW w \in Writers, ReadSource(w)
    PROVE  Inv'
<1> DEFINE p == proc[w]
           i == p.intent
           c == i.contract
<1>1. /\ p.phase = "reading"
      /\ UNCHANGED <<ledgerVars, root, worktree, seat, fence, orphans>>
    BY DEF ReadSource
<1>2. /\ p \in Processes /\ Working(p) /\ i.verb \in {"amend", "place", "verify"} /\ c \in Contracts
      /\ i \in Operations /\ p.prep \in Preparations \cup {None}
    BY <1>1, Remembered DEF Local, Working, Processes
<1>3. L!WellFormed
    BY DEF Inv
<1>4. ASSUME NEW source \in Terms \cup Movements \cup Commits \cup {None},
             proc' = [proc EXCEPT ![w] = [p EXCEPT !.phase = "waiting", !.source = source]],
             i.verb = "verify" => /\ state[c] # None
                                  /\ \E predecessor \in L!Predecessors(c), change \in Changes :
                                        source = Append(predecessor, change)
      PROVE  Inv'
    <2> DEFINE q == Waiting(p, source, p.prep)
    <2>1. q = [p EXCEPT !.phase = "waiting", !.source = source]
        BY <1>2 DEF Waiting, Processes
    <2>2. q.phase = "waiting" /\ q.intent = i /\ q.source = source
        BY <1>2, WaitingShape
    <2>3. proc' = [proc EXCEPT ![w] = q]
        BY <1>4, <2>1
    <2> HIDE DEF q
    <2>4. PreparationFits(q)
        BY <1>2, <2>2 DEF PreparationFits
    <2>5. SourceFits(q)
        BY <1>4, <2>2 DEF SourceFits
    <2> QED
        BY <1>1, <1>2, <2>3, <2>4, <2>5, WaitingKeeps DEF q
<1>5. CASE i.verb = "amend"
    <2> DEFINE source == IF state[c] = None THEN None ELSE state[c].terms
    <2>1. proc' = [proc EXCEPT ![w].phase = "waiting", ![w].source = source]
        BY <1>5, Zenon DEF ReadSource
    <2>2. source \in Terms \cup {None}
        BY <1>2, <1>3, LedgerTyped DEF States
    <2> HIDE DEF source
    <2>3. proc' = [proc EXCEPT ![w] = [p EXCEPT !.phase = "waiting", !.source = source]]
        BY <2>1 DEF Inv, Processed
    <2> QED
        BY <1>4, <1>5, <2>2, <2>3
<1>6. CASE i.verb = "place"
    <2> DEFINE source == IF Active(state, c) /\ state[c].integration # None THEN Movement(state[c]) ELSE None
    <2>1. proc' = [proc EXCEPT ![w].phase = "waiting", ![w].source = source]
        BY <1>6, Zenon DEF ReadSource
    <2>2. source \in Movements \cup {None}
        <3> SUFFICES ASSUME Active(state, c), state[c].integration # None
                     PROVE  Movement(state[c]) \in Movements \cup {None}
            OBVIOUS
        <3>1. state[c] \in States(Ulids)
            BY <1>2, <1>3, LedgerTyped DEF Active
        <3>2. state[c].integration \in Integrations
            BY <3>1 DEF States
        <3> QED
            BY <3>1, <3>2, LedgerAssumed, L!MovementTyped, SameSets, SameFacts
    <2> HIDE DEF source
    <2>3. proc' = [proc EXCEPT ![w] = [p EXCEPT !.phase = "waiting", !.source = source]]
        BY <2>1 DEF Inv, Processed
    <2> QED
        BY <1>4, <1>6, <2>2, <2>3
<1>7. CASE i.verb = "verify"
    <2> DEFINE plan == Plan(c, worktree[c])
               source == Append(plan, worktree[c])
    <2>1. CASE /\ Active(state, c)
               /\ TargetOpen(state, c, state[c].target)
               /\ i.check \in state[c].terms.obligations
               /\ plan # None
        <3>1. proc' = [proc EXCEPT ![w].phase = "waiting", ![w].source = source]
            BY <1>7, <2>1 DEF ReadSource
        <3>2. state[c] # None /\ worktree[c] \in Changes
            BY <1>2, <2>1 DEF Active, Inv
        <3>3. plan \in L!Predecessors(c) /\ plan \in Commits
            BY <1>2, <1>3, <2>1, <3>2, PlanIsPredecessor
        <3> HIDE DEF plan
        <3>4. source \in Commits
            BY <3>2, <3>3 DEF Commits
        <3>5. \E predecessor \in L!Predecessors(c), change \in Changes : source = Append(predecessor, change)
            BY <3>2, <3>3
        <3> HIDE DEF source
        <3>6. proc' = [proc EXCEPT ![w] = [p EXCEPT !.phase = "waiting", !.source = source]]
            BY <3>1 DEF Inv, Processed
        <3> QED
            BY <1>4, <3>2, <3>4, <3>5, <3>6
    <2>2. CASE ~ /\ Active(state, c)
                 /\ TargetOpen(state, c, state[c].target)
                 /\ i.check \in state[c].terms.obligations
                 /\ plan # None
        <3>1. proc' = [proc EXCEPT ![w] = Finished(@, "refused")]
            BY <1>7, <2>2 DEF ReadSource, Finish
        <3>2. "refused" \in Results /\ Truthful(w, p.op, "refused") /\ p.phase \notin Custody
            BY <1>1, Sayable DEF Results, Fruitless, Custody
        <3> QED
            BY <1>1, <3>1, <3>2, FinishKeeps
    <2> QED
        BY <2>1, <2>2
<1> QED
    BY <1>2, <1>5, <1>6, <1>7

LEMMA PrepareCases ==
    ASSUME NEW i
    PROVE  /\ i.verb = "bind" => Prepare(i) = PrepareBind(i)
           /\ i.verb # "bind" /\ state[i.contract] = None => Prepare(i) = [kind |-> "unavailable"]
           /\ state[i.contract] # None =>
                 /\ i.verb = "deliver" => Prepare(i) = PrepareDeliver(i)
                 /\ i.verb = "reintegrate" => Prepare(i) = PrepareReintegrate(i)
                 /\ i.verb = "review" => Prepare(i) = PrepareReview(i)
BY Zenon DEF Prepare

(* What a preparation says of the ledger as it is. *)
LEMMA Preparing ==
    ASSUME Inv, NEW i \in Operations, Prepared(i.verb)
    PROVE  /\ Prepare(i) \in Preparations
           /\ i.verb = "bind" => BindPrepared(Prepare(i))
           /\ i.verb = "deliver" => DeliveryPrepared(i, Prepare(i))
           /\ i.verb = "reintegrate" => ReintegrationPrepared(i, Prepare(i))
           /\ i.verb = "review" => ReviewPrepared(Prepare(i))
<1> DEFINE c == i.contract
           q == Prepare(i)
<1>1. /\ c \in Contracts /\ i.verb \in {"bind", "deliver", "reintegrate", "review"}
      /\ i.verb = "bind" => i.target \in Targets \cup {None}
    BY OperationTyped DEF Prepared
<1>2. /\ L!WellFormed /\ worktree[c] \in Changes /\ Len(journal[c]) \in Nat
    BY <1>1, LedgerTyped DEF Inv
<1>3. CASE i.verb = "bind"
    <2> DEFINE start == ref[StartRef(i.target)]
    <2>1. StartRef(i.target) \in Targets
        BY <1>1, <1>3, ProtocolAssumption DEF StartRef, Targets
    <2>2. start \in Commits \cup {None}
        BY <1>2, <2>1, LedgerTyped
    <2>3. q = [kind |-> IF start = None THEN "refused" ELSE "prepared", start |-> start]
        BY <1>3, PrepareCases DEF PrepareBind
    <2> HIDE DEF start, q
    <2>4. q \in Preparations /\ BindPrepared(q)
        BY <2>2, <2>3 DEF Preparations, BindPrepared
    <2> QED
        BY <1>3, <2>4 DEF q
<1>4. CASE i.verb # "bind" /\ state[c] = None
    <2>1. q = [kind |-> "unavailable"]
        BY <1>4, PrepareCases
    <2> HIDE DEF q
    <2>2. q \in Preparations /\ q.kind = "unavailable"
        BY <2>1 DEF Preparations
    <2> QED
        BY <1>4, <2>2 DEF q, DeliveryPrepared, ReintegrationPrepared, ReviewPrepared
<1>5. CASE i.verb = "deliver" /\ state[c] # None
    <2> DEFINE change == worktree[c]
               plan == Plan(c, change)
    <2>1. q = [kind |-> CASE ReusesCandidate(i, c, change) -> "reuse"
                          [] OTHER -> IF plan = None THEN "refused" ELSE "prepared",
               head |-> Len(journal[c]), change |-> change, predecessor |-> plan]
        BY <1>5, PrepareCases DEF PrepareDeliver, JournalHead
    <2>2. plan \in Commits \cup {None} /\ (plan # None => plan \in L!Predecessors(c))
        BY <1>1, <1>2, <1>5, PlanIsPredecessor
    <2>3. /\ q.head = Len(journal[c]) /\ q.change = change /\ q.predecessor = plan
          /\ q.kind \in {"reuse", "refused", "prepared"}
          /\ q.kind = "prepared" => plan # None /\ ~ReusesCandidate(i, c, change)
        BY <2>1
    <2>4. q = [kind |-> q.kind, head |-> Len(journal[c]), change |-> change, predecessor |-> plan]
        BY <2>1
    <2> HIDE DEF q, plan
    <2>5. q \in Preparations
        <3> DEFINE k == q.kind
        <3>1. q = [kind |-> k, head |-> Len(journal[c]), change |-> change, predecessor |-> plan]
              /\ k \in {"reuse", "refused", "prepared"}
            BY <2>3, <2>4
        <3> HIDE DEF k
        <3> QED
            BY <1>2, <2>2, <3>1 DEF Preparations
    <2>6. DeliveryPrepared(i, q)
        BY <1>2, <1>5, <2>2, <2>3 DEF DeliveryPrepared
    <2> QED
        BY <1>5, <2>5, <2>6 DEF q
<1>6. CASE i.verb = "reintegrate" /\ state[c] # None
    <2>1. q = PrepareReintegrate(i)
        BY <1>6, PrepareCases
    <2>2. CASE state[c].delivery = None
        <3>1. q = [kind |-> "defer", head |-> Len(journal[c])]
            BY <2>1, <2>2 DEF PrepareReintegrate, JournalHead
        <3> HIDE DEF q
        <3>2. q \in Preparations
            BY <1>2, <3>1 DEF Preparations
        <3>3. ReintegrationPrepared(i, q)
            BY <1>2, <1>6, <2>2, <3>1 DEF ReintegrationPrepared
        <3> QED
            BY <1>6, <3>2, <3>3 DEF q
    <2>3. CASE state[c].delivery # None
        <3> DEFINE plan == Plan(c, state[c].integration.changeId)
        <3>1. q = [kind |-> IF plan = None THEN "refused" ELSE "prepared",
                   head |-> Len(journal[c]), predecessor |-> plan]
            BY <2>1, <2>3 DEF PrepareReintegrate, JournalHead
        <3>2. plan \in Commits \cup {None}
            BY <1>1, <1>2, <1>6, PlanIsPredecessor
        <3> HIDE DEF q, plan
        <3>3. q \in Preparations
            BY <1>2, <3>1, <3>2 DEF Preparations
        <3>4. ReintegrationPrepared(i, q)
            BY <1>2, <1>6, <3>1, <3>2 DEF ReintegrationPrepared
        <3> QED
            BY <1>6, <3>3, <3>4 DEF q
    <2> QED
        BY <2>2, <2>3
<1>7. CASE i.verb = "review" /\ state[c] # None
    <2>1. q = [kind |-> "prepared", head |-> Len(journal[c]), change |-> worktree[c]]
        BY <1>7, PrepareCases DEF PrepareReview, JournalHead
    <2> HIDE DEF q
    <2>2. q \in Preparations /\ ReviewPrepared(q)
        BY <1>2, <2>1 DEF Preparations, ReviewPrepared
    <2> QED
        BY <1>7, <2>2 DEF q
<1> QED
    BY <1>1, <1>3, <1>4, <1>5, <1>6, <1>7

LEMMA PrepareExternallyKeeps ==
    ASSUME Inv, NEW w \in Writers, PrepareExternally(w)
    PROVE  Inv'
<1> DEFINE p == proc[w]
           q == Waiting(p, p.source, Prepare(p.intent))
<1>1. /\ p.phase = "external"
      /\ proc' = [proc EXCEPT ![w].phase = "waiting", ![w].prep = Prepare(p.intent)]
      /\ UNCHANGED <<ledgerVars, root, worktree, seat, fence, orphans>>
    BY DEF PrepareExternally
<1>2. /\ p \in Processes /\ Prepared(p.intent.verb) /\ p.intent \in Operations
      /\ p.source \in Terms \cup Movements \cup Commits \cup {None}
    BY <1>1, Remembered DEF Steady, Working, Processes
<1>3. /\ Prepare(p.intent) \in Preparations
      /\ p.intent.verb = "bind" => BindPrepared(Prepare(p.intent))
      /\ p.intent.verb = "deliver" => DeliveryPrepared(p.intent, Prepare(p.intent))
      /\ p.intent.verb = "reintegrate" => ReintegrationPrepared(p.intent, Prepare(p.intent))
      /\ p.intent.verb = "review" => ReviewPrepared(Prepare(p.intent))
    BY <1>2, Preparing
<1>4. q.intent = p.intent /\ q.prep = Prepare(p.intent)
    <2> DEFINE r == Prepare(p.intent)
    <2>1. r \in Preparations \cup {None}
        BY <1>3
    <2> HIDE DEF r
    <2>2. Waiting(p, p.source, r).intent = p.intent /\ Waiting(p, p.source, r).prep = r
        BY <1>2, <2>1, WaitingShape
    <2> QED
        BY <2>2 DEF r
<1>5. proc' = [proc EXCEPT ![w] = q]
    <2> DEFINE r == Prepare(p.intent)
    <2> HIDE DEF r
    <2>1. proc' = [proc EXCEPT ![w] = [p EXCEPT !.phase = "waiting", !.prep = r]]
        BY <1>1 DEF Inv, Processed, r
    <2>2. [p EXCEPT !.phase = "waiting", !.prep = r] = [p EXCEPT !.phase = "waiting", !.source = p.source, !.prep = r]
        BY <1>2 DEF Processes
    <2> QED
        BY <2>1, <2>2 DEF r, Waiting
<1>6. PreparationFits(q)
    <2> HIDE DEF q
    <2> QED
        BY <1>3, <1>4 DEF PreparationFits
<1>7. SourceFits(q)
    <2> HIDE DEF q
    <2> QED
        BY <1>2, <1>4 DEF SourceFits, Prepared
<1> QED
    BY <1>1, <1>2, <1>3, <1>5, <1>6, <1>7, WaitingKeeps

----------------------------------------------------------------------------
(* Decisions under custody. *)

LEMMA SettledShape ==
    ASSUME NEW p \in Processes, NEW outcome
    PROVE  /\ Settled(p, outcome).phase \in {"seated", "closing"} /\ Settled(p, outcome).op = p.op
           /\ Settled(p, outcome).intent = p.intent
BY DEF Settled, Processes

LEMMA SettleKeeps ==
    ASSUME Inv, UNCHANGED <<ledgerVars, root, worktree, seat, fence, orphans>>,
           NEW w \in Writers, proc[w].phase \in Custody \ {"closing"},
           NEW outcome \in Outcomes, Truthful(w, proc[w].op, outcome), Settle(w, outcome)
    PROVE  Inv'
<1> DEFINE p == proc[w]
           q == Settled(p, outcome)
<1>1. p \in Processes /\ Steady(p) /\ p.result = None /\ p.phase \in Custody
    BY Remembered, Sayable DEF Custody
<1>2. q \in Processes /\ Local(w, q)
    BY <1>1, SettledLocal
<1>3. q.phase \in {"seated", "closing"} /\ q.op = p.op /\ q.intent = p.intent
    BY <1>1, SettledShape
<1>4. proc' = [proc EXCEPT ![w] = q]
    BY DEF Settle
<1> HIDE DEF q
<1>5. Moves(w, q)
    BY <1>1, <1>3, <1>4 DEF Moves, Custody
<1>6. q.phase \in Custody <=> proc[w].phase \in Custody
    BY <1>1, <1>3 DEF Custody
<1> QED
    BY <1>2, <1>3, <1>5, <1>6, MovedInPlace

OfferOf(w, entry, movement, asserts) ==
    [contract |-> Subject(w), entry |-> entry, movement |-> movement, asserts |-> asserts, seen |-> root]

LEMMA OfferKeeps ==
    ASSUME Inv, Untouched, NEW w \in Writers, proc[w].phase = "seated",
           NEW entry \in Facts(Ulids), NEW movement \in Movements \cup {None},
           NEW asserts \in SUBSET [ref: Targets, oid: Commits],
           entry.entry = Ulid(w), Offer(w, entry, movement, asserts),
           Decided(OfferOf(w, entry, movement, asserts)),
           Novel(proc[w].intent, OfferOf(w, entry, movement, asserts))
    PROVE  Inv'
<1> DEFINE p == proc[w]
           o == OfferOf(w, entry, movement, asserts)
           q == [p EXCEPT !.phase = "publishing", !.offer = o]
<1>1. p \in Processes /\ Local(w, p) /\ p.intent.contract \in Contracts /\ root \in Nat
    BY Remembered DEF Inv
<1>2. o.contract = p.intent.contract /\ o.entry = entry /\ o.seen = root
    BY DEF OfferOf, Subject
<1>3. o \in Offers
    BY <1>1 DEF OfferOf, Offers, Subject
<1>4. proc' = [proc EXCEPT ![w] = q]
    BY DEF Offer, OfferOf, Inv, Processed
<1>5. o.entry.entry = <<w, p.op, p.attempt>>
    BY <1>2 DEF Ulid
<1>6. Decided(o) /\ Novel(p.intent, o)
    OBVIOUS
<1> HIDE DEF o
<1>7. q \in Processes /\ Local(w, q)
    BY <1>1, <1>2, <1>3, <1>5, <1>6, OfferedLocal
<1>8. q.phase = "publishing" /\ q.op = p.op /\ q.intent = p.intent
    BY <1>1 DEF Processes
<1> HIDE DEF q
<1>9. Moves(w, q)
    BY <1>4, <1>8 DEF Moves
<1>10. q.phase \in Custody <=> proc[w].phase \in Custody
    BY <1>8 DEF Custody
<1> QED
    BY <1>7, <1>8, <1>9, <1>10, MovedInPlace DEF Untouched

(* What the decisions rely on. *)
LEMMA Deciding ==
    ASSUME Inv, NEW w \in Writers, NEW verb, Seated(w, verb)
    PROVE  /\ proc[w] \in Processes /\ proc[w].phase = "seated" /\ proc[w].intent.verb = verb
           /\ proc[w].intent \in Operations /\ Subject(w) = proc[w].intent.contract /\ Subject(w) \in Contracts
           /\ Ulid(w) \in Ulids
           /\ PreparationFits(proc[w]) /\ SourceFits(proc[w]) /\ Checkpointed(proc[w])
           /\ L!WellFormed
<1>1. proc[w].phase = "seated" /\ proc[w].intent.verb = verb
    BY DEF Seated, Verb
<1>2. /\ proc[w] \in Processes /\ Local(w, proc[w]) /\ proc[w].intent \in Operations
      /\ proc[w].intent.contract \in Contracts
    BY <1>1, Remembered
<1>3. proc[w].op >= 1 /\ proc[w].attempt >= 1 /\ Working(proc[w])
    BY <1>1, <1>2 DEF Local, Working
<1> QED
    BY <1>1, <1>2, <1>3, UlidTyped DEF Local, Subject, Ulid, Inv

LEMMA Declined ==
    ASSUME Inv, Untouched, NEW w \in Writers, proc[w].phase = "seated",
           NEW outcome \in {"retry", "refused", "reused", "target-moved"}, Settle(w, outcome)
    PROVE  Inv'
<1>1. outcome \in Outcomes /\ outcome \in Fruitless /\ proc[w].phase \in Custody \ {"closing"}
    BY DEF Outcomes, Fruitless, Custody
<1>2. Truthful(w, proc[w].op, outcome)
    BY <1>1, Sayable
<1> QED
    BY <1>1, <1>2, SettleKeeps DEF Untouched

LEMMA DecideBindKeeps ==
    ASSUME Inv, NEW w \in Writers, DecideBind(w)
    PROVE  Inv'
<1> DEFINE i == proc[w].intent
           p == proc[w].prep
           from == StartRef(i.target)
           asserts == {[ref |-> from, oid |-> p.start]}
           entry == BindFact(Ulid(w), p.start, i.target, i.terms)
<1>1. Untouched /\ Seated(w, "bind")
    BY DEF DecideBind
<1>2. /\ proc[w].phase = "seated" /\ i \in Operations /\ i.verb = "bind" /\ Ulid(w) \in Ulids
      /\ BindPrepared(p) /\ Subject(w) = i.contract
    BY <1>1, Deciding DEF PreparationFits
<1>3. i.target \in Targets \cup {None} /\ i.terms \in Terms
    BY <1>2, OperationTyped
<1>4. CASE \E outcome \in {"refused", "retry"} : Settle(w, outcome)
    BY <1>1, <1>2, <1>4, Declined
<1>5. CASE /\ p.kind # "refused"
           /\ MayBind(state, i.contract, i.target, i.terms)
           /\ Offer(w, entry, None, asserts)
    <2>1. p.start \in Commits /\ from \in Targets
        BY <1>2, <1>3, <1>5, ProtocolAssumption DEF BindPrepared, StartRef, Targets
    <2>2. entry \in Facts(Ulids) /\ asserts \in SUBSET [ref: Targets, oid: Commits]
        BY <1>2, <1>3, <2>1, FactsTyped
    <2>3. entry.kind = "bind" /\ entry.entry = Ulid(w)
        BY DEF BindFact
    <2> DEFINE o == OfferOf(w, entry, None, asserts)
    <2>4. o.contract = i.contract /\ o.entry = entry /\ o.movement = None /\ o.asserts = asserts
        BY <1>2 DEF OfferOf
    <2>5. [ref |-> from, oid |-> p.start] \in o.asserts
        BY <2>4
    <2> HIDE DEF o
    <2>6. Decided(o)
        <3>1. /\ MayBind(state, o.contract, i.target, i.terms)
              /\ Plain(o, BindFact(o.entry.entry, p.start, i.target, i.terms))
            BY <1>5, <2>3, <2>4 DEF Plain
        <3> QED
            BY <1>3, <2>1, <2>5, <3>1 DEF Decided, DecidedOn
    <2>7. Novel(i, o)
        BY <2>3, <2>4 DEF Novel
    <2> HIDE DEF entry, asserts
    <2> QED
        BY <1>1, <1>2, <1>5, <2>2, <2>3, <2>6, <2>7, OfferKeeps DEF o
<1> QED
    BY <1>4, <1>5 DEF DecideBind

LEMMA OfferShape ==
    ASSUME NEW w, NEW entry, NEW movement, NEW asserts
    PROVE  LET o == OfferOf(w, entry, movement, asserts) IN
           /\ o.contract = Subject(w) /\ o.entry = entry /\ o.movement = movement /\ o.asserts = asserts
           /\ o.seen = root
BY DEF OfferOf

LEMMA OfferedKeeps ==
    ASSUME Inv, Untouched, NEW w \in Writers, proc[w].phase = "seated",
           NEW entry \in Facts(Ulids), NEW movement \in Movements \cup {None},
           NEW asserts \in SUBSET [ref: Targets, oid: Commits],
           entry.entry = Ulid(w), entry.kind # "deliver", Offer(w, entry, movement, asserts),
           DecidedOn(OfferOf(w, entry, movement, asserts), Subject(w), Ulid(w))
    PROVE  Inv'
<1> DEFINE o == OfferOf(w, entry, movement, asserts)
<1>1. o.contract = Subject(w) /\ o.entry = entry
    BY OfferShape
<1>2. DecidedOn(o, Subject(w), Ulid(w))
    OBVIOUS
<1> HIDE DEF o
<1>3. Decided(o)
    BY <1>1, <1>2 DEF Decided
<1>4. Novel(proc[w].intent, o)
    BY <1>1 DEF Novel
<1> QED
    BY <1>3, <1>4, OfferKeeps DEF o

LEMMA DecideAmendKeeps ==
    ASSUME Inv, NEW w \in Writers, DecideAmend(w)
    PROVE  Inv'
<1> DEFINE i == proc[w].intent
           c == Subject(w)
           source == proc[w].source
           entry == AmendFact(Ulid(w), i.terms)
           o == OfferOf(w, entry, None, {})
<1>1. Untouched /\ Seated(w, "amend")
    BY DEF DecideAmend
<1>2. /\ proc[w].phase = "seated" /\ i \in Operations /\ i.verb = "amend" /\ Ulid(w) \in Ulids
      /\ c = i.contract
    BY <1>1, Deciding
<1>3. i.terms \in Terms
    BY <1>2, OperationTyped
<1>4. CASE Settle(w, "refused")
    BY <1>1, <1>2, <1>4, Declined
<1>5. CASE MayAmend(state, c, source, i.terms) /\ Offer(w, entry, None, {})
    <2>1. state[c].terms = source
        BY <1>5 DEF MayAmend
    <2>2. entry \in Facts(Ulids) /\ entry.entry = Ulid(w) /\ entry.kind = "amend"
        BY <1>2, <1>3, FactsTyped DEF AmendFact
    <2>3. o.entry = entry /\ o.movement = None
        BY OfferShape
    <2> HIDE DEF o
    <2>4. Plain(o, AmendFact(Ulid(w), i.terms))
        BY <2>3 DEF Plain
    <2>5. DecidedOn(o, c, Ulid(w))
        BY <1>3, <1>5, <2>1, <2>4 DEF DecidedOn
    <2> QED
        BY <1>1, <1>2, <1>5, <2>2, <2>5, OfferedKeeps DEF o
<1> QED
    BY <1>2, <1>4, <1>5 DEF DecideAmend

LEMMA DecideDeliverKeeps ==
    ASSUME Inv, NEW w \in Writers, DecideDeliver(w)
    PROVE  Inv'
<1> DEFINE i == proc[w].intent
           c == Subject(w)
           p == proc[w].prep
           entry == DeliverFact(Ulid(w), Integration(p.predecessor, p.change))
           o == OfferOf(w, entry, None, {})
<1>1. Untouched /\ Seated(w, "deliver")
    BY DEF DecideDeliver
<1>2. /\ proc[w].phase = "seated" /\ i \in Operations /\ i.verb = "deliver" /\ Ulid(w) \in Ulids
      /\ c = i.contract /\ c \in Contracts /\ DeliveryPrepared(i, p) /\ L!WellFormed
    BY <1>1, Deciding DEF PreparationFits
<1>3. CASE \E outcome \in {"retry", "refused", "reused"} : Settle(w, outcome)
    BY <1>1, <1>2, <1>3, Declined
<1>4. CASE /\ ~Spent(w) /\ p.kind \notin {"unavailable", "refused", "reuse"}
           /\ MayDeliver(state, c, state[c].terms.document)
           /\ Offer(w, entry, None, {})
    <2>1. /\ p.kind = "prepared" /\ p.change \in Changes /\ p.predecessor \in L!Predecessors(c)
          /\ p.head = Len(journal[c]) /\ state[c] # None
        BY <1>2, <1>4 DEF DeliveryPrepared, Spent, JournalHead
    <2>2. ~ReusesCandidate(i, c, p.change)
        BY <1>2, <2>1 DEF DeliveryPrepared
    <2>3. p.predecessor \in Commits
        BY <1>2, <2>1, PredecessorsTyped
    <2>4. Integration(p.predecessor, p.change) \in Integrations
        BY <2>1, <2>3 DEF Integration, Integrations, Commits
    <2>5. entry \in Facts(Ulids)
        BY <1>2, <2>4, FactsTyped
    <2>6. entry.entry = Ulid(w) /\ entry.kind = "deliver" /\ entry.integration.changeId = p.change
        BY DEF DeliverFact, Integration
    <2>7. o.contract = c /\ o.entry = entry /\ o.movement = None /\ o.seen = root
        BY OfferShape
    <2> HIDE DEF o
    <2>8. Plain(o, DeliverFact(Ulid(w), Integration(p.predecessor, p.change)))
        BY <2>7 DEF Plain
    <2>9. DecidedOn(o, c, Ulid(w))
        BY <1>4, <2>1, <2>8 DEF DecidedOn
    <2>10. Decided(o)
        BY <2>6, <2>7, <2>9 DEF Decided
    <2>11. Novel(i, o)
        <3>1. Active(state, c)
            BY <1>4 DEF MayDeliver
        <3>2. ~i.overwrite /\ state[c].delivery # None => p.change # state[c].integration.changeId
            BY <2>2, <3>1 DEF ReusesCandidate
        <3> QED
            BY <1>2, <2>6, <2>7, <3>2 DEF Novel
    <2> HIDE DEF entry
    <2> QED
        BY <1>1, <1>2, <1>4, <2>5, <2>6, <2>10, <2>11, OfferKeeps DEF o
<1> QED
    BY <1>2, <1>3, <1>4 DEF DecideDeliver

LEMMA DecideReintegrateKeeps ==
    ASSUME Inv, NEW w \in Writers, DecideReintegrate(w)
    PROVE  Inv'
<1> DEFINE i == proc[w].intent
           c == Subject(w)
           p == proc[w].prep
           asserts == {[ref |-> state[c].target, oid |-> p.predecessor]}
           entry == ReintegratedFact(Ulid(w), p.predecessor, Append(p.predecessor, state[c].integration.changeId))
           o == OfferOf(w, entry, None, asserts)
<1>1. Untouched /\ Seated(w, "reintegrate")
    BY DEF DecideReintegrate
<1>2. /\ proc[w].phase = "seated" /\ i \in Operations /\ i.verb = "reintegrate" /\ Ulid(w) \in Ulids
      /\ c = i.contract /\ c \in Contracts /\ ReintegrationPrepared(i, p) /\ L!WellFormed
      /\ state[c] # None /\ state[c].target # None
    BY <1>1, Deciding DEF PreparationFits, Checkpointed
<1>3. CASE \E outcome \in {"retry", "refused"} : Settle(w, outcome)
    BY <1>1, <1>2, <1>3, Declined
<1>4. CASE /\ ~Spent(w) /\ MayReintegrate(state, c) /\ p.kind # "refused"
           /\ Offer(w, entry, None, asserts)
    <2>1. state[c].delivery # None
        BY <1>4 DEF MayReintegrate
    <2>2. p.kind = "prepared" /\ p.predecessor \in Commits
        BY <1>2, <1>4, <2>1 DEF ReintegrationPrepared, Spent, JournalHead
    <2>3. state[c].target \in Targets /\ state[c].integration.changeId \in Changes
        BY <1>2, <2>1, LedgerTyped DEF States, Integrations
    <2>4. Append(p.predecessor, state[c].integration.changeId) \in Commits
        BY <2>2, <2>3 DEF Commits
    <2>5. entry \in Facts(Ulids) /\ asserts \in SUBSET [ref: Targets, oid: Commits]
        BY <1>2, <2>2, <2>3, <2>4, FactsTyped
    <2>6. entry.entry = Ulid(w) /\ entry.kind = "reintegrated"
        BY DEF ReintegratedFact
    <2>7. o.entry = entry /\ o.movement = None /\ o.asserts = asserts
        BY OfferShape
    <2>8. [ref |-> state[c].target, oid |-> p.predecessor] \in asserts
        OBVIOUS
    <2> HIDE DEF o, asserts
    <2>9. Plain(o, ReintegratedFact(Ulid(w), p.predecessor, Append(p.predecessor, state[c].integration.changeId)))
        BY <2>7 DEF Plain
    <2>10. DecidedOn(o, c, Ulid(w))
        BY <1>2, <1>4, <2>2, <2>7, <2>8, <2>9 DEF DecidedOn
    <2> HIDE DEF entry
    <2> QED
        BY <1>1, <1>2, <1>4, <2>5, <2>6, <2>10, OfferedKeeps DEF o
<1> QED
    BY <1>2, <1>3, <1>4 DEF DecideReintegrate

LEMMA DecideReviewKeeps ==
    ASSUME Inv, NEW w \in Writers, DecideReview(w)
    PROVE  Inv'
<1> DEFINE i == proc[w].intent
           c == Subject(w)
           p == proc[w].prep
           subject == ReviewSubject(state[c].terms.document, p.change)
           entry == AttestationFact(Ulid(w), Reviewed, subject, i.verdict)
           o == OfferOf(w, entry, None, {})
<1>1. Untouched /\ Seated(w, "review")
    BY DEF DecideReview
<1>2. /\ proc[w].phase = "seated" /\ i \in Operations /\ i.verb = "review" /\ Ulid(w) \in Ulids
      /\ c = i.contract /\ c \in Contracts /\ ReviewPrepared(p) /\ L!WellFormed
    BY <1>1, Deciding DEF PreparationFits
<1>3. CASE \E outcome \in {"retry", "refused"} : Settle(w, outcome)
    BY <1>1, <1>2, <1>3, Declined
<1>4. CASE /\ p.kind # "unavailable" /\ Active(state, c)
           /\ Offer(w, entry, None, {})
    <2>1. p.change \in Changes /\ i.verdict \in Verdicts
        BY <1>2, <1>4, OperationTyped DEF ReviewPrepared
    <2>2. state[c].terms.document \in Documents
        BY <1>2, <1>4, LedgerTyped, TermsAssumption DEF Active, States
    <2>3. subject \in SUBSET Keys
        BY <2>1, <2>2 DEF ReviewSubject, Keys
    <2>4. entry \in Facts(Ulids)
        BY <1>2, <2>1, <2>3, FactsTyped DEF Obligations
    <2>5. entry.entry = Ulid(w) /\ entry.kind = "attestation"
        BY DEF AttestationFact
    <2>6. o.entry = entry /\ o.movement = None
        BY OfferShape
    <2> HIDE DEF o
    <2>7. Plain(o, AttestationFact(Ulid(w), Reviewed, ReviewSubject(state[c].terms.document, p.change), i.verdict))
        BY <2>6 DEF Plain
    <2>8. DecidedOn(o, c, Ulid(w))
        BY <1>4, <2>1, <2>7 DEF DecidedOn
    <2> HIDE DEF entry
    <2> QED
        BY <1>1, <1>2, <1>4, <2>4, <2>5, <2>8, OfferedKeeps DEF o
<1> QED
    BY <1>2, <1>3, <1>4 DEF DecideReview

LEMMA DecideVerifyKeeps ==
    ASSUME Inv, NEW w \in Writers, DecideVerify(w)
    PROVE  Inv'
<1> DEFINE i == proc[w].intent
           c == Subject(w)
           subject == VerificationSubject(proc[w].source)
           entry == AttestationFact(Ulid(w), i.check, subject, i.verdict)
           o == OfferOf(w, entry, None, {})
<1>1. Untouched /\ Seated(w, "verify")
    BY DEF DecideVerify
<1>2. /\ proc[w].phase = "seated" /\ i \in Operations /\ i.verb = "verify" /\ Ulid(w) \in Ulids
      /\ c = i.contract /\ c \in Contracts /\ SourceFits(proc[w]) /\ L!WellFormed
    BY <1>1, Deciding
<1>3. CASE \E outcome \in {"refused", "reused"} : Settle(w, outcome)
    BY <1>1, <1>2, <1>3, Declined
<1>4. CASE /\ Active(state, c) /\ ~ReusesTestimony(c, i.check, subject, i.verdict)
           /\ Offer(w, entry, None, {})
    <2>1. i.check \in Checks /\ i.verdict \in Verdicts
        BY <1>2, OperationTyped
    <2>2. PICK predecessor \in L!Predecessors(c), change \in Changes :
              proc[w].source = Append(predecessor, change)
        BY <1>2 DEF SourceFits, Custody
    <2>3. proc[w].source \in Commits
        <3>1. predecessor \in Commits
            BY <1>2, <1>4, PredecessorsTyped DEF Active
        <3> QED
            BY <2>2, <3>1 DEF Commits
    <2>4. subject \in SUBSET Keys
        BY <2>3 DEF VerificationSubject, Keys
    <2>5. entry \in Facts(Ulids)
        BY <1>2, <2>1, <2>4, FactsTyped DEF Obligations
    <2>6. entry.entry = Ulid(w) /\ entry.kind = "attestation"
        BY DEF AttestationFact
    <2>7. o.entry = entry /\ o.movement = None
        BY OfferShape
    <2> HIDE DEF o
    <2>8. Plain(o, AttestationFact(Ulid(w), i.check, VerificationSubject(Append(predecessor, change)), i.verdict))
        BY <2>2, <2>7 DEF Plain
    <2>9. ~ReusesTestimony(c, i.check, VerificationSubject(Append(predecessor, change)), i.verdict)
        BY <1>4, <2>2
    <2>10. DecidedOn(o, c, Ulid(w))
        BY <1>4, <2>1, <2>8, <2>9 DEF DecidedOn
    <2> HIDE DEF entry
    <2> QED
        BY <1>1, <1>2, <1>4, <2>5, <2>6, <2>10, OfferedKeeps DEF o
<1> QED
    BY <1>2, <1>3, <1>4 DEF DecideVerify

LEMMA DecideArcKeeps ==
    ASSUME Inv, NEW w \in Writers, DecideArc(w) \/ DecideAbandon(w)
    PROVE  Inv'
<1> DEFINE c == Subject(w)
<1>1. /\ Untouched
      /\ DecideArc(w) => Seated(w, "arc")
      /\ DecideAbandon(w) => Seated(w, "abandon")
    BY DEF DecideArc, DecideAbandon
<1>2. proc[w].phase = "seated" /\ Ulid(w) \in Ulids /\ c \in Contracts /\ L!WellFormed
    BY <1>1, Deciding
<1>3. CASE Settle(w, "refused")
    BY <1>1, <1>2, <1>3, Declined
<1>4. CASE Active(state, c) /\ Offer(w, ArcFact(Ulid(w), state[c]), None, {})
    <2> DEFINE entry == ArcFact(Ulid(w), state[c])
               o == OfferOf(w, entry, None, {})
    <2>1. entry \in Facts(Ulids) /\ entry.entry = Ulid(w) /\ entry.kind = "arc"
        BY <1>2, <1>4, LedgerTyped, FactsTyped DEF Active, ArcFact
    <2>2. o.entry = entry /\ o.movement = None
        BY OfferShape
    <2> HIDE DEF o
    <2>3. DecidedOn(o, c, Ulid(w))
        BY <1>4, <2>2 DEF DecidedOn, Plain
    <2> HIDE DEF entry
    <2> QED
        BY <1>1, <1>2, <1>4, <2>1, <2>3, OfferedKeeps DEF o, entry
<1>5. CASE Active(state, c) /\ Offer(w, AbandonedFact(Ulid(w)), None, {})
    <2> DEFINE entry == AbandonedFact(Ulid(w))
               o == OfferOf(w, entry, None, {})
    <2>1. entry \in Facts(Ulids) /\ entry.entry = Ulid(w) /\ entry.kind = "abandoned"
        BY <1>2, FactsTyped DEF AbandonedFact
    <2>2. o.entry = entry /\ o.movement = None
        BY OfferShape
    <2> HIDE DEF o
    <2>3. DecidedOn(o, c, Ulid(w))
        BY <1>5, <2>2 DEF DecidedOn, Plain
    <2> HIDE DEF entry
    <2> QED
        BY <1>1, <1>2, <1>5, <2>1, <2>3, OfferedKeeps DEF o, entry
<1> QED
    BY <1>3, <1>4, <1>5 DEF DecideArc, DecideAbandon

(* A placement that starts over remembers the movement it is now for. *)
LEMMA RemeasuredKeeps ==
    ASSUME Inv, Untouched, NEW w \in Writers, Seated(w, "place"), NEW movement \in Movements,
           proc' = [proc EXCEPT ![w] = [Settled(@, "retry") EXCEPT !.source = movement]]
    PROVE  Inv'
<1> DEFINE p == proc[w]
           r == Settled(p, "retry")
           q == [r EXCEPT !.source = movement]
<1>1. p \in Processes /\ p.phase = "seated" /\ p.intent.verb = "place" /\ Steady(p) /\ p.result = None
    BY Deciding, Remembered, Sayable
<1>2. "retry" \in Outcomes /\ Truthful(w, p.op, "retry") /\ p.phase \in Custody
    BY <1>1, Sayable DEF Outcomes, Fruitless, Custody
<1>3. r \in Processes /\ Local(w, r)
    BY <1>1, <1>2, SettledLocal
<1>4. r.phase = "closing" /\ r.op = p.op /\ r.intent = p.intent
    BY <1>1 DEF Settled, HoldsSeat, Processes
<1>5. proc' = [proc EXCEPT ![w] = q]
    OBVIOUS
<1> HIDE DEF r
<1>6. q \in Processes
    BY <1>3 DEF Processes
<1>7. /\ q.phase = r.phase /\ q.agenda = r.agenda /\ q.op = r.op /\ q.attempt = r.attempt /\ q.intent = r.intent
      /\ q.prep = r.prep /\ q.offer = r.offer /\ q.outcome = r.outcome /\ q.result = r.result
    BY <1>3 DEF Processes
<1> HIDE DEF q
<1>8. Local(w, q)
    <2>1. Working(q) /\ Checkpointed(q)
        BY <1>3, <1>7 DEF Local, Working, Checkpointed
    <2>2. PreparationFits(q) /\ SourceFits(q)
        BY <1>1, <1>4, <1>7 DEF PreparationFits, SourceFits
    <2>3. OfferFits(w, q) /\ Once(w, q)
        BY <1>3, <1>4, <1>7 DEF Local, OfferFits, Offering, Once
    <2> QED
        BY <2>1, <2>2, <2>3 DEF Local
<1>9. Moves(w, q)
    BY <1>1, <1>4, <1>5, <1>7 DEF Moves
<1>10. q.phase \in Custody <=> proc[w].phase \in Custody
    BY <1>1, <1>4, <1>7 DEF Custody
<1> QED
    BY <1>4, <1>6, <1>7, <1>8, <1>9, <1>10, MovedInPlace DEF Untouched

LEMMA DecidePlaceKeeps ==
    ASSUME Inv, NEW w \in Writers, DecidePlace(w)
    PROVE  Inv'
<1> DEFINE c == Subject(w)
           movement == Movement(state[c])
           claim == ClaimedFact(Ulid(w), state[c])
           o == OfferOf(w, claim, movement, {})
<1>1. Untouched /\ Seated(w, "place")
    BY DEF DecidePlace
<1>2. proc[w].phase = "seated" /\ Ulid(w) \in Ulids /\ c \in Contracts /\ L!WellFormed
    BY <1>1, Deciding
<1>3. CASE \E outcome \in {"refused", "target-moved"} : Settle(w, outcome)
    BY <1>1, <1>2, <1>3, Declined
<1>4. ASSUME MayPlace(state, c)
      PROVE  /\ movement \in Movements \cup {None} /\ claim \in Facts(Ulids)
             /\ claim.entry = Ulid(w) /\ claim.kind = "claimed"
    <2>1. state[c] \in States(Ulids) /\ state[c].delivery # None /\ state[c].integration \in Integrations
        BY <1>2, <1>4, LedgerTyped DEF MayPlace, Active
    <2> QED
        BY <1>2, <2>1, LedgerAssumed, L!MovementTyped, SameSets, SameFacts, FactsTyped DEF ClaimedFact
<1>5. CASE MayPlace(state, c) /\ Offer(w, claim, movement, {})
    <2>1. o.entry = claim /\ o.movement = movement
        BY OfferShape
    <2> HIDE DEF o
    <2>2. DecidedOn(o, c, Ulid(w))
        BY <1>5, <2>1 DEF DecidedOn
    <2> HIDE DEF claim, movement
    <2> QED
        BY <1>1, <1>2, <1>4, <1>5, <2>2, OfferedKeeps DEF o
<1>6. CASE /\ MayPlace(state, c) /\ movement # None
           /\ proc' = [proc EXCEPT ![w] = [Settled(@, "retry") EXCEPT !.source = movement]]
    <2>1. movement \in Movements
        BY <1>4, <1>6
    <2> HIDE DEF movement
    <2> QED
        BY <1>1, <1>6, <2>1, RemeasuredKeeps
<1> QED
    BY <1>3, <1>5, <1>6 DEF DecidePlace

LEMMA DecideKeeps ==
    ASSUME Inv, NEW w \in Writers, Decide(w)
    PROVE  Inv'
BY DecideBindKeeps, DecideAmendKeeps, DecideDeliverKeeps, DecideReintegrateKeeps, DecideReviewKeeps,
   DecideVerifyKeeps, DecideArcKeeps, DecidePlaceKeeps DEF Decide

----------------------------------------------------------------------------
(* What Git's answer, or its silence, comes to. *)

LEMMA RejectedKeeps ==
    ASSUME Inv, UNCHANGED <<ledgerVars, root, worktree, seat, fence, orphans>>,
           NEW w \in Writers, proc[w].phase = "publishing",
           NEW phase \in {"rejected", "unknown"}, Goto(w, phase)
    PROVE  Inv'
<1> DEFINE p == proc[w]
           q == [p EXCEPT !.phase = phase]
<1>1. p \in Processes /\ Local(w, p) /\ p.phase = "publishing"
    BY Remembered
<1>2. proc' = [proc EXCEPT ![w] = q]
    BY DEF Goto
<1>3. q \in Processes
    BY <1>1 DEF Processes, Phases
<1>4. /\ q.phase = phase /\ q.agenda = p.agenda /\ q.op = p.op /\ q.attempt = p.attempt /\ q.intent = p.intent
      /\ q.source = p.source /\ q.prep = p.prep /\ q.offer = p.offer /\ q.result = p.result
    BY <1>1 DEF Processes
<1> HIDE DEF q, p
<1>5. Working(q) /\ Checkpointed(q)
    BY <1>1, <1>4 DEF Local, Working, Checkpointed
<1>6. PreparationFits(q) /\ SourceFits(q)
    BY <1>1, <1>4 DEF Local, PreparationFits, SourceFits, Custody
<1>7. OfferFits(w, q) /\ Once(w, q)
    BY <1>1, <1>4 DEF Local, OfferFits, Offering, Once
<1>8. Local(w, q)
    BY <1>5, <1>6, <1>7 DEF Local
<1>9. Moves(w, q)
    BY <1>1, <1>2, <1>4 DEF Moves, p
<1>10. q.phase \in Custody <=> proc[w].phase \in Custody
    BY <1>1, <1>4 DEF Custody, p
<1> QED
    BY <1>3, <1>4, <1>8, <1>9, <1>10, MovedInPlace DEF p

LEMMA JudgeKeeps ==
    ASSUME Inv, NEW w \in Writers, Judge(w)
    PROVE  Inv'
<1> DEFINE outcome == IF Premise(proc[w].offer) THEN "publication-failed" ELSE "retry"
<1>1. /\ proc[w].phase = "rejected" /\ Settle(w, outcome)
      /\ UNCHANGED <<ledgerVars, root, worktree, seat, fence, orphans>>
    BY DEF Judge
<1>2. outcome \in Outcomes /\ outcome \in Fruitless
    BY DEF Outcomes, Fruitless
<1> HIDE DEF outcome
<1>3. Truthful(w, proc[w].op, outcome) /\ proc[w].phase \in Custody \ {"closing"}
    BY <1>1, <1>2, Sayable DEF Custody
<1> QED
    BY <1>1, <1>2, <1>3, SettleKeeps

(* The journal tells whether a transaction with an unknown outcome was committed. *)
LEMMA RecordedTells ==
    ASSUME Inv, NEW w \in Writers, proc[w].phase = "unknown"
    PROVE  Told(w, proc[w].op) <=> Recorded(proc[w].offer)
<1> DEFINE p == proc[w]
           c == p.offer.contract
<1>1. p \in Processes /\ OfferFits(w, p) /\ Once(w, p)
    BY Remembered DEF Local
<1>2. c \in Contracts /\ p.offer.entry.entry = <<w, p.op, p.attempt>>
    BY <1>1 DEF OfferFits, Offering, Offers
<1>3. Recorded(p.offer) => Told(w, p.op)
    <2> HAVE Recorded(p.offer)
    <2>1. PICK k \in DOMAIN journal[c] : journal[c][k] = p.offer.entry
        BY DEF Recorded
    <2>2. journal[c][k].entry[1] = w /\ journal[c][k].entry[2] = p.op
        BY <1>2, <2>1
    <2> QED
        BY <1>2, <2>2 DEF Told
<1> QED
    BY <1>1, <1>3 DEF Once

LEMMA RecoverKeeps ==
    ASSUME Inv, NEW w \in Writers, Recover(w)
    PROVE  Inv'
<1> DEFINE outcome == IF Recorded(proc[w].offer) THEN "accepted" ELSE "retry"
<1>1. /\ proc[w].phase = "unknown" /\ Settle(w, outcome)
      /\ UNCHANGED <<ledgerVars, root, worktree, seat, fence, orphans>>
    BY DEF Recover
<1>2. outcome \in Outcomes /\ Truthful(w, proc[w].op, outcome)
    BY <1>1, RecordedTells, Sayable DEF Outcomes, Fruitless
<1> HIDE DEF outcome
<1>3. proc[w].phase \in Custody \ {"closing"}
    BY <1>1 DEF Custody
<1> QED
    BY <1>1, <1>2, <1>3, SettleKeeps

LEMMA RecoverFailsKeeps ==
    ASSUME Inv, NEW w \in Writers, RecoverFails(w)
    PROVE  Inv'
<1> DEFINE outcome == IF FenceTarget(proc[w].intent) # None /\ Verb(w) # "bind"
                      THEN "placement-failed" ELSE "thrown"
<1>1. /\ proc[w].phase = "unknown" /\ Settle(w, outcome)
      /\ UNCHANGED <<ledgerVars, root, worktree, seat, fence, orphans>>
    BY DEF RecoverFails
<1>2. outcome \in {"placement-failed", "thrown"}
    OBVIOUS
<1> HIDE DEF outcome
<1>3. outcome \in Outcomes /\ Truthful(w, proc[w].op, outcome) /\ proc[w].phase \in Custody \ {"closing"}
    BY <1>1, <1>2, Sayable DEF Outcomes, Custody
<1> QED
    BY <1>1, <1>3, SettleKeeps

----------------------------------------------------------------------------
(* A transaction commits. *)

LEMMA Appended ==
    ASSUME L!WellFormed, NEW c \in Contracts, NEW e,
           journal' = [journal EXCEPT ![c] = Append(@, e)]
    PROVE  /\ \A d \in Contracts \ {c} : journal'[d] = journal[d]
           /\ DOMAIN journal'[c] = 1..Len(journal[c]) + 1
           /\ Len(journal[c]) \in Nat /\ DOMAIN journal[c] = 1..Len(journal[c])
           /\ Len(journal'[c]) = Len(journal[c]) + 1
           /\ \A i \in DOMAIN journal[c] : journal'[c][i] = journal[c][i]
           /\ journal'[c][Len(journal[c]) + 1] = e
<1>1. journal \in [Contracts -> Seq(Facts(Ulids))]
    BY LedgerTyped
<1>2. journal'[c] = Append(journal[c], e) /\ journal[c] \in Seq(Facts(Ulids))
    BY <1>1
<1>3. \A d \in Contracts \ {c} : journal'[d] = journal[d]
    BY <1>1
<1> DEFINE s == journal[c]
<1>4. /\ Len(s) \in Nat /\ DOMAIN s = 1..Len(s) /\ Len(Append(s, e)) = Len(s) + 1
      /\ DOMAIN Append(s, e) = 1..Len(s) + 1
      /\ \A i \in 1..Len(s) : Append(s, e)[i] = s[i]
      /\ Append(s, e)[Len(s) + 1] = e
    BY <1>2
<1> QED
    BY <1>2, <1>3, <1>4

(* Some journal holds exactly the facts told so far, and this one. *)
LEMMA ToldAppended ==
    ASSUME L!WellFormed, NEW c \in Contracts, NEW e,
           journal' = [journal EXCEPT ![c] = Append(@, e)]
    PROVE  /\ Told(e.entry[1], e.entry[2])'
           /\ \A x, n : ~(x = e.entry[1] /\ n = e.entry[2]) => Told(x, n)' = Told(x, n)
<1> DEFINE last == Len(journal[c]) + 1
<1>1. /\ \A d \in Contracts \ {c} : journal'[d] = journal[d]
      /\ DOMAIN journal'[c] = 1..last
      /\ DOMAIN journal[c] = 1..Len(journal[c]) /\ Len(journal[c]) \in Nat
      /\ \A i \in DOMAIN journal[c] : journal'[c][i] = journal[c][i]
      /\ journal'[c][last] = e
    BY Appended
<1>2. Told(e.entry[1], e.entry[2])'
    <2>1. last \in DOMAIN journal'[c]
        BY <1>1
    <2> QED
        BY <1>1, <2>1 DEF Told
<1>3. ASSUME NEW x, NEW n, ~(x = e.entry[1] /\ n = e.entry[2])
      PROVE  Told(x, n)' = Told(x, n)
    <2>1. Told(x, n) => Told(x, n)'
        BY <1>1 DEF Told
    <2>2. ASSUME NEW d \in Contracts, NEW i \in DOMAIN journal'[d],
                 journal'[d][i].entry[1] = x, journal'[d][i].entry[2] = n
          PROVE  Told(x, n)
        <3>1. i \in DOMAIN journal[d] /\ journal[d][i] = journal'[d][i]
            <4>1. CASE d # c
                BY <1>1, <4>1
            <4>2. CASE d = c
                <5>1. i # last
                    BY <1>1, <1>3, <2>2, <4>2
                <5> QED
                    BY <1>1, <2>2, <4>2, <5>1
            <4> QED
                BY <4>1, <4>2
        <3> QED
            BY <2>2, <3>1 DEF Told
    <2> QED
        BY <2>1, <2>2 DEF Told
<1> QED
    BY <1>2, <1>3

LEMMA OnceAppended ==
    ASSUME L!WellFormed, NEW c \in Contracts, NEW e,
           journal' = [journal EXCEPT ![c] = Append(@, e)],
           AtMostOnce, ~Told(e.entry[1], e.entry[2])
    PROVE  AtMostOnce'
<1> DEFINE last == Len(journal[c]) + 1
<1>1. /\ \A d \in Contracts \ {c} : journal'[d] = journal[d]
      /\ DOMAIN journal'[c] = 1..last
      /\ DOMAIN journal[c] = 1..Len(journal[c]) /\ Len(journal[c]) \in Nat
      /\ \A i \in DOMAIN journal[c] : journal'[c][i] = journal[c][i]
      /\ journal'[c][last] = e
    BY Appended
<1>2. ASSUME NEW d \in Contracts, NEW i \in DOMAIN journal'[d]
      PROVE  \/ d = c /\ i = last
             \/ i \in DOMAIN journal[d] /\ journal'[d][i] = journal[d][i]
    <2>1. CASE d # c
        BY <1>1, <2>1
    <2>2. CASE d = c
        BY <1>1, <1>2, <2>2
    <2> QED
        BY <2>1, <2>2
<1>3. \A d \in Contracts : \A i \in DOMAIN journal[d] :
         ~(journal[d][i].entry[1] = e.entry[1] /\ journal[d][i].entry[2] = e.entry[2])
    BY DEF Told
<1>4. ASSUME NEW a \in Contracts, NEW b \in Contracts, NEW i \in DOMAIN journal'[a], NEW j \in DOMAIN journal'[b],
             journal'[a][i].entry[1] = journal'[b][j].entry[1],
             journal'[a][i].entry[2] = journal'[b][j].entry[2]
      PROVE  a = b /\ i = j
    <2>1. CASE a = c /\ i = last
        <3>1. b = c /\ j = last
            BY <1>1, <1>2, <1>3, <1>4, <2>1
        <3> QED
            BY <2>1, <3>1
    <2>2. CASE b = c /\ j = last
        <3>1. a = c /\ i = last
            BY <1>1, <1>2, <1>3, <1>4, <2>2
        <3> QED
            BY <2>2, <3>1
    <2>3. CASE ~(a = c /\ i = last) /\ ~(b = c /\ j = last)
        <3>1. i \in DOMAIN journal[a] /\ journal'[a][i] = journal[a][i]
            BY <1>2, <2>3
        <3>2. j \in DOMAIN journal[b] /\ journal'[b][j] = journal[b][j]
            BY <1>2, <2>3
        <3> QED
            BY <1>4, <3>1, <3>2 DEF AtMostOnce
    <2> QED
        BY <2>1, <2>2, <2>3
<1> QED
    BY <1>4 DEF AtMostOnce

LEMMA CommitsOnce ==
    ASSUME Inv, NEW o \in Offers, Standing(o), Commit(o), ~Told(o.entry.entry[1], o.entry.entry[2])
    PROVE  /\ L!Fact(o.contract)
           /\ L!WellFormed' /\ L!Advances /\ RootMoves /\ root' = root + 1 /\ AtMostOnce'
           /\ o.contract \in Contracts /\ o.entry \in Facts(Ulids) /\ o.entry.entry \in Ulids
           /\ journal' = [journal EXCEPT ![o.contract] = Append(@, o.entry)]
           /\ Recorded(o)'
           /\ Told(o.entry.entry[1], o.entry.entry[2])'
           /\ \A x, n : ~(x = o.entry.entry[1] /\ n = o.entry.entry[2]) => Told(x, n)' = Told(x, n)
<1> DEFINE c == o.contract
           e == o.entry
<1>1. c \in Contracts /\ e \in Facts(Ulids)
    BY DEF Offers
<1>2. e.entry \in Ulids
    BY <1>1 DEF Facts
<1>3. Decided(o) /\ root' = root + 1 /\ root \in Nat /\ journal' = [journal EXCEPT ![c] = Append(@, e)]
    BY DEF Commit, Premise, Standing, Inv
<1>4. e.entry \in L!Fresh(c)
    <2>1. ASSUME e.entry \in L!Used
          PROVE  FALSE
        <3>1. PICK d \in Contracts : e.entry \in {journal[d][i].entry : i \in DOMAIN journal[d]}
            BY <2>1 DEF L!Used
        <3>2. PICK i \in DOMAIN journal[d] : e.entry = journal[d][i].entry
            BY <3>1
        <3>3. Told(e.entry[1], e.entry[2])
            BY <3>2 DEF Told
        <3> QED
            BY <3>3
    <2> QED
        BY <1>2, <2>1 DEF L!Fresh, AnyFresh
<1>5. L!Fact(c)
    BY <1>3, <1>4, CommitIsFact DEF Inv
<1>6. L!WellFormed' /\ L!Advances
    <2>1. L!Next
        BY <1>1, <1>5 DEF L!Next
    <2> QED
        BY <2>1, LedgerAdvances DEF Inv
<1>7. RootMoves
    BY <1>3 DEF RootMoves
<1>8. AtMostOnce'
    BY <1>1, <1>3, OnceAppended DEF Inv
<1>9. /\ Told(e.entry[1], e.entry[2])'
      /\ \A x, n : ~(x = e.entry[1] /\ n = e.entry[2]) => Told(x, n)' = Told(x, n)
    BY <1>1, <1>3, ToldAppended DEF Inv
<1>10. Recorded(o)'
    <2>1. /\ DOMAIN journal'[c] = 1..Len(journal[c]) + 1 /\ Len(journal[c]) \in Nat
          /\ journal'[c][Len(journal[c]) + 1] = e
        BY <1>1, <1>3, Appended DEF Inv
    <2> QED
        BY <2>1 DEF Recorded
<1> QED
    BY <1>1, <1>2, <1>3, <1>5, <1>6, <1>7, <1>8, <1>9, <1>10

(* A commit leaves the memories sound that it does not falsify itself. *)
LEMMA CommittedMemory ==
    ASSUME Inv, NEW o \in Offers, Standing(o), Commit(o), ~Told(o.entry.entry[1], o.entry.entry[2]),
           UNCHANGED worktree,
           proc' \in [Writers -> Processes], \A x \in Writers : Local(x, proc[x])',
           \A x \in Writers : proc'[x].op = proc[x].op /\ (proc[x].phase = "idle" => proc'[x] = proc[x]),
           o.entry.entry[2] <= proc[o.entry.entry[1]].op,
           orphans' \subseteq orphans,
           \A r \in orphans' : ~(r.entry.entry[1] = o.entry.entry[1] /\ r.entry.entry[2] = o.entry.entry[2])
    PROVE  Memory'
<1> DEFINE c == o.contract
           e == o.entry
<1>1. /\ L!WellFormed' /\ L!Advances /\ RootMoves /\ root' = root + 1 /\ AtMostOnce'
      /\ c \in Contracts /\ e.entry \in Ulids
      /\ journal' = [journal EXCEPT ![c] = Append(@, e)]
      /\ \A x, n : ~(x = e.entry[1] /\ n = e.entry[2]) => Told(x, n)' = Told(x, n)
    BY CommitsOnce
<1>2. root' \in Nat /\ worktree' \in [Contracts -> Changes]
    BY <1>1 DEF Inv
<1>3. Processed'
    BY DEF Processed
<1>4. Begun'
    <2> DEFINE last == Len(journal[c]) + 1
    <2>1. /\ \A d \in Contracts \ {c} : journal'[d] = journal[d]
          /\ DOMAIN journal'[c] = 1..last
          /\ DOMAIN journal[c] = 1..Len(journal[c]) /\ Len(journal[c]) \in Nat
          /\ \A i \in DOMAIN journal[c] : journal'[c][i] = journal[c][i]
          /\ journal'[c][last] = e
        BY <1>1, Appended DEF Inv
    <2>2. e.entry[1] \in Writers
        BY <1>1 DEF Ulids
    <2>3. \A d \in Contracts : \A i \in DOMAIN journal[d] :
             journal[d][i].entry[1] \in Writers /\ journal[d][i].entry[2] <= proc[journal[d][i].entry[1]].op
        BY EntryTyped DEF Inv, Begun
    <2>4. ASSUME NEW d \in Contracts, NEW i \in DOMAIN journal'[d]
          PROVE  journal'[d][i].entry[2] <= proc'[journal'[d][i].entry[1]].op
        <3>1. CASE d # c \/ i # last
            <4>1. i \in DOMAIN journal[d] /\ journal'[d][i] = journal[d][i]
                <5>1. CASE d # c
                    BY <2>1, <5>1
                <5>2. CASE d = c
                    BY <2>1, <2>4, <3>1, <5>2
                <5> QED
                    BY <5>1, <5>2
            <4>2. proc'[journal[d][i].entry[1]].op = proc[journal[d][i].entry[1]].op
                BY <2>3, <4>1
            <4> QED
                BY <2>3, <4>1, <4>2
        <3>2. CASE d = c /\ i = last
            BY <2>1, <2>2, <3>2
        <3> QED
            BY <3>1, <3>2
    <2> QED
        BY <2>4 DEF Begun
<1>5. Orphaned'
    <2>1. ASSUME NEW r \in orphans'
          PROVE  OrphanFits(r)'
        <3> DEFINE x == r.entry.entry[1]
                   n == r.entry.entry[2]
        <3>1. /\ r \in Offers /\ Standing(r) /\ ~Told(x, n) /\ n <= proc[x].op
              /\ n = proc[x].op => proc[x].phase = "idle" /\ proc[x].result = "crashed"
            BY DEF Inv, Orphaned, OrphanFits
        <3>2. r.entry.entry \in Ulids
            BY <3>1 DEF Offers, Facts
        <3>3. x \in Writers
            BY <3>2 DEF Ulids
        <3>4. Standing(r)'
            BY <1>1, <3>1, StandingKept DEF Inv
        <3>5. ~Told(x, n)'
            BY <1>1, <3>1
        <3>6. proc'[x].op = proc[x].op /\ (proc[x].phase = "idle" => proc'[x] = proc[x])
            BY <3>3
        <3> QED
            BY <3>1, <3>4, <3>5, <3>6 DEF OrphanFits
    <2>2. ASSUME NEW r \in orphans', NEW s \in orphans',
                 r.entry.entry[1] = s.entry.entry[1], r.entry.entry[2] = s.entry.entry[2]
          PROVE  r = s
        BY <2>2 DEF Inv, Orphaned
    <2> QED
        BY <2>1, <2>2 DEF Orphaned
<1> QED
    BY <1>1, <1>2, <1>3, <1>4, <1>5 DEF Memory

(* Whoever did not have the fact to admit remembers as before. *)
LEMMA BystandersKept ==
    ASSUME Inv, NEW o \in Offers, Standing(o), Commit(o), ~Told(o.entry.entry[1], o.entry.entry[2]),
           NEW x \in Writers,
           \/ x # o.entry.entry[1]
           \/ o.entry.entry[2] # proc[x].op
           \/ proc[x].phase = "idle" /\ proc[x].result = "crashed",
           proc'[x] = proc[x]
    PROVE  Local(x, proc[x])'
<1>1. PICK p \in Processes : p = proc[x] /\ Local(x, p)
    BY Remembered
<1>2. /\ L!Advances /\ RootMoves
      /\ \A y, n : ~(y = o.entry.entry[1] /\ n = o.entry.entry[2]) => Told(y, n)' = Told(y, n)
    BY CommitsOnce
<1>3. ToldKept(x, p)
    <2>1. CASE x # o.entry.entry[1] \/ o.entry.entry[2] # p.op
        <3>1. Told(x, p.op)' = Told(x, p.op)
            BY <1>2, <2>1
        <3> QED
            BY <3>1 DEF ToldKept
    <2>2. CASE p.phase = "idle" /\ p.result = "crashed"
        BY <2>2 DEF ToldKept
    <2> QED
        BY <1>1, <2>1, <2>2
<1>4. Local(x, p)'
    BY <1>1, <1>2, <1>3, LocalKept DEF Inv
<1> QED
    BY <1>1, <1>4

(* A process's own transaction commits; it is told so, or its Git is killed. *)
LEMMA PublishedKeeps ==
    ASSUME Inv, NEW w \in Writers, proc[w].phase = "publishing", Commit(proc[w].offer),
           UNCHANGED <<worktree, seat, fence, orphans>>,
           \/ Settle(w, "accepted")
           \/ Goto(w, "unknown")
    PROVE  Inv'
<1>1. PICK p \in Processes : p = proc[w]
    BY Remembered
<1>2. /\ p.phase = "publishing" /\ Steady(p) /\ OfferFits(w, p) /\ ~Told(w, p.op) /\ p.result = None
      /\ p.op \in Nat
    BY <1>1, Remembered, Sayable DEF Local
<1>3. PICK o \in Offers : o = p.offer
    BY <1>2 DEF OfferFits, Offering
<1>4. /\ Standing(o) /\ Commit(o) /\ o.contract = p.intent.contract /\ o.entry.entry = <<w, p.op, p.attempt>>
      /\ o.entry.entry[1] = w /\ o.entry.entry[2] = p.op
    BY <1>1, <1>2, <1>3 DEF OfferFits, Offering
<1>5. ~Told(o.entry.entry[1], o.entry.entry[2])
    BY <1>2, <1>4
<1>6. L!WellFormed' /\ L!Advances /\ Recorded(o)' /\ Told(w, p.op)'
    BY <1>4, <1>5, CommitsOnce
<1>7. proc \in [Writers -> Processes]
    BY DEF Inv, Processed
<1>8. PICK q \in Processes :
         /\ proc' = [proc EXCEPT ![w] = q]
         /\ q.agenda = p.agenda /\ q.op = p.op /\ q.attempt = p.attempt /\ q.intent = p.intent
         /\ q.source = p.source /\ q.result = None
         /\ \/ q.phase = "closing" /\ q.outcome = "accepted" /\ q.offer = None
            \/ q.phase = "unknown" /\ q.offer = o
    <2>1. CASE Settle(w, "accepted")
        <3> DEFINE q == [p EXCEPT !.phase = "closing", !.outcome = "accepted", !.offer = None]
        <3>1. proc' = [proc EXCEPT ![w] = q]
            BY <1>1, <2>1 DEF Settle, Settled
        <3>2. /\ q.agenda = p.agenda /\ q.op = p.op /\ q.attempt = p.attempt /\ q.intent = p.intent
              /\ q.source = p.source /\ q.result = None
              /\ q.phase = "closing" /\ q.outcome = "accepted" /\ q.offer = None
            BY <1>2 DEF Processes
        <3>3. q \in Processes
            BY DEF Processes, Phases, Outcomes
        <3> HIDE DEF q
        <3> QED
            BY <3>1, <3>2, <3>3
    <2>2. CASE Goto(w, "unknown")
        <3> DEFINE q == [p EXCEPT !.phase = "unknown"]
        <3>1. proc' = [proc EXCEPT ![w] = q]
            BY <1>1, <2>2 DEF Goto
        <3>2. /\ q.agenda = p.agenda /\ q.op = p.op /\ q.attempt = p.attempt /\ q.intent = p.intent
              /\ q.source = p.source /\ q.result = None
              /\ q.phase = "unknown" /\ q.offer = o
            BY <1>2, <1>3 DEF Processes
        <3>3. q \in Processes
            BY DEF Processes, Phases
        <3> HIDE DEF q
        <3> QED
            BY <3>1, <3>2, <3>3
    <2> QED
        BY <2>1, <2>2
<1>9. Steady(q)'
    <2>1. Steady(p)'
        BY <1>2, <1>6, SteadyKept DEF Inv
    <2> QED
        BY <1>2, <1>8, <2>1 DEF Steady, Working, Checkpointed, SourceFits, Custody
<1>10. Local(w, q)'
    <2>1. PreparationFits(q)'
        BY <1>8 DEF PreparationFits
    <2>2. OfferFits(w, q)'
        BY <1>4, <1>8 DEF OfferFits, Offering
    <2>3. Once(w, q)'
        <3>1. Told(w, q.op)' /\ Recorded(o)'
            BY <1>6, <1>8
        <3>2. Truthful(w, q.op, "accepted")'
            BY <3>1 DEF Truthful, Fruitless
        <3> QED
            BY <1>8, <3>1, <3>2 DEF Once, Outcomes
    <2> QED
        BY <1>9, <2>1, <2>2, <2>3 DEF Local, Steady
<1>11. \A x \in Writers : Local(x, proc[x])'
    <2>1. ASSUME NEW x \in Writers \ {w}
          PROVE  Local(x, proc[x])'
        <3>1. proc'[x] = proc[x]
            BY <1>7, <1>8
        <3> QED
            BY <1>4, <1>5, <3>1, BystandersKept
    <2>2. Local(w, proc[w])'
        BY <1>7, <1>8, <1>10
    <2> QED
        BY <2>1, <2>2
<1>12. Memory'
    <2>1. proc' \in [Writers -> Processes]
        BY <1>7, <1>8
    <2>2. \A x \in Writers : proc'[x].op = proc[x].op /\ (proc[x].phase = "idle" => proc'[x] = proc[x])
        BY <1>1, <1>2, <1>7, <1>8
    <2>3. \A r \in orphans' : ~(r.entry.entry[1] = o.entry.entry[1] /\ r.entry.entry[2] = o.entry.entry[2])
        <3>1. ASSUME NEW r \in orphans, r.entry.entry[1] = w, r.entry.entry[2] = p.op
              PROVE  FALSE
            BY <1>1, <1>2, <3>1 DEF Inv, Orphaned, OrphanFits
        <3> QED
            BY <1>4, <3>1
    <2>4. o.entry.entry[2] <= proc[o.entry.entry[1]].op
        BY <1>1, <1>2, <1>4
    <2> QED
        BY <1>4, <1>5, <1>11, <2>1, <2>2, <2>3, <2>4, CommittedMemory
<1>13. Seats'
    <2>1. q.phase \in Custody <=> proc[w].phase \in Custody
        BY <1>8 DEF Custody
    <2> QED
        BY <1>8, <2>1, SeatsKept DEF Inv
<1>14. Fences'
    <2>1. \A t \in Targets : fence[t] = w => q.phase \notin {"idle", "fencing"} /\ q.intent = proc[w].intent
        BY <1>1, <1>8
    <2> QED
        BY <1>6, <1>8, <2>1, FencesKept DEF Inv
<1> QED
    BY <1>12, <1>13, <1>14 DEF Inv, Memory

LEMMA TransactionKeeps ==
    ASSUME Inv, NEW w \in Writers, Publish(w) \/ Reject(w) \/ RejectSpurious(w) \/ Kill(w)
    PROVE  Inv'
<1>1. CASE Publish(w)
    BY <1>1, PublishedKeeps DEF Publish
<1>2. CASE Reject(w)
    BY <1>2, RejectedKeeps DEF Reject
<1>3. CASE RejectSpurious(w)
    BY <1>3, RejectedKeeps DEF RejectSpurious
<1>4. CASE Kill(w)
    <2>1. /\ proc[w].phase = "publishing" /\ Goto(w, "unknown")
          /\ UNCHANGED <<worktree, seat, fence, orphans>>
          /\ Commit(proc[w].offer) \/ UNCHANGED <<ledgerVars, root>>
        BY <1>4 DEF Kill
    <2>2. CASE Commit(proc[w].offer)
        BY <2>1, <2>2, PublishedKeeps
    <2>3. CASE UNCHANGED <<ledgerVars, root>>
        BY <2>1, <2>3, RejectedKeeps
    <2> QED
        BY <2>1, <2>2, <2>3
<1> QED
    BY <1>1, <1>2, <1>3, <1>4

----------------------------------------------------------------------------
(* Death, and what goes on without its process. *)

LEMMA CrashKeeps ==
    ASSUME Inv, NEW w \in Writers, Crash(w)
    PROVE  Inv'
<1> DEFINE q == Ended(proc[w], "crashed")
<1>1. /\ proc[w].phase # "idle"
      /\ seat' = IF seat = w THEN None ELSE seat
      /\ fence' = Released(fence, w)
      /\ orphans' = IF proc[w].phase = "publishing" THEN orphans \cup {proc[w].offer} ELSE orphans
      /\ proc' = [proc EXCEPT ![w] = q]
      /\ UNCHANGED <<ledgerVars, root, worktree>>
    BY DEF Crash
<1>2. /\ proc \in [Writers -> Processes] /\ proc[w] \in Processes /\ Working(proc[w]) /\ OfferFits(w, proc[w])
      /\ proc[w].op \in Nat /\ w # None
    BY Remembered DEF Steady, Local, Processes, Inv, Processed
<1>3. q \in Processes /\ Local(w, q)
    BY <1>1, <1>2, Sayable, EndedLocal DEF Results
<1>4. q.phase = "idle" /\ q.op = proc[w].op /\ q.result = "crashed"
    BY DEF Ended, Idle
<1> HIDE DEF q
<1>5. /\ proc' \in [Writers -> Processes] /\ proc'[w] = q
      /\ \A x \in Writers \ {w} : proc'[x] = proc[x]
    BY <1>1, <1>2, <1>3
<1>6. /\ L!WellFormed' /\ L!Advances /\ RootMoves
      /\ \A x, n : Told(x, n)' = Told(x, n)
      /\ UNCHANGED <<journal, state, ref>>
    BY <1>1, QuietLedger DEF Inv, RootMoves, ledgerVars, Told
<1>7. Processed'
    <2>1. ASSUME NEW x \in Writers
          PROVE  Local(x, proc[x])'
        <3>1. ASSUME NEW p \in Processes, Local(x, p)
              PROVE  Local(x, p)'
            <4>1. Told(x, p.op)' = Told(x, p.op)
                BY <1>6
            <4>2. ToldKept(x, p)
                BY <4>1 DEF ToldKept
            <4> QED
                BY <1>6, <3>1, <4>2, LocalKept DEF Inv
        <3>2. proc'[x] \in Processes /\ Local(x, proc'[x])
            BY <1>3, <1>5, Remembered
        <3> QED
            BY <3>1, <3>2
    <2> QED
        BY <1>5, <2>1 DEF Processed
<1>8. Begun'
    <2>1. \A x \in Writers : proc'[x].op = proc[x].op
        BY <1>4, <1>5
    <2> QED
        BY <1>6, <2>1, EntryTyped DEF Inv, Begun
<1>9. Orphaned'
    <2>1. ASSUME NEW o \in orphans'
          PROVE  OrphanFits(o)'
        <3> DEFINE x == o.entry.entry[1]
                   n == o.entry.entry[2]
        <3>1. /\ o \in Offers /\ Standing(o) /\ ~Told(x, n) /\ n <= proc[x].op
              /\ n = proc[x].op => x = w \/ (proc[x].phase = "idle" /\ proc[x].result = "crashed")
            <4>1. CASE o \in orphans
                BY <4>1 DEF Inv, Orphaned, OrphanFits
            <4>2. CASE o \notin orphans
                <5>1. proc[w].phase = "publishing" /\ o = proc[w].offer
                    BY <1>1, <2>1, <4>2
                <5>2. x = w /\ n = proc[w].op /\ o \in Offers /\ Standing(o)
                    BY <1>2, <5>1 DEF OfferFits, Offering
                <5>3. ~Told(w, proc[w].op)
                    BY <1>1, <5>1, Sayable
                <5> QED
                    BY <1>2, <5>2, <5>3
            <4> QED
                BY <4>1, <4>2
        <3>2. o.entry.entry \in Ulids
            BY <3>1 DEF Offers, Facts
        <3>3. x \in Writers
            BY <3>2 DEF Ulids
        <3>4. Standing(o)'
            BY <1>6, <3>1, StandingKept DEF Inv
        <3>5. ~Told(x, n)'
            BY <1>6, <3>1
        <3>6. /\ n <= proc'[x].op
              /\ n = proc'[x].op => proc'[x].phase = "idle" /\ proc'[x].result = "crashed"
            BY <1>4, <1>5, <3>1, <3>3
        <3> QED
            BY <3>1, <3>4, <3>5, <3>6 DEF OrphanFits
    <2>2. ASSUME NEW o \in orphans', NEW r \in orphans',
                 o.entry.entry[1] = r.entry.entry[1], o.entry.entry[2] = r.entry.entry[2]
          PROVE  o = r
        <3>1. ASSUME NEW s \in orphans, s.entry.entry[1] = w, s.entry.entry[2] = proc[w].op
              PROVE  FALSE
            BY <1>1, <3>1 DEF Inv, Orphaned, OrphanFits
        <3>2. ASSUME NEW s \in orphans', s \notin orphans
              PROVE  s = proc[w].offer /\ s.entry.entry[1] = w /\ s.entry.entry[2] = proc[w].op
            BY <1>1, <1>2, <3>2 DEF OfferFits, Offering
        <3> QED
            BY <2>2, <3>1, <3>2 DEF Inv, Orphaned
    <2> QED
        BY <2>1, <2>2 DEF Orphaned
<1>10. AtMostOnce'
    BY <1>6 DEF Inv, AtMostOnce
<1>11. Seats'
    <2>1. seat' \in Writers \cup {None}
        BY <1>1 DEF Inv, Seats
    <2>2. ASSUME NEW x \in Writers
          PROVE  seat' = x <=> proc'[x].phase \in Custody
        <3>1. seat = x <=> proc[x].phase \in Custody
            BY DEF Inv, Seats
        <3>2. x # None
            BY ProtocolAssumption
        <3> QED
            BY <1>1, <1>4, <1>5, <3>1, <3>2 DEF Custody
    <2> QED
        BY <2>1, <2>2 DEF Seats
<1>12. Fences'
    <2>1. fence \in [Targets -> Writers \cup {None}]
        BY DEF Inv, Fences
    <2>2. fence' \in [Targets -> Writers \cup {None}]
        BY <1>1, <2>1 DEF Released
    <2>3. ASSUME NEW t \in Targets, fence'[t] # None
          PROVE  proc'[fence'[t]].phase \notin {"idle", "fencing"} /\ FenceTarget(proc[fence[t]].intent)' = t
        <3>1. fence'[t] = fence[t] /\ fence[t] # w /\ fence[t] \in Writers
            BY <1>1, <2>1, <2>3 DEF Released
        <3>2. PICK x \in Writers : x = fence[t]
            BY <3>1
        <3>3. proc'[x] = proc[x] /\ proc[x].phase \notin {"idle", "fencing"} /\ FenceTarget(proc[x].intent) = t
            BY <1>5, <2>3, <3>1, <3>2 DEF Inv, Fences
        <3>4. FenceTarget(proc[x].intent)' = FenceTarget(proc[x].intent)
            BY <1>6, <3>3 DEF FenceTarget
        <3> QED
            BY <3>1, <3>2, <3>3, <3>4
    <2> QED
        BY <2>2, <2>3 DEF Fences
<1>13. root' \in Nat /\ worktree' \in [Contracts -> Changes]
    BY <1>1 DEF Inv
<1> QED
    BY <1>6, <1>7, <1>8, <1>9, <1>10, <1>11, <1>12, <1>13 DEF Inv

LEMMA FencesStand ==
    ASSUME Inv, L!Advances, UNCHANGED <<fence, proc>>
    PROVE  Fences'
<1>1. SUFFICES ASSUME NEW t \in Targets, fence[t] # None
               PROVE  FenceTarget(proc[fence[t]].intent)' = t
    BY DEF Inv, Fences
<1>2. PICK x \in Writers : x = fence[t]
    BY <1>1 DEF Inv, Fences
<1>3. proc[x].phase # "idle" /\ FenceTarget(proc[x].intent) = t
    BY <1>1, <1>2 DEF Inv, Fences
<1>4. PICK p \in Processes : p = proc[x] /\ Steady(p)
    BY Remembered
<1>5. FenceTarget(p.intent)' = FenceTarget(p.intent)
    BY <1>3, <1>4, FenceTargetKept
<1> QED
    BY <1>2, <1>3, <1>4, <1>5

LEMMA OrphanCommitsKeeps ==
    ASSUME Inv, NEW o \in orphans, OrphanCommits(o)
    PROVE  Inv'
<1>1. /\ Commit(o) /\ orphans' = orphans \ {o} /\ UNCHANGED <<worktree, seat, fence, proc>>
    BY DEF OrphanCommits
<1> DEFINE x == o.entry.entry[1]
           n == o.entry.entry[2]
<1>2. /\ o \in Offers /\ Standing(o) /\ ~Told(x, n) /\ n <= proc[x].op
      /\ n = proc[x].op => proc[x].phase = "idle" /\ proc[x].result = "crashed"
    BY DEF Inv, Orphaned, OrphanFits
<1>3. \A y \in Writers : Local(y, proc[y])'
    <2>1. ASSUME NEW y \in Writers
          PROVE  Local(y, proc[y])'
        <3>1. \/ y # x
              \/ n # proc[y].op
              \/ proc[y].phase = "idle" /\ proc[y].result = "crashed"
            BY <1>2
        <3>2. proc'[y] = proc[y]
            BY <1>1
        <3> QED
            BY <1>1, <1>2, <3>1, <3>2, BystandersKept
    <2> QED
        BY <2>1
<1>4. Memory'
    <2>1. proc' \in [Writers -> Processes]
        BY <1>1 DEF Inv, Processed
    <2>2. \A y \in Writers : proc'[y].op = proc[y].op /\ (proc[y].phase = "idle" => proc'[y] = proc[y])
        BY <1>1
    <2>3. \A r \in orphans' : ~(r.entry.entry[1] = x /\ r.entry.entry[2] = n)
        BY <1>1 DEF Inv, Orphaned
    <2> QED
        BY <1>1, <1>2, <1>3, <2>1, <2>2, <2>3, CommittedMemory
<1>5. Seats'
    BY <1>1 DEF Inv, Seats
<1>6. Fences'
    <2>1. L!Advances
        BY <1>1, <1>2, CommitsOnce
    <2> QED
        BY <1>1, <2>1, FencesStand
<1> QED
    BY <1>4, <1>5, <1>6 DEF Inv, Memory
----------------------------------------------------------------------------
(* The world around. *)

LEMMA SurroundedKeeps ==
    ASSUME Inv, L!World \/ UNCHANGED ledgerVars, UNCHANGED <<journal, state, root, seat, fence, proc>>,
           worktree' \in [Contracts -> Changes], orphans' \subseteq orphans
    PROVE  Inv'
<1>1. L!WellFormed' /\ L!Advances
    BY LedgerAdvances DEF Inv, L!Next
<1>2. RootMoves /\ \A x, n : Told(x, n)' = Told(x, n)
    BY DEF Inv, RootMoves, Told
<1>3. Processed'
    <2>1. ASSUME NEW x \in Writers
          PROVE  Local(x, proc[x])'
        <3>1. PICK p \in Processes : p = proc[x] /\ Local(x, p)
            BY Remembered
        <3>2. Told(x, p.op)' = Told(x, p.op)
            BY <1>2
        <3>3. ToldKept(x, p)
            BY <3>2 DEF ToldKept
        <3>4. Local(x, p)'
            BY <1>1, <1>2, <3>1, <3>3, LocalKept DEF Inv
        <3> QED
            BY <3>1, <3>4
    <2> QED
        BY <2>1 DEF Inv, Processed
<1>4. Orphaned'
    <2>1. ASSUME NEW o \in orphans'
          PROVE  OrphanFits(o)'
        <3>1. OrphanFits(o)
            BY DEF Inv, Orphaned
        <3>2. Standing(o)'
            BY <1>1, <1>2, <3>1, StandingKept DEF Inv, OrphanFits
        <3>3. ~Told(o.entry.entry[1], o.entry.entry[2])'
            BY <1>2, <3>1 DEF OrphanFits
        <3> QED
            BY <3>1, <3>2, <3>3 DEF OrphanFits
    <2> QED
        BY <2>1 DEF Inv, Orphaned
<1>5. Fences'
    BY <1>1, FencesStand
<1>6. Seats' /\ Begun' /\ AtMostOnce' /\ root' \in Nat
    BY DEF Inv, Seats, Begun, AtMostOnce
<1> QED
    BY <1>1, <1>3, <1>4, <1>5, <1>6 DEF Inv

(* What others do to the refs is what the ledger lets them do. *)
LEMMA ForeignIsWorld ==
    /\ \A t \in Targets : ForeignCommit(t) => L!World
    /\ \A c \in Contracts : Provision(c) => L!World
<1>1. ASSUME NEW t \in Targets, ForeignCommit(t)
      PROVE  L!World
    <2>1. L!ForeignCommit(t)
        BY <1>1 DEF ForeignCommit, L!ForeignCommit, Unbounded
    <2> QED
        BY <2>1, SameSets DEF L!World
<1>2. ASSUME NEW c \in Contracts, Provision(c)
      PROVE  L!World
    <2>1. L!Provision(c)
        BY <1>2, SameGuards DEF Provision, L!Provision
    <2> QED
        BY <2>1 DEF L!World
<1> QED
    BY <1>1, <1>2

LEMMA WorldKeeps ==
    ASSUME Inv, World
    PROVE  Inv'
<1>1. ASSUME NEW t \in Targets, ForeignCommit(t)
      PROVE  Inv'
    <2>1. UNCHANGED <<journal, state, root, worktree, seat, fence, proc, orphans>>
        BY <1>1 DEF ForeignCommit
    <2> QED
        BY <1>1, <2>1, ForeignIsWorld, SurroundedKeeps DEF Inv
<1>2. ASSUME NEW c \in Contracts, Provision(c)
      PROVE  Inv'
    <2>1. UNCHANGED <<journal, state, root, worktree, seat, fence, proc, orphans>>
        BY <1>2 DEF Provision
    <2> QED
        BY <1>2, <2>1, ForeignIsWorld, SurroundedKeeps DEF Inv
<1>3. ASSUME NEW c \in Contracts, NEW change \in Changes, Edit(c, change)
      PROVE  Inv'
    <2>1. /\ worktree' = [worktree EXCEPT ![c] = change]
          /\ UNCHANGED <<ledgerVars, root, seat, fence, proc, orphans>>
        BY <1>3 DEF Edit
    <2>2. worktree' \in [Contracts -> Changes]
        BY <2>1 DEF Inv
    <2> QED
        BY <2>1, <2>2, SurroundedKeeps DEF ledgerVars
<1>4. ASSUME NEW o \in orphans, OrphanCommits(o)
      PROVE  Inv'
    BY <1>4, OrphanCommitsKeeps
<1>5. ASSUME NEW o \in orphans, OrphanDies(o)
      PROVE  Inv'
    <2>1. orphans' \subseteq orphans /\ UNCHANGED <<ledgerVars, root, worktree, seat, fence, proc>>
        BY <1>5 DEF OrphanDies
    <2> QED
        BY <2>1, SurroundedKeeps DEF ledgerVars, Inv
<1> QED
    BY <1>1, <1>2, <1>3, <1>4, <1>5 DEF World

----------------------------------------------------------------------------
(* The invariant holds. *)

LEMMA InitInv ==
    ASSUME Init
    PROVE  Inv
<1>1. PICK s \in Scenarios :
         /\ proc = [w \in Writers |-> [Idle EXCEPT !.agenda = s.agenda[w]]]
         /\ worktree = [c \in Contracts |-> s.content]
    BY DEF Init
<1>2. /\ s.agenda \in [Writers -> Seq(Operations)] /\ s.content \in Changes
      /\ \A w \in Writers : Len(s.agenda[w]) <= MaxOps
    BY ProtocolAssumption
<1>3. /\ journal = [c \in Contracts |-> <<>>] /\ state = [c \in Contracts |-> None]
      /\ ref = [t \in Targets |-> IF t \in Branches THEN <<>> ELSE None]
      /\ root = 0 /\ seat = None /\ fence = [t \in Targets |-> None] /\ orphans = {}
    BY DEF Init
<1>4. L!WellFormed
    <2>1. L!Init
        BY <1>3, SameSets DEF L!Init, L!InitRef
    <2> QED
        BY <2>1, LedgerAssumed, L!InitWellFormed
<1>5. \A w \in Writers : proc[w] \in Processes /\ proc[w].phase = "idle" /\ Local(w, proc[w])
    <2>1. ASSUME NEW w \in Writers
          PROVE  proc[w] \in Processes /\ proc[w].phase = "idle" /\ Local(w, proc[w])
        <3> DEFINE a == s.agenda[w]
                   q == [phase |-> "idle", agenda |-> a, op |-> 0, attempt |-> 0, intent |-> None,
                         source |-> None, prep |-> None, offer |-> None, outcome |-> None, result |-> None]
        <3>1. proc[w] = q
            BY <1>1 DEF Idle
        <3>2. a \in Seq(Operations) /\ Len(a) <= MaxOps
            BY <1>2
        <3> HIDE DEF a
        <3>3. q \in Processes
            BY <3>2 DEF Processes, Phases, MaxAttempts
        <3>4. /\ q.phase = "idle" /\ q.op = 0 /\ q.agenda = a /\ q.offer = None /\ q.result = None
            OBVIOUS
        <3> HIDE DEF q
        <3>5. 0 + Len(a) <= MaxOps
            BY <3>2
        <3>6. Working(q) /\ Checkpointed(q) /\ PreparationFits(q) /\ SourceFits(q)
            BY <3>4, <3>5 DEF Working, Checkpointed, PreparationFits, SourceFits, Custody
        <3>7. None \notin Results
            BY ProtocolAssumption
        <3>8. Truthful(w, 0, None)
            <4>1. None # "accepted"
                BY <3>7 DEF Results
            <4>2. ~Told(w, 0)
                BY <1>3 DEF Told
            <4> QED
                BY <4>1, <4>2 DEF Truthful
        <3>9. OfferFits(w, q) /\ Once(w, q)
            BY <3>4, <3>8 DEF OfferFits, Offering, Once
        <3> QED
            BY <3>1, <3>3, <3>4, <3>6, <3>9 DEF Local
    <2> QED
        BY <2>1
<1>6. Processed
    BY <1>1, <1>5 DEF Processed
<1>7. Seats
    BY <1>3, <1>5, ProtocolAssumption DEF Seats, Custody
<1>8. Fences
    BY <1>3 DEF Fences
<1>9. Begun /\ Orphaned /\ AtMostOnce
    BY <1>3 DEF Begun, Orphaned, AtMostOnce
<1> QED
    BY <1>1, <1>2, <1>3, <1>4, <1>6, <1>7, <1>8, <1>9 DEF Inv

LEMMA WriterKeeps ==
    ASSUME Inv, NEW w \in Writers, Begin(w) \/ Step(w) \/ Fault(w)
    PROVE  Inv'
<1>1. CASE Begin(w)
    BY <1>1, BeginKeeps
<1>2. CASE Step(w)
    BY <1>2, AcquireFenceKeeps, FenceTimeoutKeeps, ReadSourceKeeps, PrepareExternallyKeeps, AcquireSeatKeeps,
       SeatTimeoutKeeps, DecideKeeps, TransactionKeeps, JudgeKeeps, RecoverKeeps, CloseSeatKeeps, UnfenceKeeps DEF Step
<1>3. CASE Fault(w)
    BY <1>3, TransactionKeeps, RecoverFailsKeeps, CloseSeatFailsKeeps, UnfenceKeeps, CrashKeeps DEF Fault
<1> QED
    BY <1>1, <1>2, <1>3

LEMMA NextInv ==
    ASSUME Inv, [Next]_vars
    PROVE  Inv'
<1>1. CASE UNCHANGED vars
    <2>1. UNCHANGED <<ledgerVars, root, worktree, seat, fence, proc, orphans>>
        BY <1>1 DEF vars, ledgerVars
    <2> QED
        BY <2>1, SurroundedKeeps DEF ledgerVars, Inv
<1>2. CASE Next
    BY <1>2, WriterKeeps, WorldKeeps DEF Next
<1> QED
    BY <1>1, <1>2

THEOREM WritersRemember == Spec => []Inv
<1>1. Init => Inv
    BY InitInv
<1>2. Inv /\ [Next]_vars => Inv'
    BY NextInv
<1> QED
    BY <1>1, <1>2, PTL DEF Spec

----------------------------------------------------------------------------
(* The writers implement the ledger. *)

(* Ledger is the same instance as L, of the module that L's theorems extend. *)
LEMMA SameAdmit ==
    ASSUME NEW c, NEW e, NEW movement
    PROVE  /\ L!Admit(c, e, movement) => Ledger!Admit(c, e, movement)
           /\ L!Fresh(c) = Ledger!Fresh(c)
           /\ L!Predecessors(c) = Ledger!Predecessors(c)
<1>1. L!Fresh(c) = Ledger!Fresh(c)
    BY DEF L!Fresh, Ledger!Fresh, L!Used, Ledger!Used
<1>2. L!Predecessors(c) = Ledger!Predecessors(c)
    BY Zenon DEF L!Predecessors, Ledger!Predecessors, L!Heads, Ledger!Heads
<1>3. L!StateFromBind(e) = Ledger!StateFromBind(e) /\ \A s : L!FoldEntry(s, e) = Ledger!FoldEntry(s, e)
    BY Zenon DEF L!StateFromBind, Ledger!StateFromBind, L!FoldEntry, Ledger!FoldEntry
<1>4. L!Admit(c, e, movement) => Ledger!Admit(c, e, movement)
    BY <1>3, Zenon DEF L!Admit, Ledger!Admit
<1> QED
    BY <1>1, <1>2, <1>4

LEMMA SameFact ==
    ASSUME NEW c, L!Fact(c)
    PROVE  Ledger!Fact(c)
<1>1. \A target, terms : L!Bind(c, target, terms) => Ledger!Bind(c, target, terms)
    BY SameAdmit, Zenon DEF L!Bind, Ledger!Bind,
       L!MayBind, Ledger!MayBind, L!TargetOpen, Ledger!TargetOpen, L!Active, Ledger!Active, L!Known, Ledger!Known, L!StartRef, Ledger!StartRef, L!BindFact, Ledger!BindFact
<1>2. \A terms : L!Amend(c, terms) => Ledger!Amend(c, terms)
    BY SameAdmit, Zenon DEF L!Amend, Ledger!Amend,
       L!Active, Ledger!Active, L!MayAmend, Ledger!MayAmend, L!Known, Ledger!Known, L!PrerequisitesReach, Ledger!PrerequisitesReach, L!AfterOf, Ledger!AfterOf, L!AmendFact, Ledger!AmendFact
<1>3. \A change : L!Deliver(c, change) => Ledger!Deliver(c, change)
    BY SameAdmit, Zenon DEF L!Deliver, Ledger!Deliver,
       L!Active, Ledger!Active, L!MayDeliver, Ledger!MayDeliver, L!TargetOpen, Ledger!TargetOpen, L!DeliverFact, Ledger!DeliverFact, L!Integration, Ledger!Integration
<1>4. L!Reintegrate(c) => Ledger!Reintegrate(c)
    BY SameAdmit, Zenon DEF L!Reintegrate, Ledger!Reintegrate,
       L!MayReintegrate, Ledger!MayReintegrate, L!Active, Ledger!Active, L!TargetOpen, Ledger!TargetOpen, L!ReintegratedFact, Ledger!ReintegratedFact
<1>5. \A change, verdict : L!Review(c, change, verdict) => Ledger!Review(c, change, verdict)
    BY SameAdmit, Zenon DEF L!Review, Ledger!Review,
       L!Active, Ledger!Active, L!AttestationFact, Ledger!AttestationFact, L!ReviewSubject, Ledger!ReviewSubject
<1>6. \A check, change, verdict : L!Verify(c, check, change, verdict) => Ledger!Verify(c, check, change, verdict)
    BY SameAdmit, Zenon DEF L!Verify, Ledger!Verify,
       L!Active, Ledger!Active, L!AttestationFact, Ledger!AttestationFact, L!VerificationSubject, Ledger!VerificationSubject
<1>7. L!Arc(c) => Ledger!Arc(c)
    BY SameAdmit, Zenon DEF L!Arc, Ledger!Arc,
       L!Active, Ledger!Active, L!ArcFact, Ledger!ArcFact
<1>8. L!Abandon(c) => Ledger!Abandon(c)
    BY SameAdmit, Zenon DEF L!Abandon, Ledger!Abandon,
       L!Active, Ledger!Active, L!AbandonedFact, Ledger!AbandonedFact
<1>9. L!Place(c) => Ledger!Place(c)
    BY SameAdmit, Zenon DEF L!Place, Ledger!Place,
       L!MayPlace, Ledger!MayPlace, L!Active, Ledger!Active, L!Claimed, Ledger!Claimed, L!TargetOpen, Ledger!TargetOpen, L!GatesSatisfied, Ledger!GatesSatisfied, L!Satisfied, Ledger!Satisfied, L!CurrentTestimony, Ledger!CurrentTestimony, L!CurrentKeys, Ledger!CurrentKeys, L!ClaimedFact, Ledger!ClaimedFact, L!Movement, Ledger!Movement
<1> QED
    BY <1>1, <1>2, <1>3, <1>4, <1>5, <1>6, <1>7, <1>8, <1>9, Zenon
    DEF L!Fact, Ledger!Fact, L!Targets, Ledger!Targets, L!Verdicts, Ledger!Verdicts

LEMMA SameWorld ==
    ASSUME L!World
    PROVE  Ledger!World
BY Zenon DEF L!World, Ledger!World, L!ForeignCommit, Ledger!ForeignCommit, L!Provision, Ledger!Provision,
       L!Active, Ledger!Active, L!Targets, Ledger!Targets

(* Offer o is committed by the process that made it, or after its death. *)
Committed(o) ==
    /\ Commit(o) /\ Standing(o) /\ ~Told(o.entry.entry[1], o.entry.entry[2])
    /\ \/ \E w \in Writers : proc[w].phase = "publishing" /\ o = proc[w].offer
       \/ o \in orphans

(* The ledger moves when an offer is committed, or the world moves it. *)
LEMMA LedgerMoves ==
    ASSUME Inv, [Next]_vars
    PROVE  \/ UNCHANGED ledgerVars
           \/ UNCHANGED <<journal, state>> /\ L!World
           \/ \E o \in Offers : Committed(o)
<1>1. ASSUME NEW w \in Writers, Publish(w) \/ Kill(w), Commit(proc[w].offer)
      PROVE  \E o \in Offers : Committed(o)
    <2>1. proc[w].phase = "publishing" /\ OfferFits(w, proc[w])
        BY <1>1, Remembered DEF Publish, Kill, Local
    <2>2. PICK o \in Offers : o = proc[w].offer /\ Standing(o) /\ o.entry.entry = <<w, proc[w].op, proc[w].attempt>>
        BY <2>1 DEF OfferFits, Offering
    <2>3. o.entry.entry[1] = w /\ o.entry.entry[2] = proc[w].op /\ ~Told(w, proc[w].op)
        BY <2>1, <2>2, Sayable
    <2>4. ~Told(o.entry.entry[1], o.entry.entry[2])
        BY <2>3
    <2> QED
        BY <1>1, <2>1, <2>2, <2>4 DEF Committed
<1>2. ASSUME NEW w \in Writers, Begin(w) \/ Step(w) \/ Fault(w)
      PROVE  UNCHANGED ledgerVars \/ \E o \in Offers : Committed(o)
    <2>1. CASE Publish(w)
        BY <1>1, <2>1 DEF Publish
    <2>2. CASE Kill(w)
        BY <1>1, <2>2 DEF Kill
    <2>3. CASE Decide(w)
        BY <2>3 DEF Decide, DecideBind, DecideAmend, DecideDeliver, DecideReintegrate, DecideReview, DecideVerify,
           DecideArc, DecideAbandon, DecidePlace, Untouched
    <2>4. CASE Begin(w)
        BY <2>4 DEF Begin
    <2>5. CASE AcquireFence(w) \/ FenceTimeout(w) \/ ReadSource(w) \/ PrepareExternally(w) \/ AcquireSeat(w)
                  \/ SeatTimeout(w) \/ Reject(w) \/ Judge(w) \/ Recover(w) \/ CloseSeat(w) \/ Unfence(w)
        BY <2>5 DEF AcquireFence, FenceTimeout, ReadSource, PrepareExternally, AcquireSeat, SeatTimeout, Reject,
           Judge, Recover, CloseSeat, Unfence
    <2>6. CASE RejectSpurious(w) \/ RecoverFails(w) \/ CloseSeatFails(w) \/ UnfenceFails(w) \/ Crash(w)
        BY <2>6 DEF RejectSpurious, RecoverFails, CloseSeatFails, UnfenceFails, Crash
    <2> QED
        BY <1>2, <2>1, <2>2, <2>3, <2>4, <2>5, <2>6 DEF Step, Fault
<1>3. ASSUME World
      PROVE  \/ UNCHANGED ledgerVars
             \/ UNCHANGED <<journal, state>> /\ L!World
             \/ \E o \in Offers : Committed(o)
    <2>1. ASSUME NEW o \in orphans, OrphanCommits(o)
          PROVE  \E x \in Offers : Committed(x)
        BY <2>1 DEF OrphanCommits, Committed, Inv, Orphaned, OrphanFits
    <2>2. ASSUME NEW o \in orphans, OrphanDies(o)
          PROVE  UNCHANGED ledgerVars
        BY <2>2 DEF OrphanDies
    <2>3. ASSUME NEW t \in Targets, ForeignCommit(t)
          PROVE  UNCHANGED <<journal, state>> /\ L!World
        BY <2>3, ForeignIsWorld DEF ForeignCommit
    <2>4. ASSUME NEW c \in Contracts, Provision(c)
          PROVE  UNCHANGED <<journal, state>> /\ L!World
        BY <2>4, ForeignIsWorld DEF Provision
    <2>5. ASSUME NEW c \in Contracts, NEW change \in Changes, Edit(c, change)
          PROVE  UNCHANGED ledgerVars
        BY <2>5 DEF Edit
    <2> QED
        BY <1>3, <2>1, <2>2, <2>3, <2>4, <2>5 DEF World
<1>4. CASE UNCHANGED vars
    BY <1>4 DEF vars, ledgerVars
<1> QED
    BY <1>2, <1>3, <1>4 DEF Next

LEMMA LedgerSteps ==
    ASSUME Inv, [Next]_vars
    PROVE  UNCHANGED ledgerVars \/ (\E c \in Grown : L!Fact(c)) \/ L!World
<1>1. ASSUME NEW o \in Offers, Committed(o)
      PROVE  \E c \in Grown : L!Fact(c)
    <2>1. /\ L!Fact(o.contract) /\ o.contract \in Contracts
          /\ journal' = [journal EXCEPT ![o.contract] = Append(@, o.entry)]
        BY <1>1, CommitsOnce DEF Committed
    <2>2. Len(journal'[o.contract]) = Len(journal[o.contract]) + 1 /\ Len(journal[o.contract]) \in Nat
        BY <2>1, Appended DEF Inv
    <2>3. o.contract \in Grown
        <3>1. Len(journal'[o.contract]) # Len(journal[o.contract])
            BY <2>2
        <3>2. journal'[o.contract] # journal[o.contract]
            BY <3>1, Zenon
        <3> QED
            BY <2>1, <3>2 DEF Grown
    <2> QED
        BY <2>1, <2>3
<1> QED
    BY <1>1, LedgerMoves

LEMMA LedgerStarts ==
    ASSUME Init
    PROVE  L!Init /\ Ledger!Init
BY DEF Init, L!Init, L!InitRef, L!Targets, Ledger!Init, Ledger!InitRef, Ledger!Targets, Targets

(* Whatever the interleaving of the processes, their retries, kills and    *)
(* deaths, each fact is admitted as if it were decided on the ledger at    *)
(* the moment at which it is published: the writers implement the ledger.  *)
THEOREM WritersImplementLedger == Spec => ImplementsLedger
<1> DEFINE Implements == ledgerVars' # ledgerVars => (\E c \in Grown : Ledger!Fact(c)) \/ Ledger!World
<1>1. Init => Ledger!Init
    BY LedgerStarts
<1>2. ASSUME Inv, [Next]_vars
      PROVE  [Implements]_ledgerVars
    BY <1>2, LedgerSteps, SameFact, SameWorld
<1>3. Spec => Ledger!Init
    BY <1>1 DEF Spec
<1>4. Spec => [][Implements]_ledgerVars
    BY <1>2, WritersRemember, PTL DEF Spec
<1> QED
    BY <1>3, <1>4 DEF ImplementsLedger

LEMMA WritersAreALedger == Spec => L!Spec
<1>1. Init => L!Init
    BY LedgerStarts
<1>2. ASSUME Inv, [Next]_vars
      PROVE  [L!Next]_L!ledgerVars
    <2>1. UNCHANGED ledgerVars => UNCHANGED L!ledgerVars
        BY DEF ledgerVars, L!ledgerVars
    <2>2. (\E c \in Grown : L!Fact(c)) => L!Next
        BY DEF Grown, L!Next
    <2>3. L!World => L!Next
        BY DEF L!Next
    <2> QED
        BY <1>2, <2>1, <2>2, <2>3, LedgerSteps
<1> QED
    BY <1>1, <1>2, WritersRemember, PTL DEF Spec, L!Spec

(* What the ledger promises, concurrent processes that crash keep: what    *)
(* landed was judged, in the terms that it has; it stays in the history of *)
(* its target; its prerequisites had landed before it; no contract waits   *)
(* for itself; and an ended contract is over.                              *)
THEOREM WritersKeepTheLedgersPromises ==
    Spec => [](L!ClaimedJudged /\ L!NoLostLanding /\ L!PrerequisitesLandFirst /\ L!AfterAcyclic /\ L!TerminalLast)
<1>1. L!Spec => []L!ClaimedJudged
    BY LedgerAssumed, L!LandedWasJudged
<1>2. L!Spec => []L!NoLostLanding
    BY LedgerAssumed, L!LandingsStay
<1>3. L!Spec => []L!PrerequisitesLandFirst
    BY LedgerAssumed, L!PrerequisitesLanded
<1>4. L!Spec => []L!AfterAcyclic
    BY LedgerAssumed, L!NeverCircular
<1>5. L!Spec => []L!TerminalLast
    BY LedgerAssumed, L!EndedForGood
<1> QED
    BY <1>1, <1>2, <1>3, <1>4, <1>5, WritersAreALedger, PTL

----------------------------------------------------------------------------
(* What a process is told. *)

LEMMA LeftTold ==
    ASSUME NEW w, NEW n
    PROVE  Left(w, n) # {} <=> Told(w, n)
<1>1. ASSUME NEW c \in Contracts, NEW i \in DOMAIN journal[c],
             journal[c][i].entry[1] = w, journal[c][i].entry[2] = n
      PROVE  journal[c][i] \in Left(w, n)
    BY <1>1 DEF Left
<1>2. ASSUME NEW e \in Left(w, n)
      PROVE  Told(w, n)
    <2>1. /\ e \in UNION {{journal[c][i] : i \in DOMAIN journal[c]} : c \in Contracts}
          /\ e.entry[1] = w /\ e.entry[2] = n
        BY DEF Left
    <2>2. PICK c \in Contracts : e \in {journal[c][i] : i \in DOMAIN journal[c]}
        BY <2>1
    <2>3. PICK i \in DOMAIN journal[c] : e = journal[c][i]
        BY <2>2
    <2> QED
        BY <2>1, <2>3 DEF Told
<1> QED
    BY <1>1, <1>2 DEF Told

(* An accepted operation has left its fact; one that was refused, reused   *)
(* earlier work, found its target moved, failed to publish or ran out of   *)
(* attempts has left none: whatever was killed, in doubt, or died.         *)
THEOREM VerdictsAreTrue == Spec => []VerdictTruthful
<1>1. ASSUME Inv
      PROVE  VerdictTruthful
    <2>1. /\ journal \in [Contracts -> Seq(Facts(Ulids))]
          /\ state \in [Contracts -> States(Ulids) \cup {None}]
          /\ ref \in [Targets -> Commits \cup {None}]
        BY <1>1, LedgerTyped DEF Inv
    <2>2. ASSUME NEW w \in Writers
          PROVE  /\ proc[w].phase \in Phases /\ proc[w].result \in Results \cup {None}
                 /\ proc[w].attempt \in 0..MaxAttempts
                 /\ seat = w <=> proc[w].phase \in {"seated", "publishing", "rejected", "unknown", "closing"}
        <3>1. proc[w] \in Processes /\ (seat = w <=> proc[w].phase \in Custody)
            BY <1>1 DEF Inv, Processed, Seats
        <3> QED
            BY <3>1 DEF Processes, Custody
    <2>3. ASSUME NEW t \in Targets
          PROVE  /\ fence[t] \in Writers \cup {None}
                 /\ fence[t] # None => /\ proc[fence[t]].phase \notin {"idle", "fencing"}
                                       /\ FenceTarget(proc[fence[t]].intent) = t
        BY <1>1 DEF Inv, Fences
    <2>4. TypeOK
        BY <1>1, <2>1, <2>2, <2>3 DEF TypeOK, Inv
    <2>5. ASSUME NEW w \in Writers
          PROVE  /\ proc[w].result = "accepted" => Left(w, proc[w].op) # {}
                 /\ proc[w].result \in {"refused", "reused", "target-moved", "publication-failed", "exhausted"}
                        => Left(w, proc[w].op) = {}
        <3>1. Once(w, proc[w])
            BY <1>1 DEF Inv, Processed, Local
        <3>2. CASE proc[w].phase \in {"idle", "unfencing"}
            BY <3>1, <3>2, LeftTold DEF Once, Truthful, Fruitless
        <3>3. CASE proc[w].phase \notin {"idle", "unfencing"}
            <4>1. proc[w].result = None /\ None \notin Results
                BY <3>1, <3>3, ProtocolAssumption DEF Once
            <4>2. proc[w].result \notin Results
                BY <4>1
            <4> QED
                BY <4>2 DEF Results
        <3> QED
            BY <3>2, <3>3
    <2> QED
        BY <2>4, <2>5 DEF VerdictTruthful
<1> QED
    BY <1>1, WritersRemember, PTL

----------------------------------------------------------------------------
(* What is offered, and what is admitted. *)

(* A process's step is its own. *)
LEMMA OwnStep ==
    ASSUME Inv, NEW w \in Writers, Begin(w) \/ Step(w) \/ Fault(w), NEW x \in Writers \ {w}
    PROVE  proc'[x] = proc[x]
<1>1. SUFFICES \E q : proc' = [proc EXCEPT ![w] = q]
    BY DEF Inv, Processed
<1>2. CASE Begin(w)
    BY <1>2 DEF Begin
<1>3. CASE AcquireFence(w) \/ FenceTimeout(w) \/ PrepareExternally(w) \/ AcquireSeat(w) \/ SeatTimeout(w)
              \/ CloseSeat(w) \/ Unfence(w) \/ CloseSeatFails(w) \/ UnfenceFails(w) \/ Crash(w)
    BY <1>3, Zenon DEF AcquireFence, FenceTimeout, PrepareExternally, AcquireSeat, SeatTimeout, CloseSeat,
       Unfence, CloseSeatFails, UnfenceFails, Crash, Goto, Finish
<1>4. CASE Publish(w) \/ Reject(w) \/ Judge(w) \/ Recover(w) \/ RejectSpurious(w) \/ Kill(w) \/ RecoverFails(w)
    BY <1>4, Zenon DEF Publish, Reject, Judge, Recover, RejectSpurious, Kill, RecoverFails, Goto, Settle
<1>5. CASE ReadSource(w)
    <2>1. proc[w].phase = "reading"
        BY <1>5 DEF ReadSource
    <2>2. proc[w].intent.verb \in {"amend", "place", "verify"}
        BY <2>1, Remembered DEF Steady, Working
    <2> QED
        BY <1>5, <2>2 DEF ReadSource, Finish
<1>6. CASE Decide(w)
    <2>1. DecideBind(w) \/ DecideAmend(w) \/ DecideDeliver(w) \/ DecideReintegrate(w)
              => \E q : proc' = [proc EXCEPT ![w] = q]
        BY DEF DecideBind, DecideAmend, DecideDeliver, DecideReintegrate, Settle, Offer
    <2>2. DecideReview(w) \/ DecideVerify(w) \/ DecideArc(w) \/ DecideAbandon(w) \/ DecidePlace(w)
              => \E q : proc' = [proc EXCEPT ![w] = q]
        BY DEF DecideReview, DecideVerify, DecideArc, DecideAbandon, DecidePlace, Settle, Offer
    <2> QED
        BY <1>6, <2>1, <2>2 DEF Decide
<1> QED
    BY <1>2, <1>3, <1>4, <1>5, <1>6 DEF Step, Fault

(* Only a decision makes an offer. *)
LEMMA OnlyDecisionsOffer ==
    ASSUME Inv, [Next]_vars, NEW w \in Writers, proc[w].phase = "seated", proc'[w].phase = "publishing"
    PROVE  Decide(w) /\ Untouched
<1>1. proc'[w] # proc[w]
    OBVIOUS
<1>2. ASSUME World
      PROVE  FALSE
    BY <1>1, <1>2 DEF World, ForeignCommit, Provision, Edit, OrphanCommits, OrphanDies
<1>3. PICK x \in Writers : Begin(x) \/ Step(x) \/ Fault(x)
    BY <1>1, <1>2 DEF Next, vars
<1>4. x = w
    BY <1>1, <1>3, OwnStep
<1>5. Crash(w) \/ Decide(w)
    BY <1>3, <1>4 DEF Begin, Step, Fault, AcquireFence, FenceTimeout, ReadSource, PrepareExternally, AcquireSeat,
       SeatTimeout, Publish, Reject, Judge, Recover, CloseSeat, Unfence, RejectSpurious, Kill, RecoverFails,
       CloseSeatFails, UnfenceFails
<1>6. ~Crash(w)
    <2>1. ASSUME Crash(w)
          PROVE  FALSE
        <3>1. proc'[w] = Ended(proc[w], "crashed")
            BY <2>1 DEF Crash, Inv, Processed
        <3> QED
            BY <3>1 DEF Ended, Idle
    <2> QED
        BY <2>1
<1>7. Decide(w)
    BY <1>5, <1>6
<1> QED
    BY <1>7 DEF Decide, DecideBind, DecideAmend, DecideDeliver, DecideReintegrate, DecideReview, DecideVerify,
       DecideArc, DecideAbandon, DecidePlace

LEMMA SettlingOffersNothing ==
    ASSUME Inv, NEW w \in Writers, NEW outcome, Settle(w, outcome)
    PROVE  proc'[w].phase # "publishing"
<1>1. proc[w] \in Processes /\ proc'[w] = Settled(proc[w], outcome)
    BY Remembered DEF Settle, Inv, Processed
<1> QED
    BY <1>1, SettledShape

LEMMA OfferedEntry ==
    ASSUME Inv, NEW w \in Writers, NEW entry, NEW movement, NEW asserts, Offer(w, entry, movement, asserts)
    PROVE  proc'[w].offer.entry = entry
<1>1. proc[w] \in Processes /\ proc'[w] = [proc[w] EXCEPT !.phase = "publishing",
                                                !.offer = OfferOf(w, entry, movement, asserts)]
    BY Remembered DEF Offer, OfferOf, Inv, Processed
<1>2. proc'[w].offer = OfferOf(w, entry, movement, asserts)
    BY <1>1 DEF Processes
<1> QED
    BY <1>2, OfferShape

LEMMA SettledRecord ==
    ASSUME Inv, NEW w \in Writers, NEW movement
    PROVE  [Settled(proc[w], "retry") EXCEPT !.source = movement].phase = Settled(proc[w], "retry").phase
<1>1. proc[w] \in Processes
    BY Remembered
<1> QED
    BY <1>1 DEF Settled, Processes, MaxAttempts

(* What is offered about a worktree is what the worktree holds then. *)
THEOREM OffersWitnessWorktrees == Spec => WitnessedContent
<1> DEFINE Witnessed ==
      \A w \in Writers :
         proc[w].phase = "seated" /\ proc'[w].phase = "publishing" =>
            LET e == proc'[w].offer.entry  held == worktree[Subject(w)] IN
            /\ e.kind = "deliver" => e.integration.changeId = held
            /\ e.kind = "attestation" /\ e.data.obligation = Reviewed => <<"change", held>> \in e.data.subject
<1>1. ASSUME Inv, [Next]_vars, NEW w \in Writers, proc[w].phase = "seated", proc'[w].phase = "publishing"
      PROVE  LET e == proc'[w].offer.entry  held == worktree[Subject(w)] IN
             /\ e.kind = "deliver" => e.integration.changeId = held
             /\ e.kind = "attestation" /\ e.data.obligation = Reviewed => <<"change", held>> \in e.data.subject
    <2> DEFINE i == proc[w].intent
               p == proc[w].prep
               held == worktree[Subject(w)]
               e == proc'[w].offer.entry
    <2>1. Decide(w)
        BY <1>1, OnlyDecisionsOffer
    <2>2. \A outcome : ~Settle(w, outcome)
        BY <1>1, SettlingOffersNothing
    <2>3. \A entry, movement, asserts : Offer(w, entry, movement, asserts) => e = entry
        BY <1>1, OfferedEntry
    <2> HIDE DEF e
    <2>4. CASE DecideDeliver(w)
        <3>1. /\ Offer(w, DeliverFact(Ulid(w), Integration(p.predecessor, p.change)), None, {})
              /\ held = p.change
            BY <2>2, <2>4 DEF DecideDeliver, SameWorktreeWitness, Subject
        <3>2. e = DeliverFact(Ulid(w), Integration(p.predecessor, p.change))
            BY <2>3, <3>1
        <3>3. e.kind = "deliver" /\ e.integration.changeId = p.change
            BY <3>2 DEF DeliverFact, Integration
        <3> QED
            BY <3>1, <3>3 DEF e
    <2>5. CASE DecideReview(w)
        <3>1. /\ Offer(w, AttestationFact(Ulid(w), Reviewed,
                              ReviewSubject(state[i.contract].terms.document, p.change), i.verdict), None, {})
              /\ held = p.change
            BY <2>2, <2>5 DEF DecideReview, SameWorktreeWitness, Subject
        <3>2. e = AttestationFact(Ulid(w), Reviewed,
                       ReviewSubject(state[i.contract].terms.document, p.change), i.verdict)
            BY <2>3, <3>1
        <3>3. e.kind = "attestation" /\ <<"change", p.change>> \in e.data.subject
            BY <3>2 DEF AttestationFact, ReviewSubject
        <3> QED
            BY <3>1, <3>3 DEF e
    <2>6. CASE DecideVerify(w)
        <3>1. i.check \in Checks
            BY <1>1, <2>6, Deciding, OperationTyped DEF DecideVerify
        <3>2. Offer(w, AttestationFact(Ulid(w), i.check, VerificationSubject(proc[w].source), i.verdict), None, {})
            BY <2>2, <2>6 DEF DecideVerify
        <3>3. e = AttestationFact(Ulid(w), i.check, VerificationSubject(proc[w].source), i.verdict)
            BY <2>3, <3>2
        <3>4. e.kind = "attestation" /\ e.data.obligation # Reviewed
            BY <3>1, <3>3, ObligationsAssumption DEF AttestationFact
        <3> QED
            BY <3>4 DEF e
    <2>7. CASE DecideBind(w) \/ DecideAmend(w) \/ DecideReintegrate(w) \/ DecideArc(w) \/ DecideAbandon(w)
        <3>1. e.kind \in {"bind", "amend", "reintegrated", "arc", "abandoned"}
            BY <2>2, <2>3, <2>7 DEF DecideBind, DecideAmend, DecideReintegrate, DecideArc, DecideAbandon,
               BindFact, AmendFact, ReintegratedFact, ArcFact, AbandonedFact
        <3> QED
            BY <3>1 DEF e
    <2>8. CASE DecidePlace(w)
        <3>1. ASSUME NEW movement, proc' = [proc EXCEPT ![w] = [Settled(@, "retry") EXCEPT !.source = movement]]
              PROVE  FALSE
            <4>1. Settled(proc[w], "retry").phase # "publishing"
                BY <1>1, Remembered, SettledShape
            <4>2. proc'[w] = [Settled(proc[w], "retry") EXCEPT !.source = movement]
                BY <1>1, <3>1 DEF Inv, Processed
            <4> DEFINE r == Settled(proc[w], "retry")
            <4>3. [r EXCEPT !.source = movement].phase = r.phase
                BY <1>1, SettledRecord
            <4> QED
                BY <1>1, <4>1, <4>2, <4>3
        <3>2. \E movement : Offer(w, ClaimedFact(Ulid(w), state[Subject(w)]), movement, {})
            BY <2>2, <2>8, <3>1 DEF DecidePlace
        <3>3. e.kind = "claimed"
            BY <2>3, <3>2 DEF ClaimedFact
        <3> QED
            BY <3>3 DEF e
    <2> QED
        BY <2>1, <2>4, <2>5, <2>6, <2>7, <2>8 DEF Decide
<1>2. ASSUME Inv, [Next]_vars
      PROVE  [Witnessed]_vars
    BY <1>1, <1>2
<1> QED
    BY <1>2, WritersRemember, PTL DEF Spec, WitnessedContent

(* A live offer is its process's, of the operation that it is busy with. *)
LEMMA OfferOwned ==
    ASSUME Inv, NEW o \in Offers, Committed(o), NEW w \in Writers,
           proc[w].offer # None, proc[w].offer.entry = o.entry
    PROVE  proc[w].phase = "publishing" /\ o = proc[w].offer /\ Novel(proc[w].intent, o)
<1>1. /\ proc[w].phase \in Offering /\ proc[w].offer.entry.entry = <<w, proc[w].op, proc[w].attempt>>
      /\ proc[w].phase = "publishing" => Novel(proc[w].intent, proc[w].offer)
    BY Remembered DEF Local, OfferFits
<1>2. o.entry.entry[1] = w /\ o.entry.entry[2] = proc[w].op
    BY <1>1
<1>3. ASSUME o \in orphans
      PROVE  FALSE
    BY <1>1, <1>2, <1>3 DEF Inv, Orphaned, OrphanFits, Offering
<1>4. PICK x \in Writers : proc[x].phase = "publishing" /\ o = proc[x].offer
    BY <1>3 DEF Committed
<1>5. o.entry.entry = <<x, proc[x].op, proc[x].attempt>>
    BY <1>4, Remembered DEF Local, OfferFits, Offering
<1>6. x = w
    BY <1>2, <1>5
<1> QED
    BY <1>1, <1>4, <1>6

LEMMA AttestationShape ==
    ASSUME NEW u, NEW about, NEW subject, NEW verdict
    PROVE  LET e == AttestationFact(u, about, subject, verdict) IN
           /\ e.kind = "attestation" /\ e.data.obligation = about /\ e.data.subject = subject
           /\ e.data.verdict = verdict
BY DEF AttestationFact

(* An offered testimony of a check is news. *)
LEMMA TestimonyIsNews ==
    ASSUME NEW o, Decided(o), o.entry.kind = "attestation", o.entry.data.obligation \in Checks
    PROVE  ~ReusesTestimony(o.contract, o.entry.data.obligation, o.entry.data.subject, o.entry.data.verdict)
<1> DEFINE c == o.contract
           u == o.entry.entry
<1>1. DecidedOn(o, c, u)
    BY DEF Decided
<1>2. ASSUME NEW change, NEW verdict, Plain(o, AttestationFact(u, Reviewed, ReviewSubject(state[c].terms.document, change), verdict))
      PROVE  FALSE
    <2>1. o.entry.data.obligation = Reviewed
        BY <1>2, AttestationShape DEF Plain
    <2> QED
        BY <2>1, ObligationsAssumption
<1>3. ASSUME NEW check, NEW subject, NEW verdict, Plain(o, AttestationFact(u, check, subject, verdict)),
             ~ReusesTestimony(c, check, subject, verdict)
      PROVE  ~ReusesTestimony(c, o.entry.data.obligation, o.entry.data.subject, o.entry.data.verdict)
    <2>1. /\ o.entry.data.obligation = check /\ o.entry.data.subject = subject
          /\ o.entry.data.verdict = verdict
        BY <1>3, AttestationShape DEF Plain
    <2> QED
        BY <1>3, <2>1
<1>4. \A terms : ~Plain(o, AmendFact(u, terms))
    BY DEF Plain, AmendFact
<1>5. \A start, target, terms : ~Plain(o, BindFact(u, start, target, terms))
    BY DEF Plain, BindFact
<1>6. \A integration : ~Plain(o, DeliverFact(u, integration))
    BY DEF Plain, DeliverFact
<1>7. \A p, q : ~Plain(o, ReintegratedFact(u, p, q))
    BY DEF Plain, ReintegratedFact
<1>8. ~Plain(o, ArcFact(u, state[c])) /\ ~Plain(o, AbandonedFact(u)) /\ o.entry # ClaimedFact(u, state[c])
    BY DEF Plain, ArcFact, AbandonedFact, ClaimedFact
<1> HIDE DEF c, u
<1>9. ~ReusesTestimony(c, o.entry.data.obligation, o.entry.data.subject, o.entry.data.verdict)
    BY <1>1, <1>2, <1>3, <1>4, <1>5, <1>6, <1>7, <1>8 DEF DecidedOn
<1> QED
    BY <1>9 DEF c

(* Work already admitted is not admitted again, and no operation is        *)
(* admitted twice.                                                         *)
THEOREM NothingIsAdmittedTwice == Spec => NoRedundantFact
<1> DEFINE Fresh(c) ==
      journal'[c] # journal[c] /\ state[c] # None =>
         /\ Admitted(c).kind = "deliver" /\ state[c].delivery # None
              /\ (\E w \in Writers : /\ proc[w].offer # None /\ proc[w].offer.entry = Admitted(c)
                                     /\ ~proc[w].intent.overwrite)
              => Admitted(c).integration.changeId # state[c].integration.changeId
         /\ Admitted(c).kind = "attestation" /\ Admitted(c).data.obligation \in Checks
              => ~ReusesTestimony(c, Admitted(c).data.obligation, Admitted(c).data.subject,
                                  Admitted(c).data.verdict)
<1>1. ASSUME Inv, NEW o \in Offers, Committed(o), NEW c \in Contracts
      PROVE  Fresh(c)
    <2>1. /\ o.contract \in Contracts /\ journal' = [journal EXCEPT ![o.contract] = Append(@, o.entry)]
          /\ Standing(o) /\ Commit(o)
        BY <1>1, CommitsOnce DEF Committed
    <2>2. /\ \A d \in Contracts \ {o.contract} : journal'[d] = journal[d]
          /\ Len(journal'[o.contract]) = Len(journal[o.contract]) + 1
          /\ journal'[o.contract][Len(journal[o.contract]) + 1] = o.entry
        BY <1>1, <2>1, Appended DEF Inv
    <2>3. SUFFICES ASSUME c = o.contract
                   PROVE  Fresh(c)
        BY <2>2
    <2>4. Admitted(c) = o.entry
        BY <2>2, <2>3 DEF Admitted
    <2>5. o.seen = root /\ Decided(o)
        BY <2>1 DEF Commit, Premise, Standing
    <2>6. ASSUME o.entry.kind = "deliver", state[c].delivery # None,
                 NEW w \in Writers, proc[w].offer # None, proc[w].offer.entry = o.entry,
                 ~proc[w].intent.overwrite
          PROVE  o.entry.integration.changeId # state[c].integration.changeId
        <3>1. Novel(proc[w].intent, o)
            BY <1>1, <2>6, OfferOwned
        <3> QED
            BY <2>3, <2>5, <2>6, <3>1 DEF Novel
    <2>7. ASSUME o.entry.kind = "attestation", o.entry.data.obligation \in Checks
          PROVE  ~ReusesTestimony(c, o.entry.data.obligation, o.entry.data.subject, o.entry.data.verdict)
        BY <2>3, <2>5, <2>7, TestimonyIsNews
    <2> QED
        BY <2>4, <2>6, <2>7
<1>2. ASSUME Inv, [Next]_vars
      PROVE  AtMostOnce' /\ \A c \in Contracts : Fresh(c)
    <2>1. AtMostOnce'
        BY <1>2, NextInv DEF Inv
    <2>2. CASE UNCHANGED journal
        BY <2>1, <2>2
    <2>3. CASE \E o \in Offers : Committed(o)
        BY <1>1, <1>2, <2>1, <2>3
    <2> QED
        BY <1>2, <2>2, <2>3, LedgerMoves DEF ledgerVars
<1> QED
    BY <1>2, WritersRemember, PTL DEF Spec, NoRedundantFact
=============================================================================
