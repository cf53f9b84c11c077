------------------------ MODULE ContractLedgerProofs ------------------------
(***************************************************************************)
(* Theorems about ContractLedger, for every value of its constants.        *)
(*                                                                         *)
(* Every fact is first brought into one shape (LEMMA FactOffered): some    *)
(* entry that the verb's decision allows is admitted.  Each invariant is   *)
(* then shown to survive the admission of any such entry, and the moves of *)
(* the world.                                                              *)
(***************************************************************************)
EXTENDS ContractLedger, TLAPS

(* An integration's snapshot is its change on top of its predecessor. *)
Extends(integration) == integration.snapshot = Append(integration.predecessor, integration.changeId)

(* Testimony has the form of subject that its obligation calls for. *)
SubjectFits(testimony) ==
    IF testimony.obligation = Reviewed
    THEN \E document \in Documents, change \in Changes : testimony.subject = ReviewSubject(document, change)
    ELSE \E snapshot \in Commits : testimony.subject = VerificationSubject(snapshot)

(* What the decisions guarantee of the entry e that they offer to c. *)
Offered(c, e, movement) ==
    /\ e \in Facts(Ulids)
    /\ e.kind = "bind" => /\ state[c] = None
                          /\ c \notin e.terms.after
                          /\ Known(state, e.terms.after)
    /\ e.kind # "bind" => Active(state, c)
    /\ e.kind = "amend" => Known(state, e.terms.after) /\ ~PrerequisitesReach(state, c, e.terms.after)
    /\ e.kind = "deliver" => Extends(e.integration)
    /\ e.kind = "reintegrated" => /\ state[c].delivery # None
                                  /\ e.snapshot = Append(e.predecessor, state[c].integration.changeId)
    /\ e.kind = "attestation" => SubjectFits(e.data)
    /\ e.kind = "arc" => e.seq = state[c].arc + 1
    /\ e.kind = "claimed" => /\ MayPlace(state, c)
                             /\ e.delivery = state[c].delivery
                             /\ movement = Movement(state[c])
    /\ e.kind # "claimed" => movement = None

(* A delivered contract has an integration, made of its change. *)
Integrated ==
    \A c \in Contracts : state[c] # None /\ state[c].delivery # None =>
        state[c].integration \in Integrations /\ Extends(state[c].integration)

(* A contract exists exactly when its journal does. *)
JournalFolded == \A c \in Contracts : state[c] = None <=> journal[c] = <<>>

WellFormed == TypeOK /\ Integrated /\ JournalFolded

----------------------------------------------------------------------------
(* Types. *)

LEMMA FreshUlid ==
    ASSUME NEW c \in Contracts, NEW u \in Fresh(c)
    PROVE  u \in Ulids
BY LedgerAssumption DEF Fresh

LEMMA StartTyped ==
    ASSUME TypeOK, NEW target \in Targets \cup {None}, ref[StartRef(target)] # None
    PROVE  ref[StartRef(target)] \in Commits
BY LedgerAssumption DEF TypeOK, StartRef, Targets

LEMMA HeadsTyped ==
    ASSUME TypeOK, NEW t \in Targets
    PROVE  Heads(t) \subseteq Commits
<1>1. CASE ref[t] = None
    BY <1>1 DEF Heads
<1>2. CASE ref[t] # None
    <2>1. ref[t] \in Seq(Changes \cup {Foreign})
        BY <1>2 DEF TypeOK, Commits
    <2>2. \A n \in 0..Len(ref[t]) : SubSeq(ref[t], 1, n) \in Seq(Changes \cup {Foreign})
        BY <2>1
    <2> QED
        BY <1>2, <2>2 DEF Heads, Commits
<1> QED
    BY <1>1, <1>2

LEMMA PredecessorsTyped ==
    ASSUME TypeOK, NEW c \in Contracts, state[c] # None
    PROVE  Predecessors(c) \subseteq Commits
<1>1. state[c] \in States(Ulids)
    BY DEF TypeOK
<1> QED
    BY <1>1, HeadsTyped DEF Predecessors, States

LEMMA AppendTyped ==
    ASSUME NEW s \in Commits, NEW x \in Changes
    PROVE  Append(s, x) \in Commits
BY DEF Commits

LEMMA CommitsExist ==
    ASSUME NEW q \in Commits
    PROVE  q # None
BY LedgerAssumption DEF NoneIsAbsence

LEMMA MovementTyped ==
    ASSUME NEW s \in States(Ulids), s.integration \in Integrations
    PROVE  Movement(s) \in Movements \cup {None}
BY DEF Movement, Movements, States, Integrations

(* The fold, case by case. *)
LEMMA FoldCases ==
    ASSUME NEW s, NEW e
    PROVE  /\ e.kind = "amend" => FoldEntry(s, e) = [s EXCEPT !.terms = e.terms]
           /\ e.kind = "deliver" =>
                 FoldEntry(s, e) = [s EXCEPT !.delivery = e.entry, !.integration = e.integration]
           /\ e.kind = "reintegrated" =>
                 FoldEntry(s, e) = [s EXCEPT !.integration.predecessor = e.predecessor,
                                             !.integration.snapshot = e.snapshot]
           /\ e.kind = "attestation" => FoldEntry(s, e) = [s EXCEPT !.attestations = Append(@, e.data)]
           /\ e.kind = "arc" => FoldEntry(s, e) = [s EXCEPT !.arc = e.seq]
           /\ e.kind = "claimed" => FoldEntry(s, e) = [s EXCEPT !.terminal = "claimed"]
           /\ e.kind = "abandoned" => FoldEntry(s, e) = [s EXCEPT !.terminal = "abandoned"]
BY Zenon DEF FoldEntry

LEMMA FactKinds ==
    ASSUME NEW e \in Facts(Ulids)
    PROVE  e.kind \in {"bind", "amend", "deliver", "reintegrated", "attestation", "claimed", "arc", "abandoned"}
BY DEF Facts

LEMMA FactFields ==
    ASSUME NEW e \in Facts(Ulids)
    PROVE  /\ e.entry \in Ulids
           /\ e.kind = "bind" => e.start \in Commits /\ e.target \in Targets \cup {None}
           /\ e.kind \in {"bind", "amend"} => e.terms \in Terms
           /\ e.kind = "deliver" => e.integration \in Integrations
           /\ e.kind = "reintegrated" => e.predecessor \in Commits /\ e.snapshot \in Commits
           /\ e.kind = "attestation" => e.data \in Attestations
           /\ e.kind = "claimed" => e.delivery \in Ulids
           /\ e.kind = "arc" => e.seq \in Nat
BY DEF Facts

(* The fold keeps a folded state a folded state. *)
LEMMA FoldTyped ==
    ASSUME NEW s \in States(Ulids), NEW e \in Facts(Ulids),
           e.kind # "bind",
           e.kind = "reintegrated" => s.integration \in Integrations
    PROVE  FoldEntry(s, e) \in States(Ulids)
<1>1. CASE e.kind = "amend"
    <2>1. FoldEntry(s, e) = [s EXCEPT !.terms = e.terms]
        BY <1>1, FoldCases
    <2>2. [s EXCEPT !.terms = e.terms] \in States(Ulids)
        BY <1>1, FactFields DEF States
    <2> QED
        BY <2>1, <2>2
<1>2. CASE e.kind = "deliver"
    <2>1. FoldEntry(s, e) = [s EXCEPT !.delivery = e.entry, !.integration = e.integration]
        BY <1>2, FoldCases
    <2>2. [s EXCEPT !.delivery = e.entry, !.integration = e.integration] \in States(Ulids)
        BY <1>2, FactFields DEF States
    <2> QED
        BY <2>1, <2>2
<1>3. CASE e.kind = "reintegrated"
    <2>1. FoldEntry(s, e) = [s EXCEPT !.integration.predecessor = e.predecessor, !.integration.snapshot = e.snapshot]
        BY <1>3, FoldCases
    <2>2. [s EXCEPT !.integration.predecessor = e.predecessor, !.integration.snapshot = e.snapshot] \in States(Ulids)
        BY <1>3, FactFields DEF States, Integrations
    <2> QED
        BY <2>1, <2>2
<1>4. CASE e.kind = "attestation"
    <2>1. FoldEntry(s, e) = [s EXCEPT !.attestations = Append(@, e.data)]
        BY <1>4, FoldCases
    <2>2. [s EXCEPT !.attestations = Append(@, e.data)] \in States(Ulids)
        BY <1>4, FactFields DEF States
    <2> QED
        BY <2>1, <2>2
<1>5. CASE e.kind = "arc"
    <2>1. FoldEntry(s, e) = [s EXCEPT !.arc = e.seq]
        BY <1>5, FoldCases
    <2>2. [s EXCEPT !.arc = e.seq] \in States(Ulids)
        BY <1>5, FactFields DEF States
    <2> QED
        BY <2>1, <2>2
<1>6. CASE e.kind = "claimed"
    <2>1. FoldEntry(s, e) = [s EXCEPT !.terminal = "claimed"]
        BY <1>6, FoldCases
    <2>2. [s EXCEPT !.terminal = "claimed"] \in States(Ulids)
        BY DEF States
    <2> QED
        BY <2>1, <2>2
<1>7. CASE e.kind = "abandoned"
    <2>1. FoldEntry(s, e) = [s EXCEPT !.terminal = "abandoned"]
        BY <1>7, FoldCases
    <2>2. [s EXCEPT !.terminal = "abandoned"] \in States(Ulids)
        BY DEF States
    <2> QED
        BY <2>1, <2>2
<1> QED
    BY <1>1, <1>2, <1>3, <1>4, <1>5, <1>6, <1>7, FactKinds

LEMMA BindTyped ==
    ASSUME NEW e \in Facts(Ulids), e.kind = "bind"
    PROVE  StateFromBind(e) \in States(Ulids)
BY DEF StateFromBind, Facts, States

LEMMA FactsTyped ==
    ASSUME NEW u \in Ulids
    PROVE  /\ \A start \in Commits, target \in Targets \cup {None}, terms \in Terms :
                 BindFact(u, start, target, terms) \in Facts(Ulids)
           /\ \A terms \in Terms : AmendFact(u, terms) \in Facts(Ulids)
           /\ \A integration \in Integrations : DeliverFact(u, integration) \in Facts(Ulids)
           /\ \A p, q \in Commits : ReintegratedFact(u, p, q) \in Facts(Ulids)
           /\ \A o \in Obligations, subject \in SUBSET Keys, verdict \in Verdicts :
                 AttestationFact(u, o, subject, verdict) \in Facts(Ulids)
           /\ \A s \in States(Ulids) : s.delivery # None => ClaimedFact(u, s) \in Facts(Ulids)
           /\ \A s \in States(Ulids) : ArcFact(u, s) \in Facts(Ulids)
           /\ AbandonedFact(u) \in Facts(Ulids)
<1>1. \A start \in Commits, target \in Targets \cup {None}, terms \in Terms :
         BindFact(u, start, target, terms) \in Facts(Ulids)
    BY DEF BindFact, Facts
<1>2. \A terms \in Terms : AmendFact(u, terms) \in Facts(Ulids)
    BY DEF AmendFact, Facts
<1>3. \A integration \in Integrations : DeliverFact(u, integration) \in Facts(Ulids)
    BY DEF DeliverFact, Facts
<1>4. \A p, q \in Commits : ReintegratedFact(u, p, q) \in Facts(Ulids)
    BY DEF ReintegratedFact, Facts
<1>5. \A o \in Obligations, subject \in SUBSET Keys, verdict \in Verdicts :
         AttestationFact(u, o, subject, verdict) \in Facts(Ulids)
    BY DEF AttestationFact, Facts, Attestations
<1>6. \A s \in States(Ulids) : s.delivery # None => ClaimedFact(u, s) \in Facts(Ulids)
    BY DEF ClaimedFact, Facts, States
<1>7. \A s \in States(Ulids) : ArcFact(u, s) \in Facts(Ulids)
    BY DEF ArcFact, Facts, States
<1>8. AbandonedFact(u) \in Facts(Ulids)
    BY DEF AbandonedFact, Facts
<1> QED
    BY <1>1, <1>2, <1>3, <1>4, <1>5, <1>6, <1>7, <1>8

LEMMA SubjectsTyped ==
    /\ \A d \in Documents, x \in Changes : ReviewSubject(d, x) \in SUBSET Keys
    /\ \A q \in Commits : VerificationSubject(q) \in SUBSET Keys
BY DEF ReviewSubject, VerificationSubject, Keys

LEMMA IntegrationTyped ==
    ASSUME NEW p \in Commits, NEW x \in Changes
    PROVE  Integration(p, x) \in Integrations /\ Extends(Integration(p, x))
BY AppendTyped DEF Integration, Integrations, Extends

LEMMA StateTyped ==
    ASSUME TypeOK, NEW c \in Contracts, state[c] # None
    PROVE  state[c] \in States(Ulids)
BY DEF TypeOK

LEMMA TermsTyped ==
    ASSUME NEW terms \in Terms
    PROVE  terms.document \in Documents /\ terms.after \subseteq Contracts
BY TermsAssumption

----------------------------------------------------------------------------
(* Every fact of the ledger is the admission of an entry that was offered. *)

LEMMA FactOffered ==
    ASSUME WellFormed, NEW c \in Contracts, Fact(c)
    PROVE  \E e, movement : Offered(c, e, movement) /\ Admit(c, e, movement)
<1> USE DEF WellFormed
<1>1. ASSUME NEW target \in Targets \cup {None}, NEW terms \in Terms, Bind(c, target, terms)
      PROVE  \E e, movement : Offered(c, e, movement) /\ Admit(c, e, movement)
    <2>1. PICK u \in Fresh(c) : Admit(c, BindFact(u, ref[StartRef(target)], target, terms), None)
        BY <1>1 DEF Bind
    <2> DEFINE e == BindFact(u, ref[StartRef(target)], target, terms)
    <2>2. e \in Facts(Ulids)
        BY <1>1, FreshUlid, StartTyped, FactsTyped DEF Bind
    <2>3. e.kind = "bind" /\ e.terms = terms
        BY DEF BindFact
    <2>4. state[c] = None /\ c \notin terms.after /\ Known(state, terms.after)
        BY <1>1 DEF Bind, MayBind
    <2>5. Offered(c, e, None)
        BY <2>2, <2>3, <2>4 DEF Offered
    <2> QED
        BY <2>1, <2>5
<1>2. ASSUME NEW terms \in Terms, Amend(c, terms)
      PROVE  \E e, movement : Offered(c, e, movement) /\ Admit(c, e, movement)
    <2>1. PICK u \in Fresh(c) : Admit(c, AmendFact(u, terms), None)
        BY <1>2 DEF Amend
    <2> DEFINE e == AmendFact(u, terms)
    <2>2. e \in Facts(Ulids)
        BY FreshUlid, FactsTyped
    <2>3. e.kind = "amend" /\ e.terms = terms
        BY DEF AmendFact
    <2>4. Active(state, c) /\ Known(state, terms.after) /\ ~PrerequisitesReach(state, c, terms.after)
        BY <1>2 DEF Amend, MayAmend
    <2>5. Offered(c, e, None)
        BY <2>2, <2>3, <2>4 DEF Offered
    <2> QED
        BY <2>1, <2>5
<1>3. ASSUME NEW x \in Changes, Deliver(c, x)
      PROVE  \E e, movement : Offered(c, e, movement) /\ Admit(c, e, movement)
    <2>1. Active(state, c)
        BY <1>3 DEF Deliver
    <2>2. PICK u \in Fresh(c), p \in Predecessors(c) : Admit(c, DeliverFact(u, Integration(p, x)), None)
        BY <1>3 DEF Deliver
    <2> DEFINE e == DeliverFact(u, Integration(p, x))
    <2>3. p \in Commits
        BY <2>1, PredecessorsTyped DEF Active
    <2>4. e \in Facts(Ulids) /\ Extends(Integration(p, x))
        BY <2>3, FreshUlid, FactsTyped, IntegrationTyped
    <2>5. e.kind = "deliver" /\ e.integration = Integration(p, x)
        BY DEF DeliverFact
    <2>6. Offered(c, e, None)
        BY <2>1, <2>4, <2>5 DEF Offered
    <2> QED
        BY <2>2, <2>6
<1>4. ASSUME Reintegrate(c)
      PROVE  \E e, movement : Offered(c, e, movement) /\ Admit(c, e, movement)
    <2> DEFINE head == ref[state[c].target]
               snapshot == Append(head, state[c].integration.changeId)
    <2>1. Active(state, c) /\ state[c].delivery # None /\ state[c].target # None /\ head # None
        BY <1>4 DEF Reintegrate, MayReintegrate
    <2>2. PICK u \in Fresh(c) : Admit(c, ReintegratedFact(u, head, snapshot), None)
        BY <1>4 DEF Reintegrate
    <2> DEFINE e == ReintegratedFact(u, head, snapshot)
    <2>3. state[c] \in States(Ulids) /\ state[c].integration \in Integrations
        BY <2>1, StateTyped DEF Active, Integrated
    <2>4. head \in Commits
        BY <2>1, <2>3 DEF TypeOK, States
    <2>5. snapshot \in Commits
        BY <2>3, <2>4, AppendTyped DEF Integrations
    <2>6. e \in Facts(Ulids)
        BY <2>4, <2>5, FreshUlid, FactsTyped
    <2>7. e.kind = "reintegrated" /\ e.predecessor = head /\ e.snapshot = snapshot
        BY DEF ReintegratedFact
    <2>8. Offered(c, e, None)
        BY <2>1, <2>6, <2>7 DEF Offered
    <2> QED
        BY <2>2, <2>8
<1>5. ASSUME NEW x \in Changes, NEW verdict \in Verdicts, Review(c, x, verdict)
      PROVE  \E e, movement : Offered(c, e, movement) /\ Admit(c, e, movement)
    <2> DEFINE subject == ReviewSubject(state[c].terms.document, x)
    <2>1. Active(state, c)
        BY <1>5 DEF Review
    <2>2. PICK u \in Fresh(c) : Admit(c, AttestationFact(u, Reviewed, subject, verdict), None)
        BY <1>5 DEF Review
    <2> DEFINE e == AttestationFact(u, Reviewed, subject, verdict)
    <2>3. state[c].terms \in Terms
        BY <2>1, StateTyped DEF Active, States, WellFormed
    <2>4. subject \in SUBSET Keys
        BY <2>3, TermsTyped, SubjectsTyped
    <2>5. e \in Facts(Ulids)
        BY <2>4, FreshUlid, FactsTyped DEF Obligations
    <2>6. e.kind = "attestation" /\ e.data.obligation = Reviewed /\ e.data.subject = subject
        BY DEF AttestationFact
    <2>7. SubjectFits(e.data)
        BY <2>3, <2>6, TermsTyped DEF SubjectFits
    <2>8. Offered(c, e, None)
        BY <2>1, <2>5, <2>6, <2>7 DEF Offered
    <2> QED
        BY <2>2, <2>8
<1>6. ASSUME NEW check \in Checks, NEW x \in Changes, NEW verdict \in Verdicts, Verify(c, check, x, verdict)
      PROVE  \E e, movement : Offered(c, e, movement) /\ Admit(c, e, movement)
    <2>1. Active(state, c)
        BY <1>6 DEF Verify
    <2>2. PICK u \in Fresh(c), p \in Predecessors(c) :
             Admit(c, AttestationFact(u, check, VerificationSubject(Append(p, x)), verdict), None)
        BY <1>6 DEF Verify
    <2> DEFINE e == AttestationFact(u, check, VerificationSubject(Append(p, x)), verdict)
    <2>3. Append(p, x) \in Commits
        BY <2>1, PredecessorsTyped, AppendTyped DEF Active
    <2>4. e \in Facts(Ulids)
        BY <2>3, FreshUlid, FactsTyped, SubjectsTyped DEF Obligations
    <2>5. /\ e.kind = "attestation" /\ e.data.obligation = check
          /\ e.data.subject = VerificationSubject(Append(p, x))
        BY DEF AttestationFact
    <2>6. SubjectFits(e.data)
        BY <2>3, <2>5, ObligationsAssumption DEF SubjectFits
    <2>7. Offered(c, e, None)
        BY <2>1, <2>4, <2>5, <2>6 DEF Offered
    <2> QED
        BY <2>2, <2>7
<1>7. ASSUME Arc(c)
      PROVE  \E e, movement : Offered(c, e, movement) /\ Admit(c, e, movement)
    <2>1. Active(state, c)
        BY <1>7 DEF Arc
    <2>2. PICK u \in Fresh(c) : Admit(c, ArcFact(u, state[c]), None)
        BY <1>7 DEF Arc
    <2> DEFINE e == ArcFact(u, state[c])
    <2>3. e \in Facts(Ulids)
        BY <2>1, FreshUlid, FactsTyped, StateTyped DEF Active
    <2>4. e.kind = "arc" /\ e.seq = state[c].arc + 1
        BY DEF ArcFact
    <2>5. Offered(c, e, None)
        BY <2>1, <2>3, <2>4 DEF Offered
    <2> QED
        BY <2>2, <2>5
<1>8. ASSUME Abandon(c)
      PROVE  \E e, movement : Offered(c, e, movement) /\ Admit(c, e, movement)
    <2>1. Active(state, c)
        BY <1>8 DEF Abandon
    <2>2. PICK u \in Fresh(c) : Admit(c, AbandonedFact(u), None)
        BY <1>8 DEF Abandon
    <2> DEFINE e == AbandonedFact(u)
    <2>3. e \in Facts(Ulids) /\ e.kind = "abandoned"
        BY FreshUlid, FactsTyped DEF AbandonedFact
    <2>4. Offered(c, e, None)
        BY <2>1, <2>3 DEF Offered
    <2> QED
        BY <2>2, <2>4
<1>9. ASSUME Place(c)
      PROVE  \E e, movement : Offered(c, e, movement) /\ Admit(c, e, movement)
    <2>1. Active(state, c) /\ state[c].delivery # None /\ MayPlace(state, c)
        BY <1>9 DEF Place, MayPlace
    <2>2. PICK u \in Fresh(c) : Admit(c, ClaimedFact(u, state[c]), Movement(state[c]))
        BY <1>9 DEF Place
    <2> DEFINE e == ClaimedFact(u, state[c])
    <2>3. e \in Facts(Ulids)
        BY <2>1, FreshUlid, FactsTyped, StateTyped DEF Active
    <2>4. e.kind = "claimed" /\ e.delivery = state[c].delivery
        BY DEF ClaimedFact
    <2>5. Offered(c, e, Movement(state[c]))
        BY <2>1, <2>3, <2>4 DEF Offered
    <2> QED
        BY <2>2, <2>5
<1> QED
    BY <1>1, <1>2, <1>3, <1>4, <1>5, <1>6, <1>7, <1>8, <1>9 DEF Fact

----------------------------------------------------------------------------
(* What the admission of an offered entry changes. *)

LEMMA FoldFields ==
    ASSUME NEW s \in States(Ulids), NEW e \in Facts(Ulids), e.kind # "bind"
    PROVE  /\ FoldEntry(s, e).target = s.target /\ FoldEntry(s, e).start = s.start
           /\ e.kind = "amend" => FoldEntry(s, e).terms = e.terms
           /\ e.kind # "amend" => FoldEntry(s, e).terms = s.terms
           /\ e.kind = "deliver" => /\ FoldEntry(s, e).delivery = e.entry
                                    /\ FoldEntry(s, e).integration = e.integration
           /\ e.kind = "reintegrated" =>
                 FoldEntry(s, e).integration = [s.integration EXCEPT !.predecessor = e.predecessor,
                                                                     !.snapshot = e.snapshot]
           /\ e.kind # "deliver" => FoldEntry(s, e).delivery = s.delivery
           /\ e.kind \notin {"deliver", "reintegrated"} => FoldEntry(s, e).integration = s.integration
           /\ e.kind \in {"claimed", "abandoned"} => FoldEntry(s, e).terminal = e.kind
           /\ e.kind \notin {"claimed", "abandoned"} => FoldEntry(s, e).terminal = s.terminal
<1>1. CASE e.kind = "amend"
    <2>1. FoldEntry(s, e) = [s EXCEPT !.terms = e.terms]
        BY <1>1, FoldCases
    <2> QED
        BY <1>1, <2>1 DEF States
<1>2. CASE e.kind = "deliver"
    <2>1. FoldEntry(s, e) = [s EXCEPT !.delivery = e.entry, !.integration = e.integration]
        BY <1>2, FoldCases
    <2> QED
        BY <1>2, <2>1 DEF States
<1>3. CASE e.kind = "reintegrated"
    <2>1. FoldEntry(s, e) = [s EXCEPT !.integration.predecessor = e.predecessor,
                                      !.integration.snapshot = e.snapshot]
        BY <1>3, FoldCases
    <2> QED
        BY <1>3, <2>1 DEF States
<1>4. CASE e.kind = "attestation"
    <2>1. FoldEntry(s, e) = [s EXCEPT !.attestations = Append(@, e.data)]
        BY <1>4, FoldCases
    <2> QED
        BY <1>4, <2>1 DEF States
<1>5. CASE e.kind = "arc"
    <2>1. FoldEntry(s, e) = [s EXCEPT !.arc = e.seq]
        BY <1>5, FoldCases
    <2> QED
        BY <1>5, <2>1 DEF States
<1>6. CASE e.kind = "claimed"
    <2>1. FoldEntry(s, e) = [s EXCEPT !.terminal = "claimed"]
        BY <1>6, FoldCases
    <2> QED
        BY <1>6, <2>1 DEF States
<1>7. CASE e.kind = "abandoned"
    <2>1. FoldEntry(s, e) = [s EXCEPT !.terminal = "abandoned"]
        BY <1>7, FoldCases
    <2> QED
        BY <1>7, <2>1 DEF States
<1> QED
    BY <1>1, <1>2, <1>3, <1>4, <1>5, <1>6, <1>7, FactKinds

LEMMA Admission ==
    ASSUME WellFormed, NEW c \in Contracts, NEW e, NEW movement,
           Offered(c, e, movement), Admit(c, e, movement)
    PROVE  /\ e \in Facts(Ulids)
           /\ journal' = [journal EXCEPT ![c] = Append(@, e)]
           /\ state' \in [Contracts -> States(Ulids) \cup {None}]
           /\ \A d \in Contracts \ {c} : state'[d] = state[d] /\ journal'[d] = journal[d]
           /\ state'[c] \in States(Ulids) /\ state'[c] # None
           /\ e.kind = "bind" => state[c] = None /\ state'[c] = StateFromBind(e)
           /\ e.kind # "bind" => /\ state[c] \in States(Ulids) /\ Active(state, c)
                                 /\ state'[c] = FoldEntry(state[c], e)
           /\ e.kind # "claimed" => ref' = ref
<1> USE DEF WellFormed
<1>1. /\ e \in Facts(Ulids)
      /\ e.kind = "bind" => state[c] = None
      /\ e.kind # "bind" => Active(state, c)
      /\ e.kind = "reintegrated" => state[c].delivery # None
      /\ e.kind # "claimed" => movement = None
    BY DEF Offered
<1>2. /\ journal' = [journal EXCEPT ![c] = Append(@, e)]
      /\ state' = [state EXCEPT ![c] = IF @ = None THEN StateFromBind(e) ELSE FoldEntry(@, e)]
    BY DEF Admit
<1>3. e.kind # "bind" => state[c] # None /\ state[c] \in States(Ulids)
    BY <1>1, StateTyped DEF Active
<1>4. /\ e.kind = "bind" => state'[c] = StateFromBind(e)
      /\ e.kind # "bind" => state'[c] = FoldEntry(state[c], e)
    BY <1>1, <1>2, <1>3 DEF TypeOK
<1>5. CASE e.kind = "bind"
    <2>1. state'[c] \in States(Ulids)
        BY <1>1, <1>4, <1>5, BindTyped
    <2> QED
        BY <1>1, <1>2, <1>4, <1>5, <2>1, LedgerAssumption DEF TypeOK, Admit, NoneIsAbsence
<1>6. CASE e.kind # "bind"
    <2>1. e.kind = "reintegrated" => state[c].integration \in Integrations
        BY <1>1, <1>3 DEF Integrated
    <2>2. state'[c] \in States(Ulids)
        BY <1>1, <1>3, <1>4, <1>6, <2>1, FoldTyped
    <2> QED
        BY <1>1, <1>2, <1>3, <1>4, <1>6, <2>2, LedgerAssumption DEF TypeOK, Admit, NoneIsAbsence
<1> QED
    BY <1>5, <1>6

(* What the world changes: it advances a ref, or gives one to a contract. *)
LEMMA Worldly ==
    ASSUME WellFormed, World
    PROVE  /\ journal' = journal /\ state' = state
           /\ ref' \in [Targets -> Commits \cup {None}]
           /\ \A t \in Targets : ref[t] # None => ref'[t] = ref[t] \/ ref'[t] = Append(ref[t], Foreign)
<1> USE DEF WellFormed, TypeOK
<1>1. ASSUME NEW t \in Targets, ForeignCommit(t)
      PROVE  /\ journal' = journal /\ state' = state
             /\ ref' \in [Targets -> Commits \cup {None}]
             /\ \A q \in Targets : ref[q] # None => ref'[q] = ref[q] \/ ref'[q] = Append(ref[q], Foreign)
    <2>1. ref[t] \in Commits /\ Append(ref[t], Foreign) \in Commits
        BY <1>1 DEF ForeignCommit, Commits
    <2> QED
        BY <1>1, <2>1 DEF ForeignCommit
<1>2. ASSUME NEW c \in Contracts, Provision(c)
      PROVE  /\ journal' = journal /\ state' = state
             /\ ref' \in [Targets -> Commits \cup {None}]
             /\ \A q \in Targets : ref[q] # None => ref'[q] = ref[q] \/ ref'[q] = Append(ref[q], Foreign)
    <2>1. state[c] \in States(Ulids) /\ state[c].start \in Commits
        BY <1>2, StateTyped DEF Provision, Active, States
    <2>2. c \in Targets /\ ref' = [ref EXCEPT ![c] = state[c].start] /\ ref[c] = None
        BY <1>2 DEF Provision, Targets
    <2> QED
        BY <1>2, <2>1, <2>2 DEF Provision
<1> QED
    BY <1>1, <1>2 DEF World

----------------------------------------------------------------------------
(* Type correctness. *)

LEMMA InitWellFormed == Init => WellFormed
<1> SUFFICES ASSUME Init PROVE WellFormed
    OBVIOUS
<1>1. ref \in [Targets -> Commits \cup {None}]
    BY DEF Init, InitRef, Commits
<1> QED
    BY <1>1 DEF Init, WellFormed, TypeOK, Integrated, JournalFolded

LEMMA AdmissionWellFormed ==
    ASSUME WellFormed, NEW c \in Contracts, NEW e, NEW movement,
           Offered(c, e, movement), Admit(c, e, movement)
    PROVE  WellFormed'
<1> USE DEF WellFormed
<1>1. journal' \in [Contracts -> Seq(Facts(Ulids))]
    <2>1. e \in Facts(Ulids) /\ journal' = [journal EXCEPT ![c] = Append(@, e)]
        BY Admission
    <2>2. journal \in [Contracts -> Seq(Facts(Ulids))]
        BY DEF TypeOK
    <2> QED
        BY <2>1, <2>2
<1>2. state' \in [Contracts -> States(Ulids) \cup {None}]
    BY Admission
<1>3. ref' \in [Targets -> Commits \cup {None}]
    <2>1. CASE e.kind # "claimed"
        BY <2>1, Admission DEF TypeOK
    <2>2. CASE e.kind = "claimed"
        <3>1. /\ state[c] \in States(Ulids) /\ state[c].delivery # None /\ state[c] # None
              /\ movement = Movement(state[c])
            BY <2>2, Admission DEF Offered, MayPlace, Active
        <3>2. movement \in Movements \cup {None}
            BY <3>1, MovementTyped DEF Integrated
        <3> QED
            BY <3>2 DEF Admit, Movements, TypeOK
    <2> QED
        BY <2>1, <2>2
<1>4. Integrated'
    <2> SUFFICES ASSUME NEW d \in Contracts, state'[d] # None, state'[d].delivery # None
                 PROVE  state'[d].integration \in Integrations /\ Extends(state'[d].integration)
        BY DEF Integrated
    <2>1. CASE d # c
        BY <2>1, Admission DEF Integrated
    <2>2. CASE d = c /\ e.kind = "bind"
        <3>1. state'[c] = StateFromBind(e)
            BY <2>2, Admission
        <3> QED
            BY <2>2, <3>1 DEF StateFromBind
    <2>3. CASE d = c /\ e.kind = "deliver"
        <3>1. e \in Facts(Ulids) /\ state[c] \in States(Ulids) /\ state'[c] = FoldEntry(state[c], e)
            BY <2>3, Admission
        <3>2. state'[c].integration = e.integration
            <4>1. FoldEntry(state[c], e).integration = e.integration
                BY <2>3, <3>1, FoldFields, Zenon
            <4> QED
                BY <3>1, <4>1
        <3>3. e.integration \in Integrations /\ Extends(e.integration)
            BY <2>3, <3>1, FactFields DEF Offered
        <3> QED
            BY <2>3, <3>2, <3>3
    <2>4. CASE d = c /\ e.kind = "reintegrated"
        <3>1. e \in Facts(Ulids) /\ state[c] \in States(Ulids) /\ state'[c] = FoldEntry(state[c], e)
            BY <2>4, Admission
        <3>2. state'[c].integration = [state[c].integration EXCEPT !.predecessor = e.predecessor,
                                                                  !.snapshot = e.snapshot]
            <4>1. FoldEntry(state[c], e).integration
                     = [state[c].integration EXCEPT !.predecessor = e.predecessor, !.snapshot = e.snapshot]
                BY <2>4, <3>1, FoldFields, Zenon
            <4> QED
                BY <3>1, <4>1
        <3>3. /\ state[c].integration \in Integrations
              /\ e.snapshot = Append(e.predecessor, state[c].integration.changeId)
              /\ e.predecessor \in Commits /\ e.snapshot \in Commits
            BY <2>4, <3>1, FactFields, Admission DEF Offered, Active, Integrated
        <3> QED
            BY <2>4, <3>2, <3>3 DEF Integrations, Extends
    <2>5. CASE d = c /\ e.kind \notin {"bind", "deliver", "reintegrated"}
        <3>1. e \in Facts(Ulids) /\ state[c] \in States(Ulids) /\ state'[c] = FoldEntry(state[c], e)
            BY <2>5, Admission
        <3>2. /\ state'[c].delivery = state[c].delivery
              /\ state'[c].integration = state[c].integration
            <4>1. /\ FoldEntry(state[c], e).delivery = state[c].delivery
                  /\ FoldEntry(state[c], e).integration = state[c].integration
                BY <2>5, <3>1, FoldFields
            <4> QED
                BY <3>1, <4>1
        <3> QED
            BY <2>5, <3>1, <3>2, Admission DEF Integrated, Active
    <2> QED
        BY <2>1, <2>2, <2>3, <2>4, <2>5
<1>5. JournalFolded'
    <2> SUFFICES ASSUME NEW d \in Contracts
                 PROVE  state'[d] = None <=> journal'[d] = <<>>
        BY DEF JournalFolded
    <2>1. CASE d # c
        BY <2>1, Admission DEF JournalFolded
    <2>2. CASE d = c
        <3>1. journal[c] \in Seq(Facts(Ulids)) /\ e \in Facts(Ulids) /\ journal'[c] = Append(journal[c], e)
            BY Admission DEF TypeOK
        <3>2. journal'[c] # <<>>
            BY <3>1
        <3> QED
            BY <2>2, <3>2, Admission
    <2> QED
        BY <2>1, <2>2
<1> QED
    BY <1>1, <1>2, <1>3, <1>4, <1>5 DEF TypeOK

LEMMA WorldWellFormed ==
    ASSUME WellFormed, World
    PROVE  WellFormed'
BY Worldly DEF WellFormed, TypeOK, Integrated, JournalFolded

LEMMA NextWellFormed ==
    ASSUME WellFormed, [Next]_ledgerVars
    PROVE  WellFormed'
<1>1. CASE \E c \in Contracts : Fact(c)
    <2>1. PICK c \in Contracts : Fact(c)
        BY <1>1
    <2>2. PICK e, movement : Offered(c, e, movement) /\ Admit(c, e, movement)
        BY <2>1, FactOffered
    <2> QED
        BY <2>2, AdmissionWellFormed
<1>2. CASE World
    BY <1>2, WorldWellFormed
<1>3. CASE UNCHANGED ledgerVars
    BY <1>3 DEF WellFormed, TypeOK, Integrated, JournalFolded, ledgerVars
<1> QED
    BY <1>1, <1>2, <1>3 DEF Next

THEOREM LedgerWellFormed == Spec => []WellFormed
<1>1. Init => WellFormed
    BY InitWellFormed
<1>2. WellFormed /\ [Next]_ledgerVars => WellFormed'
    BY NextWellFormed
<1> QED
    BY <1>1, <1>2, PTL DEF Spec

(* The ledger's types: journals hold facts, states are folded states, refs  *)
(* are commits.                                                             *)
THEOREM LedgerTyped == Spec => []TypeOK
<1>1. WellFormed => TypeOK
    BY DEF WellFormed
<1> QED
    BY <1>1, LedgerWellFormed, PTL

----------------------------------------------------------------------------
(* A contract that has ended takes no further entry. *)

LEMMA AdmissionTerminalLast ==
    ASSUME WellFormed, TerminalLast, NEW c \in Contracts, NEW e, NEW movement,
           Offered(c, e, movement), Admit(c, e, movement)
    PROVE  TerminalLast'
<1> SUFFICES ASSUME NEW d \in Contracts, NEW i \in DOMAIN journal'[d]
             PROVE  journal'[d][i].kind \in {"claimed", "abandoned"}
                        <=> i = Len(journal'[d]) /\ state'[d].terminal # "active"
    BY DEF TerminalLast
<1>1. CASE d # c
    <2>1. journal'[d] = journal[d] /\ state'[d] = state[d]
        BY <1>1, Admission
    <2> QED
        BY <2>1 DEF TerminalLast
<1>2. CASE d = c
    <2>1. e \in Facts(Ulids) /\ journal' = [journal EXCEPT ![c] = Append(@, e)]
        BY Admission
    <2>2. journal \in [Contracts -> Seq(Facts(Ulids))]
        BY DEF WellFormed, TypeOK
    <2>3. /\ Len(journal'[c]) = Len(journal[c]) + 1
          /\ Len(journal[c]) \in Nat
          /\ i \in 1..Len(journal[c]) + 1
          /\ i \in 1..Len(journal[c]) => i \in DOMAIN journal[c] /\ journal'[c][i] = journal[c][i]
          /\ i = Len(journal[c]) + 1 => journal'[c][i] = e
        BY <1>2, <2>1, <2>2
    <2>4. CASE e.kind = "bind"
        <3>1. journal[c] = <<>>
            BY <2>4, Admission DEF WellFormed, JournalFolded
        <3>2. i = 1 /\ journal'[c][i] = e
            BY <2>3, <3>1
        <3>3. state'[c].terminal = "active"
            <4>1. state'[c] = StateFromBind(e)
                BY <2>4, Admission
            <4> QED
                BY <4>1 DEF StateFromBind
        <3> QED
            BY <1>2, <2>4, <3>2, <3>3
    <2>5. CASE e.kind # "bind"
        <3>1. /\ state[c] \in States(Ulids) /\ state[c].terminal = "active"
              /\ state'[c] = FoldEntry(state[c], e)
            BY <2>5, Admission DEF Active
        <3>2. /\ e.kind \in {"claimed", "abandoned"} => state'[c].terminal = e.kind
              /\ e.kind \notin {"claimed", "abandoned"} => state'[c].terminal = "active"
            <4>1. /\ e.kind \in {"claimed", "abandoned"} => FoldEntry(state[c], e).terminal = e.kind
                  /\ e.kind \notin {"claimed", "abandoned"} =>
                        FoldEntry(state[c], e).terminal = state[c].terminal
                BY <2>1, <2>5, <3>1, FoldFields
            <4> QED
                BY <3>1, <4>1
        <3>3. \A j \in DOMAIN journal[c] : journal[c][j].kind \notin {"claimed", "abandoned"}
            BY <3>1 DEF TerminalLast
        <3> QED
            BY <1>2, <2>3, <3>2, <3>3
    <2> QED
        BY <2>4, <2>5
<1> QED
    BY <1>1, <1>2

(* Nothing is admitted to a contract that has ended. *)
THEOREM EndedForGood == Spec => []TerminalLast
<1>1. Init => TerminalLast
    BY DEF Init, TerminalLast
<1>2. ASSUME WellFormed, TerminalLast, [Next]_ledgerVars
      PROVE  TerminalLast'
    <2>1. CASE \E c \in Contracts : Fact(c)
        <3>1. PICK c \in Contracts : Fact(c)
            BY <2>1
        <3>2. PICK e, movement : Offered(c, e, movement) /\ Admit(c, e, movement)
            BY <1>2, <3>1, FactOffered
        <3> QED
            BY <1>2, <3>2, AdmissionTerminalLast
    <2>2. CASE World
        BY <1>2, <2>2, Worldly DEF TerminalLast
    <2>3. CASE UNCHANGED ledgerVars
        BY <1>2, <2>3 DEF TerminalLast, ledgerVars
    <2> QED
        BY <1>2, <2>1, <2>2, <2>3 DEF Next
<1>3. WellFormed /\ TerminalLast /\ [Next]_ledgerVars => TerminalLast'
    BY <1>2
<1> QED
    BY <1>1, <1>3, LedgerWellFormed, PTL DEF Spec

----------------------------------------------------------------------------
(* Prefixes. *)

LEMMA PrefixReflexive ==
    ASSUME NEW s \in Commits
    PROVE  IsPrefix(s, s)
BY DEF IsPrefix, Commits

LEMMA PrefixAppend ==
    ASSUME NEW s \in Commits, NEW t \in Commits, NEW x \in Changes \cup {Foreign}, IsPrefix(s, t)
    PROVE  IsPrefix(s, Append(t, x))
BY DEF IsPrefix, Commits

----------------------------------------------------------------------------
(* Landings. *)

ClaimedDelivered == \A c \in Contracts : Claimed(state, c) => state[c].delivery # None

Landed == ClaimedDelivered /\ NoLostLanding /\ PrerequisitesLandFirst

LEMMA ClaimedAfter ==
    ASSUME WellFormed, NEW c \in Contracts, NEW e, NEW movement,
           Offered(c, e, movement), Admit(c, e, movement), NEW d \in Contracts, Claimed(state', d)
    PROVE  \/ d = c /\ e.kind = "claimed"
           \/ d # c /\ Claimed(state, d) /\ state'[d] = state[d]
<1>1. CASE d # c
    BY <1>1, Admission DEF Claimed
<1>2. CASE d = c /\ e.kind = "bind"
    <2>1. state'[c] = StateFromBind(e)
        BY <1>2, Admission
    <2> QED
        BY <1>2, <2>1 DEF StateFromBind, Claimed
<1>3. CASE d = c /\ e.kind \notin {"bind", "claimed"}
    <2>1. /\ e \in Facts(Ulids) /\ state[c] \in States(Ulids) /\ state[c].terminal = "active"
          /\ state'[c] = FoldEntry(state[c], e)
        BY <1>3, Admission DEF Active
    <2>2. /\ e.kind = "abandoned" => FoldEntry(state[c], e).terminal = "abandoned"
          /\ e.kind # "abandoned" => FoldEntry(state[c], e).terminal = state[c].terminal
        BY <1>3, <2>1, FoldFields
    <2> QED
        BY <1>3, <2>1, <2>2 DEF Claimed
<1> QED
    BY <1>1, <1>2, <1>3

LEMMA Claim ==
    ASSUME WellFormed, NEW c \in Contracts, NEW e, NEW movement,
           Offered(c, e, movement), Admit(c, e, movement), e.kind = "claimed"
    PROVE  /\ state[c] \in States(Ulids) /\ MayPlace(state, c)
           /\ state[c].integration \in Integrations /\ Extends(state[c].integration)
           /\ state'[c].target = state[c].target /\ state'[c].terms = state[c].terms
           /\ state'[c].integration = state[c].integration /\ state'[c].delivery = state[c].delivery
           /\ state[c].target = None => ref' = ref
           /\ state[c].target # None =>
                 /\ state[c].target \in Targets
                 /\ ref[state[c].target] = state[c].integration.predecessor
                 /\ ref' = [ref EXCEPT ![state[c].target] = state[c].integration.snapshot]
<1>1. /\ e \in Facts(Ulids) /\ state[c] \in States(Ulids) /\ state'[c] = FoldEntry(state[c], e)
      /\ state[c] # None
    BY Admission DEF Active
<1>2. MayPlace(state, c) /\ state[c].delivery # None /\ movement = Movement(state[c])
    BY DEF Offered, MayPlace
<1>3. state[c].integration \in Integrations /\ Extends(state[c].integration)
    BY <1>1, <1>2 DEF WellFormed, Integrated
<1>4. /\ FoldEntry(state[c], e).target = state[c].target
      /\ FoldEntry(state[c], e).terms = state[c].terms
      /\ FoldEntry(state[c], e).integration = state[c].integration
      /\ FoldEntry(state[c], e).delivery = state[c].delivery
    BY <1>1, FoldFields
<1>5. ASSUME state[c].target = None
      PROVE  ref' = ref
    BY <1>2, <1>5 DEF Movement, Admit
<1>6. ASSUME state[c].target # None
      PROVE  /\ state[c].target \in Targets
             /\ ref[state[c].target] = state[c].integration.predecessor
             /\ ref' = [ref EXCEPT ![state[c].target] = state[c].integration.snapshot]
    <2>1. state[c].target \in Targets
        BY <1>1, <1>6 DEF States
    <2>2. movement = [ref |-> state[c].target, expected |-> state[c].integration.predecessor,
                      new |-> state[c].integration.snapshot]
        BY <1>2, <1>6 DEF Movement
    <2>3. movement \in Movements
        BY <1>3, <2>1, <2>2 DEF Movements, Integrations
    <2>4. movement # None
        BY <2>3, LedgerAssumption DEF NoneIsAbsence
    <2> QED
        BY <2>1, <2>2, <2>4 DEF Admit
<1> QED
    BY <1>1, <1>2, <1>3, <1>4, <1>5, <1>6

LEMMA ClaimedTyped ==
    ASSUME WellFormed, ClaimedDelivered, NEW d \in Contracts, Claimed(state, d)
    PROVE  /\ state[d] \in States(Ulids) /\ state[d].integration \in Integrations
           /\ state[d].integration.snapshot \in Commits
<1>1. state[d] \in States(Ulids) /\ state[d].integration \in Integrations
    BY StateTyped DEF WellFormed, Integrated, ClaimedDelivered, Claimed
<1> QED
    BY <1>1 DEF Integrations

LEMMA AdmissionLanded ==
    ASSUME WellFormed, Landed, NEW c \in Contracts, NEW e, NEW movement,
           Offered(c, e, movement), Admit(c, e, movement)
    PROVE  Landed'
<1>0. ClaimedDelivered /\ NoLostLanding /\ PrerequisitesLandFirst
    BY DEF Landed
<1>1. ClaimedDelivered'
    <2> SUFFICES ASSUME NEW d \in Contracts, Claimed(state', d)
                 PROVE  state'[d].delivery # None
        BY DEF ClaimedDelivered
    <2>1. CASE d = c /\ e.kind = "claimed"
        BY <2>1, Claim DEF MayPlace
    <2>2. CASE d # c /\ Claimed(state, d) /\ state'[d] = state[d]
        BY <1>0, <2>2 DEF ClaimedDelivered
    <2> QED
        BY <2>1, <2>2, ClaimedAfter
<1>2. NoLostLanding'
    <2> SUFFICES ASSUME NEW d \in Contracts, Claimed(state', d), state'[d].target # None
                 PROVE  /\ ref'[state'[d].target] # None
                        /\ IsPrefix(state'[d].integration.snapshot, ref'[state'[d].target])
        BY DEF NoLostLanding
    <2>1. CASE d = c /\ e.kind = "claimed"
        <3>1. /\ state[c].integration \in Integrations /\ state'[c].integration = state[c].integration
              /\ state'[c].target = state[c].target /\ state[c].target \in Targets
              /\ ref' = [ref EXCEPT ![state[c].target] = state[c].integration.snapshot]
            BY <2>1, Claim
        <3>2. state[c].integration.snapshot \in Commits /\ state[c].integration.snapshot # None
            BY <3>1, CommitsExist DEF Integrations
        <3>3. ref'[state[c].target] = state[c].integration.snapshot
            BY <3>1 DEF WellFormed, TypeOK
        <3> QED
            BY <2>1, <3>1, <3>2, <3>3, PrefixReflexive
    <2>2. CASE d # c /\ Claimed(state, d) /\ state'[d] = state[d]
        <3>1. /\ state[d] \in States(Ulids) /\ state[d].integration.snapshot \in Commits
              /\ state[d].target # None /\ state[d].target \in Targets
              /\ ref[state[d].target] # None
              /\ IsPrefix(state[d].integration.snapshot, ref[state[d].target])
            BY <1>0, <2>2, ClaimedTyped DEF NoLostLanding, States
        <3>2. CASE e.kind # "claimed" \/ state[c].target # state[d].target
            <4>1. ref'[state[d].target] = ref[state[d].target]
                <5>1. CASE e.kind # "claimed"
                    BY <5>1, Admission
                <5>2. CASE e.kind = "claimed" /\ state[c].target # state[d].target
                    BY <3>1, <5>2, Claim DEF WellFormed, TypeOK
                <5> QED
                    BY <3>2, <5>1, <5>2
            <4> QED
                BY <2>2, <3>1, <4>1
        <3>3. CASE e.kind = "claimed" /\ state[c].target = state[d].target
            <4> DEFINE t == state[d].target
                       i == state[c].integration
            <4>1. /\ i \in Integrations /\ i.snapshot = Append(i.predecessor, i.changeId)
                  /\ ref[t] = i.predecessor /\ ref' = [ref EXCEPT ![t] = i.snapshot]
                BY <3>1, <3>3, Claim DEF Extends
            <4>2. ref'[t] = Append(ref[t], i.changeId) /\ ref[t] \in Commits /\ i.changeId \in Changes
                BY <3>1, <4>1 DEF WellFormed, TypeOK, Integrations
            <4>3. IsPrefix(state[d].integration.snapshot, ref'[t])
                BY <3>1, <4>2, PrefixAppend
            <4>4. ref'[t] # None
                <5>1. Append(ref[t], i.changeId) \in Commits
                    BY <4>2, AppendTyped
                <5> QED
                    BY <4>2, <5>1, CommitsExist
            <4> QED
                BY <2>2, <4>3, <4>4
        <3> QED
            BY <3>2, <3>3
    <2> QED
        BY <2>1, <2>2, ClaimedAfter
<1>3. PrerequisitesLandFirst'
    <2> SUFFICES ASSUME NEW d \in Contracts, Claimed(state', d), NEW a \in state'[d].terms.after
                 PROVE  /\ Claimed(state', a)
                        /\ state'[a].target = state'[d].target /\ state'[d].target # None =>
                              IsPrefix(state'[a].integration.snapshot, state'[d].integration.predecessor)
        BY DEF PrerequisitesLandFirst
    <2>0. \A b \in Contracts : Claimed(state, b) => b # c /\ state'[b] = state[b]
        BY Admission DEF Claimed, Active
    <2>1. CASE d = c /\ e.kind = "claimed"
        <3>1. /\ state[c] \in States(Ulids) /\ a \in state[c].terms.after
              /\ state'[c].target = state[c].target /\ state'[c].integration = state[c].integration
              /\ Claimed(state, a)
            BY <2>1, Claim DEF MayPlace
        <3>2. a \in Contracts
            BY <3>1, TermsTyped DEF States
        <3>3. state'[a] = state[a]
            BY <2>0, <3>1, <3>2
        <3>4. ASSUME state[a].target = state[c].target, state[c].target # None
              PROVE  IsPrefix(state[a].integration.snapshot, state[c].integration.predecessor)
            <4>1. ref[state[c].target] = state[c].integration.predecessor
                BY <2>1, <3>4, Claim
            <4> QED
                BY <1>0, <3>1, <3>2, <3>4, <4>1 DEF NoLostLanding
        <3> QED
            BY <2>1, <3>1, <3>3, <3>4 DEF Claimed
    <2>2. CASE d # c /\ Claimed(state, d) /\ state'[d] = state[d]
        <3>1. state[d] \in States(Ulids) /\ a \in Contracts
            BY <1>0, <2>2, ClaimedTyped, TermsTyped DEF States
        <3>2. Claimed(state, a) /\ state'[a] = state[a]
            BY <1>0, <2>0, <2>2, <3>1 DEF PrerequisitesLandFirst
        <3> QED
            BY <1>0, <2>2, <3>2 DEF PrerequisitesLandFirst, Claimed
    <2> QED
        BY <2>1, <2>2, ClaimedAfter
<1> QED
    BY <1>1, <1>2, <1>3 DEF Landed

LEMMA WorldLanded ==
    ASSUME WellFormed, Landed, World
    PROVE  Landed'
<1>1. state' = state
    BY Worldly
<1>2. NoLostLanding'
    <2> SUFFICES ASSUME NEW d \in Contracts, Claimed(state, d), state[d].target # None
                 PROVE  /\ ref'[state[d].target] # None
                        /\ IsPrefix(state[d].integration.snapshot, ref'[state[d].target])
        BY <1>1 DEF NoLostLanding
    <2> DEFINE t == state[d].target
    <2>1. /\ t \in Targets /\ state[d].integration.snapshot \in Commits
          /\ ref[t] # None /\ IsPrefix(state[d].integration.snapshot, ref[t])
        BY ClaimedTyped DEF Landed, NoLostLanding, States
    <2>2. ref[t] \in Commits /\ Append(ref[t], Foreign) \in Commits
        BY <2>1 DEF WellFormed, TypeOK, Commits
    <2>3. ref'[t] = ref[t] \/ ref'[t] = Append(ref[t], Foreign)
        BY <2>1, Worldly
    <2> QED
        <3>1. ref'[t] # None
            BY <2>2, <2>3, CommitsExist
        <3>2. IsPrefix(state[d].integration.snapshot, Append(ref[t], Foreign))
            BY <2>1, <2>2, PrefixAppend
        <3> QED
            BY <2>1, <2>3, <3>1, <3>2
<1> QED
    BY <1>1, <1>2 DEF Landed, ClaimedDelivered, PrerequisitesLandFirst

LEMMA LandedAlways == Spec => []Landed
<1>1. Init => Landed
    BY DEF Init, Landed, ClaimedDelivered, NoLostLanding, PrerequisitesLandFirst, Claimed
<1>2. ASSUME WellFormed, Landed, [Next]_ledgerVars
      PROVE  Landed'
    <2>1. CASE \E c \in Contracts : Fact(c)
        <3>1. PICK c \in Contracts : Fact(c)
            BY <2>1
        <3>2. PICK e, movement : Offered(c, e, movement) /\ Admit(c, e, movement)
            BY <1>2, <3>1, FactOffered
        <3> QED
            BY <1>2, <3>2, AdmissionLanded
    <2>2. CASE World
        BY <1>2, <2>2, WorldLanded
    <2>3. CASE UNCHANGED ledgerVars
        BY <1>2, <2>3 DEF Landed, ClaimedDelivered, NoLostLanding, PrerequisitesLandFirst, ledgerVars
    <2> QED
        BY <1>2, <2>1, <2>2, <2>3 DEF Next
<1>3. WellFormed /\ Landed /\ [Next]_ledgerVars => Landed'
    BY <1>2
<1> QED
    BY <1>1, <1>3, LedgerWellFormed, PTL DEF Spec

(* No claim undoes another: what landed stays in its target's history. *)
THEOREM LandingsStay == Spec => []NoLostLanding
<1>1. Landed => NoLostLanding
    BY DEF Landed
<1> QED
    BY <1>1, LandedAlways, PTL

(* A contract lands only on a history that its prerequisites are part of. *)
THEOREM PrerequisitesLanded == Spec => []PrerequisitesLandFirst
<1>1. Landed => PrerequisitesLandFirst
    BY DEF Landed
<1> QED
    BY <1>1, LandedAlways, PTL

----------------------------------------------------------------------------
(* Prerequisites are never circular.  That c is not reached from a set of  *)
(* prerequisites is witnessed by a closed set which holds them but not c.  *)

Closed(obs, R) == \A x \in R : AfterOf(obs, x) \subseteq R

Avoids(obs, c, prerequisites, R) == prerequisites \subseteq R /\ Closed(obs, R) /\ c \notin R

KnownAfter == \A c \in Contracts : state[c] # None => Known(state, state[c].terms.after)

Ordered == KnownAfter /\ AfterAcyclic

LEMMA Unreached ==
    ASSUME NEW obs, NEW c, NEW prerequisites
    PROVE  ~PrerequisitesReach(obs, c, prerequisites)
               <=> \E R \in SUBSET Contracts : Avoids(obs, c, prerequisites, R)
BY DEF PrerequisitesReach, Avoids, Closed

LEMMA OrderedTyped ==
    ASSUME WellFormed, NEW d \in Contracts
    PROVE  AfterOf(state, d) \subseteq Contracts
<1>1. CASE state[d] = None
    BY <1>1 DEF AfterOf
<1>2. CASE state[d] # None
    <2>1. state[d].terms \in Terms
        BY <1>2, StateTyped DEF WellFormed, States
    <2> QED
        BY <1>2, <2>1, TermsTyped DEF AfterOf
<1> QED
    BY <1>1, <1>2

(* An entry changes the prerequisites of its contract only, and then to its own. *)
LEMMA AfterChanged ==
    ASSUME WellFormed, NEW c \in Contracts, NEW e, NEW movement,
           Offered(c, e, movement), Admit(c, e, movement)
    PROVE  /\ \A d \in Contracts \ {c} : AfterOf(state', d) = AfterOf(state, d)
           /\ \A d \in Contracts : state[d] # None => state'[d] # None
           /\ state'[c] # None /\ AfterOf(state', c) = state'[c].terms.after
           /\ e.kind \in {"bind", "amend"} => state'[c].terms = e.terms
           /\ e.kind \notin {"bind", "amend"} => state[c] # None /\ state'[c].terms = state[c].terms
<1>1. /\ e \in Facts(Ulids) /\ state'[c] # None
      /\ \A d \in Contracts \ {c} : state'[d] = state[d]
    BY Admission
<1>2. CASE e.kind = "bind"
    <2>1. state'[c] = StateFromBind(e)
        BY <1>2, Admission
    <2> QED
        BY <1>1, <1>2, <2>1 DEF StateFromBind, AfterOf
<1>3. CASE e.kind # "bind"
    <2>1. state[c] \in States(Ulids) /\ state'[c] = FoldEntry(state[c], e) /\ state[c] # None
        BY <1>3, Admission DEF Active
    <2>2. /\ e.kind = "amend" => FoldEntry(state[c], e).terms = e.terms
          /\ e.kind # "amend" => FoldEntry(state[c], e).terms = state[c].terms
        BY <1>1, <1>3, <2>1, FoldFields
    <2> QED
        BY <1>1, <1>3, <2>1, <2>2 DEF AfterOf
<1> QED
    BY <1>2, <1>3

LEMMA AdmissionOrdered ==
    ASSUME WellFormed, Ordered, NEW c \in Contracts, NEW e, NEW movement,
           Offered(c, e, movement), Admit(c, e, movement)
    PROVE  Ordered'
<1>0. KnownAfter /\ AfterAcyclic
    BY DEF Ordered
<1>1. KnownAfter'
    <2> SUFFICES ASSUME NEW d \in Contracts, state'[d] # None, NEW a \in state'[d].terms.after
                 PROVE  state'[a] # None
        BY DEF KnownAfter, Known
    <2>1. CASE d = c /\ e.kind \in {"bind", "amend"}
        <3>1. e.terms \in Terms /\ a \in e.terms.after /\ Known(state, e.terms.after)
            BY <2>1, Admission, FactFields, AfterChanged DEF Offered
        <3> QED
            BY <3>1, TermsTyped, AfterChanged DEF Known
    <2>2. CASE d # c \/ e.kind \notin {"bind", "amend"}
        <3>1. state[d] # None /\ state'[d].terms = state[d].terms
            BY <2>2, AfterChanged, Admission
        <3>2. a \in AfterOf(state, d)
            BY <3>1 DEF AfterOf
        <3> QED
            BY <1>0, <3>1, <3>2, OrderedTyped, AfterChanged DEF KnownAfter, Known
    <2> QED
        BY <2>1, <2>2
<1>2. AfterAcyclic'
    <2> SUFFICES ASSUME NEW d \in Contracts, state'[d] # None
                 PROVE  \E R \in SUBSET Contracts : Avoids(state', d, state'[d].terms.after, R)
        BY Unreached DEF AfterAcyclic
    <2>1. \A x \in Contracts \ {c} : AfterOf(state', x) = AfterOf(state, x)
        BY AfterChanged
    <2>2. ASSUME d # c \/ e.kind \notin {"bind", "amend"}
          PROVE  /\ state[d] # None /\ AfterOf(state, d) = state'[d].terms.after
                 /\ \E R \in SUBSET Contracts : Avoids(state, d, state'[d].terms.after, R)
        <3>1. state[d] # None /\ state'[d].terms = state[d].terms
            BY <2>2, AfterChanged, Admission
        <3> QED
            BY <1>0, <3>1, Unreached DEF AfterAcyclic, AfterOf
    <2>3. CASE e.kind \notin {"bind", "amend"}
        <3>1. PICK R \in SUBSET Contracts : Avoids(state, d, state'[d].terms.after, R)
            BY <2>2, <2>3
        <3>2. AfterOf(state', c) = AfterOf(state, c)
            BY <2>3, AfterChanged DEF AfterOf
        <3>3. Closed(state', R)
            BY <2>1, <3>1, <3>2 DEF Avoids, Closed
        <3> QED
            BY <3>1, <3>3 DEF Avoids
    <2>4. CASE e.kind \in {"bind", "amend"}
        (* A set that the new prerequisites lead into and that leaves c out. *)
        <3>1. PICK R0 \in SUBSET Contracts : Avoids(state, c, e.terms.after, R0)
            <4>1. CASE e.kind = "amend"
                BY <4>1, Unreached DEF Offered
            <4>2. CASE e.kind = "bind"
                <5> DEFINE K == {x \in Contracts : state[x] # None}
                <5>1. e.terms \in Terms /\ Known(state, e.terms.after) /\ state[c] = None
                    BY <4>2, Admission, FactFields DEF Offered
                <5>2. e.terms.after \subseteq K /\ c \notin K
                    BY <5>1, TermsTyped DEF Known
                <5>3. \A x \in K : AfterOf(state, x) \subseteq K
                    <6> SUFFICES ASSUME NEW x \in K, NEW y \in AfterOf(state, x)
                                 PROVE  y \in K
                        OBVIOUS
                    <6>1. y \in Contracts
                        BY OrderedTyped
                    <6> QED
                        BY <1>0, <6>1 DEF KnownAfter, Known, AfterOf
                <5>4. Avoids(state, c, e.terms.after, K)
                    BY <5>2, <5>3 DEF Avoids, Closed
                <5>5. K \in SUBSET Contracts
                    OBVIOUS
                <5> HIDE DEF K
                <5> QED
                    BY <5>4, <5>5
            <4> QED
                BY <2>4, <4>1, <4>2
        <3>2. /\ e.terms.after \subseteq R0 /\ c \notin R0
              /\ \A x \in R0 : AfterOf(state, x) \subseteq R0
            BY <3>1 DEF Avoids, Closed
        <3>3. AfterOf(state', c) = e.terms.after /\ state'[c].terms = e.terms
            BY <2>4, AfterChanged
        <3>4. CASE d = c
            <4>1. Avoids(state', c, e.terms.after, R0)
                BY <2>1, <3>2 DEF Avoids, Closed
            <4> QED
                BY <3>3, <3>4, <4>1
        <3>5. CASE d # c
            <4> DEFINE after == state'[d].terms.after
            <4>1. state[d] # None /\ AfterOf(state, d) = after
                BY <2>2, <3>5
            <4>2. PICK R1 \in SUBSET Contracts : Avoids(state, d, after, R1)
                BY <2>2, <3>5
            <4>3. /\ after \subseteq R1 /\ d \notin R1
                  /\ \A x \in R1 : AfterOf(state, x) \subseteq R1
                BY <4>2 DEF Avoids, Closed
            <4> HIDE DEF after
            <4>4. CASE after \subseteq R0
                (* d leads into R0 already: what it leads to in both leaves d and c out. *)
                <5>1. \A x \in R0 \cap R1 : AfterOf(state', x) \subseteq R0 \cap R1
                    BY <2>1, <3>2, <4>3
                <5>2. Avoids(state', d, after, R0 \cap R1)
                    BY <4>3, <4>4, <5>1 DEF Avoids, Closed
                <5>3. R0 \cap R1 \in SUBSET Contracts
                    OBVIOUS
                <5> QED
                    BY <5>2, <5>3 DEF after
            <4>5. CASE ~(after \subseteq R0)
                (* Then d is not in R0, and whatever the new prerequisites add is. *)
                <5>1. d \notin R0
                    BY <3>2, <4>1, <4>5
                <5>2. \A x \in R0 \cup R1 : AfterOf(state', x) \subseteq R0 \cup R1
                    <6> SUFFICES ASSUME NEW x \in R0 \cup R1
                                 PROVE  AfterOf(state', x) \subseteq R0 \cup R1
                        OBVIOUS
                    <6>1. CASE x = c
                        BY <3>2, <3>3, <6>1
                    <6>2. CASE x # c
                        BY <2>1, <3>2, <4>3, <6>2
                    <6> QED
                        BY <6>1, <6>2
                <5>3. Avoids(state', d, after, R0 \cup R1)
                    BY <4>3, <5>1, <5>2 DEF Avoids, Closed
                <5>4. R0 \cup R1 \in SUBSET Contracts
                    OBVIOUS
                <5> QED
                    BY <5>3, <5>4 DEF after
            <4> QED
                BY <4>4, <4>5
        <3> QED
            BY <3>4, <3>5
    <2> QED
        BY <2>3, <2>4
<1> QED
    BY <1>1, <1>2 DEF Ordered

(* No contract ever waits for itself, through any chain of prerequisites. *)
THEOREM NeverCircular == Spec => []AfterAcyclic
<1>1. Init => Ordered
    BY DEF Init, Ordered, KnownAfter, AfterAcyclic
<1>2. ASSUME WellFormed, Ordered, [Next]_ledgerVars
      PROVE  Ordered'
    <2>1. CASE \E c \in Contracts : Fact(c)
        <3>1. PICK c \in Contracts : Fact(c)
            BY <2>1
        <3>2. PICK e, movement : Offered(c, e, movement) /\ Admit(c, e, movement)
            BY <1>2, <3>1, FactOffered
        <3> QED
            BY <1>2, <3>2, AdmissionOrdered
    <2>2. CASE World
        <3>1. state' = state
            BY <1>2, <2>2, Worldly
        <3> QED
            BY <1>2, <3>1 DEF Ordered, KnownAfter, AfterAcyclic, PrerequisitesReach, AfterOf, Known
    <2>3. CASE UNCHANGED ledgerVars
        <3>1. state' = state
            BY <2>3 DEF ledgerVars
        <3> QED
            BY <1>2, <3>1 DEF Ordered, KnownAfter, AfterAcyclic, PrerequisitesReach, AfterOf, Known
    <2> QED
        BY <1>2, <2>1, <2>2, <2>3 DEF Next
<1>3. WellFormed /\ Ordered /\ [Next]_ledgerVars => Ordered'
    BY <1>2
<1>4. Ordered => AfterAcyclic
    BY DEF Ordered
<1> QED
    BY <1>1, <1>3, <1>4, LedgerWellFormed, PTL DEF Spec

----------------------------------------------------------------------------
(* Replay. *)

LEMMA AdmissionFolds ==
    ASSUME WellFormed, NEW c \in Contracts, NEW e, NEW movement,
           Offered(c, e, movement), Admit(c, e, movement),
           NEW d \in Contracts, journal'[d] # journal[d], state[d] # None
    PROVE  FoldAccepts(state[d], journal'[d][Len(journal'[d])])
<1>1. d = c
    BY Admission
<1>2. journal'[d][Len(journal'[d])] = e
    <2>1. journal[c] \in Seq(Facts(Ulids)) /\ e \in Facts(Ulids) /\ journal'[c] = Append(journal[c], e)
        BY Admission DEF WellFormed, TypeOK
    <2> QED
        BY <1>1, <2>1
<1>3. e.kind # "bind" /\ state[c].terminal = "active"
    BY <1>1 DEF Offered, Active
<1>4. e.kind = "reintegrated" => state[c].delivery # None
    BY DEF Offered
<1>5. e.kind = "claimed" => /\ state[c].delivery # None
                            /\ e.delivery = state[c].delivery
                            /\ GatesSatisfied(state[c])
    BY DEF Offered, MayPlace
<1>6. e.kind = "arc" => e.seq = state[c].arc + 1
    BY DEF Offered
<1>7. FoldAccepts(state[c], e)
    BY <1>3, <1>4, <1>5, <1>6 DEF FoldAccepts
<1> QED
    BY <1>1, <1>2, <1>7

(* The fold accepts every entry that a decision offers. *)
THEOREM OffersFold == Spec => FoldNeverThrows
<1> DEFINE Folds == \A c \in Contracts :
                      journal'[c] # journal[c] /\ state[c] # None =>
                          FoldAccepts(state[c], journal'[c][Len(journal'[c])])
<1>1. ASSUME WellFormed, [Next]_ledgerVars
      PROVE  [Folds]_ledgerVars
    <2>1. CASE \E c \in Contracts : Fact(c)
        <3>1. PICK c \in Contracts : Fact(c)
            BY <2>1
        <3>2. PICK e, movement : Offered(c, e, movement) /\ Admit(c, e, movement)
            BY <1>1, <3>1, FactOffered
        <3> QED
            BY <1>1, <3>2, AdmissionFolds
    <2>2. CASE World
        BY <1>1, <2>2, Worldly
    <2>3. CASE UNCHANGED ledgerVars
        BY <2>3
    <2> QED
        BY <1>1, <2>1, <2>2, <2>3 DEF Next
<1>2. WellFormed /\ [Next]_ledgerVars => [Folds]_ledgerVars
    BY <1>1
<1> QED
    BY <1>2, LedgerWellFormed, PTL DEF Spec, FoldNeverThrows

----------------------------------------------------------------------------
(* The ledger only advances: a contract keeps its target and start, a      *)
(* journal its entries, and a target every head it has had.                *)

Advances ==
    /\ \A c \in Contracts : state[c] # None =>
          state'[c] # None /\ state'[c].target = state[c].target /\ state'[c].start = state[c].start
    /\ \A c \in Contracts :
          \/ journal'[c] = journal[c] /\ state'[c] = state[c]
          \/ \E e \in Facts(Ulids) : journal'[c] = Append(journal[c], e)
    /\ \A t \in Targets : ref[t] # None => ref'[t] # None /\ Heads(t) \subseteq Heads(t)'

LEMMA HeadsGrow ==
    ASSUME WellFormed, NEW t \in Targets, ref[t] # None,
           ref'[t] = ref[t] \/ \E x \in Changes \cup {Foreign} : ref'[t] = Append(ref[t], x)
    PROVE  ref'[t] # None /\ Heads(t) \subseteq Heads(t)'
<1>1. ref[t] \in Seq(Changes \cup {Foreign})
    BY DEF WellFormed, TypeOK, Commits
<1>2. CASE ref'[t] = ref[t]
    BY <1>2 DEF Heads
<1>3. CASE \E x \in Changes \cup {Foreign} : ref'[t] = Append(ref[t], x)
    <2>1. PICK x \in Changes \cup {Foreign} : ref'[t] = Append(ref[t], x)
        BY <1>3
    <2>2. Append(ref[t], x) # None
        <3>1. Append(ref[t], x) \in Commits
            BY <1>1 DEF Commits
        <3> QED
            BY <3>1, CommitsExist
    <2>3. /\ Len(ref[t]) \in Nat /\ Len(Append(ref[t], x)) = Len(ref[t]) + 1
          /\ \A n \in 0..Len(ref[t]) : SubSeq(Append(ref[t], x), 1, n) = SubSeq(ref[t], 1, n)
        BY <1>1
    <2>4. Heads(t)' = {SubSeq(Append(ref[t], x), 1, n) : n \in 0..Len(ref[t]) + 1}
        BY <2>1, <2>2, <2>3 DEF Heads
    <2>5. Heads(t) = {SubSeq(ref[t], 1, n) : n \in 0..Len(ref[t])}
        BY DEF Heads
    <2>6. ASSUME NEW n \in 0..Len(ref[t])
          PROVE  SubSeq(ref[t], 1, n) \in Heads(t)'
        <3>1. n \in 0..Len(ref[t]) + 1 /\ SubSeq(Append(ref[t], x), 1, n) = SubSeq(ref[t], 1, n)
            BY <2>3
        <3> QED
            BY <2>4, <3>1
    <2> QED
        BY <2>1, <2>2, <2>5, <2>6
<1> QED
    BY <1>2, <1>3

LEMMA AdmissionAdvances ==
    ASSUME WellFormed, NEW c \in Contracts, NEW e, NEW movement,
           Offered(c, e, movement), Admit(c, e, movement)
    PROVE  Advances
<1>1. ASSUME NEW d \in Contracts, state[d] # None
      PROVE  state'[d] # None /\ state'[d].target = state[d].target /\ state'[d].start = state[d].start
    <2>1. CASE d # c
        BY <1>1, <2>1, Admission
    <2>2. CASE d = c
        <3>1. /\ e \in Facts(Ulids) /\ e.kind # "bind" /\ state[c] \in States(Ulids)
              /\ state'[c] = FoldEntry(state[c], e) /\ state'[c] # None
            BY <1>1, <2>2, Admission
        <3>2. FoldEntry(state[c], e).target = state[c].target /\ FoldEntry(state[c], e).start = state[c].start
            BY <3>1, FoldFields
        <3> QED
            BY <2>2, <3>1, <3>2
    <2> QED
        BY <2>1, <2>2
<1>2. ASSUME NEW d \in Contracts
      PROVE  \/ journal'[d] = journal[d] /\ state'[d] = state[d]
             \/ \E f \in Facts(Ulids) : journal'[d] = Append(journal[d], f)
    <2>1. CASE d # c
        BY <2>1, Admission
    <2>2. CASE d = c
        BY <2>2, Admission DEF WellFormed, TypeOK
    <2> QED
        BY <2>1, <2>2
<1>3. ASSUME NEW t \in Targets, ref[t] # None
      PROVE  ref'[t] = ref[t] \/ \E x \in Changes \cup {Foreign} : ref'[t] = Append(ref[t], x)
    <2>1. CASE e.kind # "claimed"
        BY <2>1, Admission
    <2>2. CASE e.kind = "claimed"
        <3> DEFINE i == state[c].integration
        <3>1. /\ i \in Integrations /\ i.snapshot = Append(i.predecessor, i.changeId)
              /\ state[c].target = None => ref' = ref
              /\ state[c].target # None => /\ ref[state[c].target] = i.predecessor
                                           /\ ref' = [ref EXCEPT ![state[c].target] = i.snapshot]
            BY <2>2, Claim DEF Extends
        <3>2. i.changeId \in Changes
            BY <3>1 DEF Integrations
        <3> HIDE DEF i
        <3> QED
            BY <3>1, <3>2 DEF WellFormed, TypeOK
    <2> QED
        BY <2>1, <2>2
<1> QED
    BY <1>1, <1>2, <1>3, HeadsGrow DEF Advances

LEMMA NextAdvances ==
    ASSUME WellFormed, [Next]_ledgerVars
    PROVE  Advances
<1>1. CASE \E c \in Contracts : Fact(c)
    <2>1. PICK c \in Contracts : Fact(c)
        BY <1>1
    <2>2. PICK e, movement : Offered(c, e, movement) /\ Admit(c, e, movement)
        BY <2>1, FactOffered
    <2> QED
        BY <2>2, AdmissionAdvances
<1>2. CASE World
    BY <1>2, Worldly, HeadsGrow DEF Advances
<1>3. CASE UNCHANGED ledgerVars
    BY <1>3 DEF Advances, Heads, ledgerVars
<1> QED
    BY <1>1, <1>2, <1>3 DEF Next

----------------------------------------------------------------------------
(* What landed was judged: the folded state is what the journal says, so   *)
(* gates that the state satisfies are satisfied by the journal's testimony. *)

(* Entry i is the last one of these kinds. *)
Latest(entries, kinds, i) ==
    /\ i \in DOMAIN entries
    /\ entries[i].kind \in kinds
    /\ \A j \in DOMAIN entries : entries[j].kind \in kinds => j <= i

PlacedSnapshot(e) == IF e.kind = "deliver" THEN e.integration.snapshot ELSE e.snapshot

TermsRead(entries, s) ==
    \E i \in DOMAIN entries : Latest(entries, {"bind", "amend"}, i) /\ entries[i].terms = s.terms

ChangeRead(entries, s) ==
    s.delivery # None =>
        \E i \in DOMAIN entries :
            Latest(entries, {"deliver"}, i) /\ entries[i].integration.changeId = s.integration.changeId

SnapshotRead(entries, s) ==
    s.delivery # None =>
        \E i \in DOMAIN entries :
            /\ Latest(entries, {"deliver", "reintegrated"}, i)
            /\ PlacedSnapshot(entries[i]) = s.integration.snapshot

(* The i-th attestation of the state is entry at[i], and there is no other. *)
TestimonyAt(entries, s, at) ==
    /\ at \in [DOMAIN s.attestations -> DOMAIN entries]
    /\ \A i, j \in DOMAIN s.attestations : i < j => at[i] < at[j]
    /\ \A i \in DOMAIN s.attestations :
          entries[at[i]].kind = "attestation" /\ entries[at[i]].data = s.attestations[i]
    /\ \A k \in DOMAIN entries :
          entries[k].kind = "attestation" => \E i \in DOMAIN s.attestations : at[i] = k

TestimonyRead(entries, s) == \E at : TestimonyAt(entries, s, at)

SubjectsFit(s) == \A i \in DOMAIN s.attestations : SubjectFits(s.attestations[i])

Read(entries, s) ==
    /\ TermsRead(entries, s)
    /\ ChangeRead(entries, s)
    /\ SnapshotRead(entries, s)
    /\ TestimonyRead(entries, s)
    /\ SubjectsFit(s)

JournalRead == \A c \in Contracts : state[c] # None => Read(journal[c], state[c])

ClaimsJudged == \A c \in Contracts : Claimed(state, c) => state[c].delivery # None /\ GatesSatisfied(state[c])

Judged == JournalRead /\ ClaimsJudged

LEMMA AppendEntry ==
    ASSUME NEW entries \in Seq(Facts(Ulids)), NEW e \in Facts(Ulids)
    PROVE  /\ DOMAIN entries = 1..Len(entries) /\ Len(entries) \in Nat
           /\ DOMAIN Append(entries, e) = DOMAIN entries \cup {Len(entries) + 1}
           /\ Append(entries, e)[Len(entries) + 1] = e
           /\ \A i \in DOMAIN entries : Append(entries, e)[i] = entries[i] /\ i < Len(entries) + 1
OBVIOUS

LEMMA LatestAppend ==
    ASSUME NEW entries \in Seq(Facts(Ulids)), NEW e \in Facts(Ulids), NEW kinds
    PROVE  /\ e.kind \in kinds => Latest(Append(entries, e), kinds, Len(entries) + 1)
           /\ \A i \in DOMAIN entries :
                 e.kind \notin kinds /\ Latest(entries, kinds, i) => Latest(Append(entries, e), kinds, i)
BY AppendEntry DEF Latest

LEMMA LatestIsLast ==
    ASSUME NEW entries \in Seq(Facts(Ulids)), NEW kinds, NEW i, Latest(entries, kinds, i)
    PROVE  LastOf(entries, kinds) = i
<1>1. DOMAIN entries = 1..Len(entries)
    OBVIOUS
<1>2. \A k \in DOMAIN entries :
         /\ entries[k].kind \in kinds
         /\ \A j \in DOMAIN entries : entries[j].kind \in kinds => j <= k
         => k = i
    BY <1>1 DEF Latest
<1> QED
    BY <1>2 DEF Latest, LastOf

(* One more entry reads as one more fold. *)
LEMMA AttestationsFold ==
    ASSUME NEW s \in States(Ulids), NEW e \in Facts(Ulids), e.kind # "bind"
    PROVE  /\ e.kind = "attestation" => FoldEntry(s, e).attestations = Append(s.attestations, e.data)
           /\ e.kind # "attestation" => FoldEntry(s, e).attestations = s.attestations
<1>1. CASE e.kind = "amend"
    <2>1. FoldEntry(s, e) = [s EXCEPT !.terms = e.terms]
        BY <1>1, FoldCases
    <2> QED
        BY <1>1, <2>1 DEF States
<1>2. CASE e.kind = "deliver"
    <2>1. FoldEntry(s, e) = [s EXCEPT !.delivery = e.entry, !.integration = e.integration]
        BY <1>2, FoldCases
    <2> QED
        BY <1>2, <2>1 DEF States
<1>3. CASE e.kind = "reintegrated"
    <2>1. FoldEntry(s, e) = [s EXCEPT !.integration.predecessor = e.predecessor,
                                      !.integration.snapshot = e.snapshot]
        BY <1>3, FoldCases
    <2> QED
        BY <1>3, <2>1 DEF States
<1>4. CASE e.kind = "attestation"
    <2>1. FoldEntry(s, e) = [s EXCEPT !.attestations = Append(@, e.data)]
        BY <1>4, FoldCases
    <2> QED
        BY <1>4, <2>1 DEF States
<1>5. CASE e.kind = "arc"
    <2>1. FoldEntry(s, e) = [s EXCEPT !.arc = e.seq]
        BY <1>5, FoldCases
    <2> QED
        BY <1>5, <2>1 DEF States
<1>6. CASE e.kind = "claimed"
    <2>1. FoldEntry(s, e) = [s EXCEPT !.terminal = "claimed"]
        BY <1>6, FoldCases
    <2> QED
        BY <1>6, <2>1 DEF States
<1>7. CASE e.kind = "abandoned"
    <2>1. FoldEntry(s, e) = [s EXCEPT !.terminal = "abandoned"]
        BY <1>7, FoldCases
    <2> QED
        BY <1>7, <2>1 DEF States
<1> QED
    BY <1>1, <1>2, <1>3, <1>4, <1>5, <1>6, <1>7, FactKinds

LEMMA TestimonyAppend ==
    ASSUME NEW entries \in Seq(Facts(Ulids)), NEW e \in Facts(Ulids), NEW s \in States(Ulids),
           e.kind # "bind", TestimonyRead(entries, s)
    PROVE  TestimonyRead(Append(entries, e), FoldEntry(s, e))
<1> DEFINE told == s.attestations
           more == Append(entries, e)
           last == Len(entries) + 1
<1>1. PICK at : TestimonyAt(entries, s, at)
    BY DEF TestimonyRead
<1>2. /\ at \in [DOMAIN told -> DOMAIN entries]
      /\ \A i, j \in DOMAIN told : i < j => at[i] < at[j]
      /\ \A i \in DOMAIN told : entries[at[i]].kind = "attestation" /\ entries[at[i]].data = told[i]
      /\ \A k \in DOMAIN entries : entries[k].kind = "attestation" => \E i \in DOMAIN told : at[i] = k
    BY <1>1 DEF TestimonyAt
<1>3. /\ DOMAIN entries = 1..Len(entries) /\ Len(entries) \in Nat
      /\ DOMAIN more = DOMAIN entries \cup {last}
      /\ more[last] = e
      /\ \A i \in DOMAIN entries : more[i] = entries[i] /\ i < last
    BY AppendEntry
<1> HIDE DEF more
<1>4. CASE e.kind # "attestation"
    <2>1. FoldEntry(s, e).attestations = told
        BY <1>4, AttestationsFold
    <2>2. \A i \in DOMAIN told : more[at[i]] = entries[at[i]] /\ at[i] \in DOMAIN more
        BY <1>2, <1>3
    <2>3. \A k \in DOMAIN more : more[k].kind = "attestation" => \E i \in DOMAIN told : at[i] = k
        BY <1>2, <1>3, <1>4
    <2>4. at \in [DOMAIN told -> DOMAIN more]
        BY <1>2, <1>3
    <2>5. TestimonyAt(more, FoldEntry(s, e), at)
        BY <1>2, <2>1, <2>2, <2>3, <2>4 DEF TestimonyAt
    <2> QED
        BY <2>5 DEF TestimonyRead, more
<1>5. CASE e.kind = "attestation"
    <2> DEFINE longer == Append(told, e.data)
               there == [i \in DOMAIN longer |-> IF i \in DOMAIN told THEN at[i] ELSE last]
    <2>1. FoldEntry(s, e).attestations = longer
        BY <1>5, AttestationsFold
    <2>2. told \in Seq(Attestations) /\ e.data \in Attestations
        BY <1>5, FactFields DEF States
    <2>3. /\ DOMAIN told = 1..Len(told) /\ Len(told) \in Nat
          /\ DOMAIN longer = DOMAIN told \cup {Len(told) + 1}
          /\ longer[Len(told) + 1] = e.data
          /\ \A i \in DOMAIN told : longer[i] = told[i] /\ i < Len(told) + 1
        BY <2>2
    <2> HIDE DEF longer
    <2>4. /\ \A i \in DOMAIN told : i \in DOMAIN longer /\ there[i] = at[i]
          /\ Len(told) + 1 \in DOMAIN longer /\ there[Len(told) + 1] = last
        BY <2>3
    <2>5. there \in [DOMAIN longer -> DOMAIN more]
        BY <1>2, <1>3, <2>3
    <2> HIDE DEF there
    <2>6. \A i, j \in DOMAIN longer : i < j => there[i] < there[j]
        <3> SUFFICES ASSUME NEW i \in DOMAIN longer, NEW j \in DOMAIN longer, i < j
                     PROVE  there[i] < there[j]
            OBVIOUS
        <3>1. i \in DOMAIN told
            BY <2>3
        <3>2. CASE j \in DOMAIN told
            BY <1>2, <2>4, <3>1, <3>2
        <3>3. CASE j = Len(told) + 1
            BY <1>2, <1>3, <2>4, <3>1, <3>3
        <3> QED
            BY <2>3, <3>2, <3>3
    <2>7. \A i \in DOMAIN longer : more[there[i]].kind = "attestation" /\ more[there[i]].data = longer[i]
        BY <1>2, <1>3, <1>5, <2>3, <2>4
    <2>8. \A k \in DOMAIN more : more[k].kind = "attestation" => \E i \in DOMAIN longer : there[i] = k
        BY <1>2, <1>3, <2>4
    <2>9. TestimonyAt(more, FoldEntry(s, e), there)
        BY <2>1, <2>5, <2>6, <2>7, <2>8 DEF TestimonyAt
    <2> QED
        BY <2>9 DEF TestimonyRead, more
<1> QED
    BY <1>4, <1>5

LEMMA ReadAppend ==
    ASSUME NEW entries \in Seq(Facts(Ulids)), NEW e \in Facts(Ulids), NEW s \in States(Ulids),
           e.kind # "bind", Read(entries, s),
           s.delivery # None => s.integration \in Integrations,
           e.kind = "reintegrated" => s.delivery # None,
           e.kind = "attestation" => SubjectFits(e.data)
    PROVE  Read(Append(entries, e), FoldEntry(s, e))
<1> DEFINE more == Append(entries, e)
           t == FoldEntry(s, e)
           last == Len(entries) + 1
<1>0. /\ TermsRead(entries, s) /\ ChangeRead(entries, s) /\ SnapshotRead(entries, s)
      /\ TestimonyRead(entries, s) /\ SubjectsFit(s)
    BY DEF Read
<1>1. /\ last \in DOMAIN more /\ more[last] = e
      /\ \A i \in DOMAIN entries : i \in DOMAIN more /\ more[i] = entries[i]
    BY AppendEntry
<1>2. \A kinds : /\ e.kind \in kinds => Latest(more, kinds, last)
                 /\ \A i \in DOMAIN entries :
                       e.kind \notin kinds /\ Latest(entries, kinds, i) => Latest(more, kinds, i)
    BY LatestAppend
<1>3. /\ e.kind = "amend" => t.terms = e.terms
      /\ e.kind # "amend" => t.terms = s.terms
      /\ e.kind = "deliver" => t.integration = e.integration
      /\ e.kind = "reintegrated" =>
            t.integration = [s.integration EXCEPT !.predecessor = e.predecessor, !.snapshot = e.snapshot]
      /\ e.kind # "deliver" => t.delivery = s.delivery
      /\ e.kind \notin {"deliver", "reintegrated"} => t.integration = s.integration
    BY FoldFields
<1>4. TermsRead(more, t)
    <2>1. CASE e.kind = "amend"
        <3>1. Latest(more, {"bind", "amend"}, last)
            BY <1>2, <2>1
        <3> QED
            BY <1>1, <1>3, <2>1, <3>1 DEF TermsRead
    <2>2. CASE e.kind # "amend"
        <3>1. PICK i \in DOMAIN entries : Latest(entries, {"bind", "amend"}, i) /\ entries[i].terms = s.terms
            BY <1>0 DEF TermsRead
        <3>2. Latest(more, {"bind", "amend"}, i)
            BY <1>2, <2>2, <3>1
        <3> QED
            BY <1>1, <1>3, <2>2, <3>1, <3>2 DEF TermsRead
    <2> QED
        BY <2>1, <2>2
<1>5. ChangeRead(more, t)
    <2> SUFFICES ASSUME t.delivery # None
                 PROVE  \E i \in DOMAIN more :
                            Latest(more, {"deliver"}, i) /\ more[i].integration.changeId = t.integration.changeId
        BY DEF ChangeRead
    <2>1. CASE e.kind = "deliver"
        <3>1. Latest(more, {"deliver"}, last)
            BY <1>2, <2>1
        <3> QED
            BY <1>1, <1>3, <2>1, <3>1
    <2>2. CASE e.kind # "deliver"
        <3>1. s.delivery # None /\ s.integration \in Integrations
            BY <1>3, <2>2
        <3>2. t.integration.changeId = s.integration.changeId
            BY <1>3, <2>2, <3>1 DEF Integrations
        <3>3. PICK i \in DOMAIN entries :
                 Latest(entries, {"deliver"}, i) /\ entries[i].integration.changeId = s.integration.changeId
            BY <1>0, <3>1 DEF ChangeRead
        <3>4. Latest(more, {"deliver"}, i)
            BY <1>2, <2>2, <3>3
        <3> QED
            BY <1>1, <3>2, <3>3, <3>4
    <2> QED
        BY <2>1, <2>2
<1>6. SnapshotRead(more, t)
    <2> SUFFICES ASSUME t.delivery # None
                 PROVE  \E i \in DOMAIN more :
                            /\ Latest(more, {"deliver", "reintegrated"}, i)
                            /\ PlacedSnapshot(more[i]) = t.integration.snapshot
        BY DEF SnapshotRead
    <2>1. CASE e.kind \in {"deliver", "reintegrated"}
        <3>1. Latest(more, {"deliver", "reintegrated"}, last)
            BY <1>2, <2>1
        <3>2. PlacedSnapshot(e) = t.integration.snapshot
            BY <1>3, <2>1 DEF PlacedSnapshot, Integrations
        <3> QED
            BY <1>1, <3>1, <3>2
    <2>2. CASE e.kind \notin {"deliver", "reintegrated"}
        <3>1. s.delivery # None /\ t.integration = s.integration
            BY <1>3, <2>2
        <3>2. PICK i \in DOMAIN entries : /\ Latest(entries, {"deliver", "reintegrated"}, i)
                                          /\ PlacedSnapshot(entries[i]) = s.integration.snapshot
            BY <1>0, <3>1 DEF SnapshotRead
        <3>3. Latest(more, {"deliver", "reintegrated"}, i)
            BY <1>2, <2>2, <3>2
        <3> QED
            BY <1>1, <3>1, <3>2, <3>3
    <2> QED
        BY <2>1, <2>2
<1>7. TestimonyRead(more, t)
    BY <1>0, TestimonyAppend
<1>8. SubjectsFit(t)
    <2>1. CASE e.kind = "attestation"
        <3>1. t.attestations = Append(s.attestations, e.data)
            BY <2>1, AttestationsFold
        <3>2. s.attestations \in Seq(Attestations) /\ e.data \in Attestations
            BY <2>1, FactFields DEF States
        <3>3. \A i \in DOMAIN t.attestations :
                 \/ i \in DOMAIN s.attestations /\ t.attestations[i] = s.attestations[i]
                 \/ t.attestations[i] = e.data
            BY <3>1, <3>2
        <3> QED
            BY <1>0, <2>1, <3>3 DEF SubjectsFit
    <2>2. CASE e.kind # "attestation"
        BY <1>0, <2>2, AttestationsFold DEF SubjectsFit
    <2> QED
        BY <2>1, <2>2
<1> QED
    BY <1>4, <1>5, <1>6, <1>7, <1>8 DEF Read

LEMMA ReadBind ==
    ASSUME NEW e \in Facts(Ulids), e.kind = "bind"
    PROVE  Read(<<e>>, StateFromBind(e))
<1> DEFINE s == StateFromBind(e)
<1>1. s.terms = e.terms /\ s.delivery = None /\ s.attestations = <<>>
    BY DEF StateFromBind
<1>2. DOMAIN <<e>> = {1} /\ <<e>>[1] = e
    OBVIOUS
<1>3. Latest(<<e>>, {"bind", "amend"}, 1)
    BY <1>2 DEF Latest
<1>4. TermsRead(<<e>>, s)
    BY <1>1, <1>2, <1>3 DEF TermsRead
<1>5. DOMAIN s.attestations = {}
    BY <1>1
<1>6. TestimonyAt(<<e>>, s, [i \in {} |-> 1])
    BY <1>2, <1>5 DEF TestimonyAt
<1> QED
    BY <1>1, <1>4, <1>5, <1>6 DEF Read, ChangeRead, SnapshotRead, TestimonyRead, SubjectsFit

LEMMA AdmissionJudged ==
    ASSUME WellFormed, Judged, NEW c \in Contracts, NEW e, NEW movement,
           Offered(c, e, movement), Admit(c, e, movement)
    PROVE  Judged'
<1>0. JournalRead /\ ClaimsJudged
    BY DEF Judged
<1>1. JournalRead'
    <2> SUFFICES ASSUME NEW d \in Contracts, state'[d] # None
                 PROVE  Read(journal'[d], state'[d])
        BY DEF JournalRead
    <2>1. CASE d # c
        <3>1. state'[d] = state[d] /\ journal'[d] = journal[d]
            BY <2>1, Admission
        <3> QED
            BY <1>0, <3>1 DEF JournalRead
    <2>2. CASE d = c
        <3>1. /\ journal[c] \in Seq(Facts(Ulids)) /\ e \in Facts(Ulids)
              /\ journal'[c] = Append(journal[c], e)
            BY Admission DEF WellFormed, TypeOK
        <3>2. CASE e.kind = "bind"
            <4>1. journal[c] = <<>> /\ state'[c] = StateFromBind(e)
                BY <3>2, Admission DEF WellFormed, JournalFolded
            <4>2. journal'[c] = <<e>>
                BY <3>1, <4>1
            <4> QED
                BY <2>2, <3>1, <3>2, <4>1, <4>2, ReadBind
        <3>3. CASE e.kind # "bind"
            <4>1. /\ state[c] \in States(Ulids) /\ state[c] # None
                  /\ state'[c] = FoldEntry(state[c], e)
                BY <3>3, Admission DEF Active
            <4>2. /\ state[c].delivery # None => state[c].integration \in Integrations
                  /\ Read(journal[c], state[c])
                BY <1>0, <4>1 DEF WellFormed, Integrated, JournalRead
            <4>3. /\ e.kind = "reintegrated" => state[c].delivery # None
                  /\ e.kind = "attestation" => SubjectFits(e.data)
                BY DEF Offered
            <4>4. Read(Append(journal[c], e), FoldEntry(state[c], e))
                BY <3>1, <3>3, <4>1, <4>2, <4>3, ReadAppend
            <4> QED
                BY <2>2, <3>1, <4>1, <4>4
        <3> QED
            BY <3>2, <3>3
    <2> QED
        BY <2>1, <2>2
<1>2. ClaimsJudged'
    <2> SUFFICES ASSUME NEW d \in Contracts, Claimed(state', d)
                 PROVE  state'[d].delivery # None /\ GatesSatisfied(state'[d])
        BY DEF ClaimsJudged
    <2>1. CASE d = c /\ e.kind = "claimed"
        <3>1. /\ e \in Facts(Ulids) /\ state[c] \in States(Ulids)
              /\ state'[c] = FoldEntry(state[c], e) /\ MayPlace(state, c)
            BY <2>1, Admission DEF Offered
        <3>2. state'[c] = [state[c] EXCEPT !.terminal = "claimed"]
            BY <2>1, <3>1, FoldCases
        <3>3. /\ state'[c].terms = state[c].terms /\ state'[c].integration = state[c].integration
              /\ state'[c].attestations = state[c].attestations /\ state'[c].delivery = state[c].delivery
            BY <3>1, <3>2 DEF States
        <3>4. state[c].delivery # None /\ GatesSatisfied(state[c])
            BY <3>1 DEF MayPlace
        <3>5. CurrentKeys(state'[c]) = CurrentKeys(state[c])
            BY <3>3 DEF CurrentKeys
        <3>6. \A o : CurrentTestimony(state'[c], o) = CurrentTestimony(state[c], o)
            BY <3>3, <3>5 DEF CurrentTestimony
        <3>7. \A o : Satisfied(state'[c], o) <=> Satisfied(state[c], o)
            BY <3>3, <3>6 DEF Satisfied
        <3> QED
            BY <2>1, <3>3, <3>4, <3>7 DEF GatesSatisfied
    <2>2. CASE d # c /\ Claimed(state, d) /\ state'[d] = state[d]
        BY <1>0, <2>2 DEF ClaimsJudged
    <2> QED
        BY <2>1, <2>2, ClaimedAfter
<1> QED
    BY <1>1, <1>2 DEF Judged

(* The current testimony of a delivered contract is the testimony about *)
(* the very document, change and snapshot that the contract stands for. *)
LEMMA CurrentIsAbout ==
    ASSUME NEW s \in States(Ulids), s.integration \in Integrations, NEW testimony, SubjectFits(testimony)
    PROVE  testimony.subject \subseteq CurrentKeys(s)
               <=> testimony.subject = About(s.terms, s.integration, s.integration.snapshot, testimony.obligation)
<1>1. CurrentKeys(s) = {<<"document", s.terms.document>>, <<"snapshot", s.integration.snapshot>>,
                        <<"change", s.integration.changeId>>}
    BY LedgerAssumption DEF CurrentKeys, NoneIsAbsence
<1>2. CASE testimony.obligation = Reviewed
    <2>1. PICK document \in Documents, change \in Changes : testimony.subject = ReviewSubject(document, change)
        BY <1>2 DEF SubjectFits
    <2>2. testimony.subject = {<<"document", document>>, <<"change", change>>}
        BY <2>1 DEF ReviewSubject
    <2>3. About(s.terms, s.integration, s.integration.snapshot, testimony.obligation)
             = {<<"document", s.terms.document>>, <<"change", s.integration.changeId>>}
        BY <1>2 DEF About, ReviewSubject
    <2>4. testimony.subject \subseteq CurrentKeys(s)
             <=> document = s.terms.document /\ change = s.integration.changeId
        BY <1>1, <2>2
    <2>5. ASSUME testimony.subject = {<<"document", s.terms.document>>, <<"change", s.integration.changeId>>}
          PROVE  document = s.terms.document /\ change = s.integration.changeId
        <3>1. /\ <<"document", document>> \in {<<"document", s.terms.document>>, <<"change", s.integration.changeId>>}
              /\ <<"change", change>> \in {<<"document", s.terms.document>>, <<"change", s.integration.changeId>>}
            BY <2>2, <2>5
        <3> QED
            BY <3>1
    <2> QED
        BY <2>2, <2>3, <2>4, <2>5
<1>3. CASE testimony.obligation # Reviewed
    <2>1. PICK snapshot \in Commits : testimony.subject = VerificationSubject(snapshot)
        BY <1>3 DEF SubjectFits
    <2>2. testimony.subject = {<<"snapshot", snapshot>>}
        BY <2>1 DEF VerificationSubject
    <2>3. About(s.terms, s.integration, s.integration.snapshot, testimony.obligation)
             = {<<"snapshot", s.integration.snapshot>>}
        BY <1>3 DEF About, VerificationSubject
    <2>4. testimony.subject \subseteq CurrentKeys(s) <=> snapshot = s.integration.snapshot
        BY <1>1, <2>2
    <2>5. ASSUME testimony.subject = {<<"snapshot", s.integration.snapshot>>}
          PROVE  snapshot = s.integration.snapshot
        <3>1. <<"snapshot", snapshot>> \in {<<"snapshot", s.integration.snapshot>>}
            BY <2>2, <2>5
        <3> QED
            BY <3>1
    <2> QED
        BY <2>2, <2>3, <2>4, <2>5
<1> QED
    BY <1>2, <1>3

LEMMA JudgedClaims ==
    ASSUME WellFormed, Judged
    PROVE  ClaimedJudged
<1> SUFFICES ASSUME NEW c \in Contracts, Claimed(state, c)
             PROVE  LET entries == journal[c]
                        terms == entries[LastOf(entries, {"bind", "amend"})].terms
                        integration == entries[LastOf(entries, {"deliver"})].integration
                        placed == entries[LastOf(entries, {"deliver", "reintegrated"})]
                        snapshot == IF placed.kind = "deliver" THEN placed.integration.snapshot ELSE placed.snapshot
                        Heard(o) == {i \in DOMAIN entries :
                                        /\ entries[i].kind = "attestation"
                                        /\ entries[i].data.obligation = o
                                        /\ entries[i].data.subject = About(terms, integration, snapshot, o)}
                    IN \A o \in terms.obligations :
                          \E i \in Heard(o) :
                              (\A j \in Heard(o) : j <= i) /\ entries[i].data.verdict = "satisfied"
    BY Zenon DEF ClaimedJudged
<1> DEFINE entries == journal[c]
           s == state[c]
           terms == entries[LastOf(entries, {"bind", "amend"})].terms
           integration == entries[LastOf(entries, {"deliver"})].integration
           placed == entries[LastOf(entries, {"deliver", "reintegrated"})]
           snapshot == IF placed.kind = "deliver" THEN placed.integration.snapshot ELSE placed.snapshot
           Heard(o) == {i \in DOMAIN entries :
                           /\ entries[i].kind = "attestation"
                           /\ entries[i].data.obligation = o
                           /\ entries[i].data.subject = About(terms, integration, snapshot, o)}
<1>1. s \in States(Ulids) /\ s # None /\ entries \in Seq(Facts(Ulids))
    BY StateTyped DEF Claimed, WellFormed, TypeOK
<1>2. s.delivery # None /\ GatesSatisfied(s) /\ s.integration \in Integrations
    BY <1>1 DEF Judged, ClaimsJudged, WellFormed, Integrated
<1>3. Read(entries, s)
    BY <1>1 DEF Judged, JournalRead
<1>4. terms = s.terms
    <2>1. PICK i \in DOMAIN entries : Latest(entries, {"bind", "amend"}, i) /\ entries[i].terms = s.terms
        BY <1>3 DEF Read, TermsRead
    <2> QED
        BY <1>1, <2>1, LatestIsLast
<1>5. integration.changeId = s.integration.changeId
    <2>1. PICK i \in DOMAIN entries :
             Latest(entries, {"deliver"}, i) /\ entries[i].integration.changeId = s.integration.changeId
        BY <1>2, <1>3 DEF Read, ChangeRead
    <2> QED
        BY <1>1, <2>1, LatestIsLast
<1>6. snapshot = s.integration.snapshot
    <2>1. PICK i \in DOMAIN entries : /\ Latest(entries, {"deliver", "reintegrated"}, i)
                                      /\ PlacedSnapshot(entries[i]) = s.integration.snapshot
        BY <1>2, <1>3 DEF Read, SnapshotRead
    <2>2. placed = entries[i]
        BY <1>1, <2>1, LatestIsLast
    <2> QED
        BY <2>1, <2>2 DEF PlacedSnapshot
<1>7. \A o : About(terms, integration, snapshot, o) = About(s.terms, s.integration, s.integration.snapshot, o)
    BY <1>4, <1>5, <1>6 DEF About
<1> HIDE DEF terms, integration, placed, snapshot, entries
<1>8. PICK at : TestimonyAt(entries, s, at)
    BY <1>3 DEF Read, TestimonyRead
<1>9. /\ at \in [DOMAIN s.attestations -> DOMAIN entries]
      /\ \A i, j \in DOMAIN s.attestations : i < j => at[i] < at[j]
      /\ \A i \in DOMAIN s.attestations :
            entries[at[i]].kind = "attestation" /\ entries[at[i]].data = s.attestations[i]
      /\ \A k \in DOMAIN entries :
            entries[k].kind = "attestation" => \E i \in DOMAIN s.attestations : at[i] = k
      /\ DOMAIN s.attestations \subseteq Nat /\ DOMAIN entries \subseteq Nat
    <2>1. DOMAIN entries \subseteq Nat
        BY <1>1
    <2>2. DOMAIN s.attestations \subseteq Nat
        BY <1>1 DEF States
    <2> QED
        BY <1>8, <2>1, <2>2 DEF TestimonyAt
<1>10. \A o : \A i \in DOMAIN s.attestations : i \in CurrentTestimony(s, o) <=> at[i] \in Heard(o)
    <2> SUFFICES ASSUME NEW o, NEW i \in DOMAIN s.attestations
                 PROVE  i \in CurrentTestimony(s, o) <=> at[i] \in Heard(o)
        OBVIOUS
    <2>1. SubjectFits(s.attestations[i])
        BY <1>3 DEF Read, SubjectsFit
    <2>2. s.attestations[i].subject \subseteq CurrentKeys(s)
             <=> s.attestations[i].subject
                    = About(s.terms, s.integration, s.integration.snapshot, s.attestations[i].obligation)
        BY <1>1, <1>2, <2>1, CurrentIsAbout
    <2>3. at[i] \in DOMAIN entries /\ entries[at[i]].kind = "attestation"
          /\ entries[at[i]].data = s.attestations[i]
        BY <1>9
    <2> QED
        BY <1>7, <2>2, <2>3 DEF CurrentTestimony
<1>11. SUFFICES ASSUME NEW o \in s.terms.obligations
                PROVE  \E i \in Heard(o) :
                           (\A j \in Heard(o) : j <= i) /\ entries[i].data.verdict = "satisfied"
    BY <1>4 DEF entries, terms, integration, placed, snapshot
<1>12. PICK i \in CurrentTestimony(s, o) : /\ \A k \in CurrentTestimony(s, o) : k <= i
                                           /\ s.attestations[i].verdict = "satisfied"
    BY <1>2 DEF GatesSatisfied, Satisfied
<1>13. i \in DOMAIN s.attestations /\ at[i] \in Heard(o) /\ entries[at[i]].data.verdict = "satisfied"
    BY <1>9, <1>10, <1>12 DEF CurrentTestimony
<1>14. ASSUME NEW j \in Heard(o)
       PROVE  j <= at[i]
    <2>1. PICK k \in DOMAIN s.attestations : at[k] = j
        BY <1>9
    <2>2. k \in CurrentTestimony(s, o)
        BY <1>10, <2>1
    <2>3. k <= i
        BY <1>12, <2>2
    <2>4. k \in Nat /\ i \in Nat /\ at[k] \in Nat /\ at[i] \in Nat
        BY <1>9, <1>13
    <2>5. k = i \/ k < i
        BY <2>3, <2>4
    <2>6. at[k] = at[i] \/ at[k] < at[i]
        BY <1>9, <1>13, <2>5
    <2> QED
        BY <2>1, <2>4, <2>6
<1> QED
    BY <1>13, <1>14

(* What a claim landed was judged, by the journal's own last testimony. *)
THEOREM LandedWasJudged == Spec => []ClaimedJudged
<1>1. Init => Judged
    BY DEF Init, Judged, JournalRead, ClaimsJudged, Claimed
<1>2. ASSUME WellFormed, Judged, [Next]_ledgerVars
      PROVE  Judged'
    <2>1. CASE \E c \in Contracts : Fact(c)
        <3>1. PICK c \in Contracts : Fact(c)
            BY <2>1
        <3>2. PICK e, movement : Offered(c, e, movement) /\ Admit(c, e, movement)
            BY <1>2, <3>1, FactOffered
        <3> QED
            BY <1>2, <3>2, AdmissionJudged
    <2>2. CASE World
        <3>1. state' = state /\ journal' = journal
            BY <1>2, <2>2, Worldly
        <3> QED
            BY <1>2, <3>1 DEF Judged, JournalRead, ClaimsJudged, Claimed
    <2>3. CASE UNCHANGED ledgerVars
        <3>1. state' = state /\ journal' = journal
            BY <2>3 DEF ledgerVars
        <3> QED
            BY <1>2, <3>1 DEF Judged, JournalRead, ClaimsJudged, Claimed
    <2> QED
        BY <1>2, <2>1, <2>2, <2>3 DEF Next
<1>3. WellFormed /\ Judged /\ [Next]_ledgerVars => Judged'
    BY <1>2
<1>4. WellFormed /\ Judged => ClaimedJudged
    BY JudgedClaims
<1> QED
    BY <1>1, <1>3, <1>4, LedgerWellFormed, PTL DEF Spec
=============================================================================
