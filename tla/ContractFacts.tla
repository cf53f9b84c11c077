--------------------------- MODULE ContractFacts ---------------------------
(***************************************************************************)
(* The pure core of a Contract: its journal entries, the folded state they *)
(* denote, currency of testimony, Gates, prerequisites, and the guards of  *)
(* every verb's decision.  Nothing here has state; ContractLedger and      *)
(* ContractProtocol apply these operators.                                 *)
(*                                                                         *)
(* Abstractions of data.  A commit is the sequence of changes on its       *)
(* first-parent history, so the squash integration of a change on a        *)
(* predecessor is Append(predecessor, change) and "materialized again"     *)
(* and "reused" name the same commit.  A document key stands for the whole *)
(* document; segments, notes, actors and timestamps are left out (no       *)
(* producer in the code names a segment in a subject).  A decision is the  *)
(* guard May*; the wording of a refusal is not modelled.                   *)
(***************************************************************************)
EXTENDS Integers, Sequences

CONSTANTS
    Contracts,   \* contract identities
    Branches,    \* target branch names (refs/heads/...)
    Documents,   \* document keys
    Changes,     \* worktree content identities (change IDs)
    Checks,      \* requirements of the "verified" gate
    Reviewed,    \* the singleton requirement of the "reviewed" gate
    Terms,       \* the terms that documents spell out
    Foreign,     \* a commit that keiyaku did not make
    None         \* absence

Obligations == Checks \cup {Reviewed}
Targets == Branches \cup Contracts      \* a branch, or another contract's worktree HEAD
Commits == Seq(Changes \cup {Foreign})

(* Testimony is kept per gate and requirement, and the two gates differ. *)
ASSUME ObligationsAssumption == Reviewed \notin Checks

ASSUME TermsAssumption ==
    Terms \subseteq [document: Documents, obligations: SUBSET Obligations, after: SUBSET Contracts]

Integrations == [predecessor: Commits, snapshot: Commits, changeId: Changes]
Verdicts == {"satisfied", "unsatisfied"}

(***************************************************************************)
(* Dependency keys and subjects.                                           *)
(***************************************************************************)
Keys == ({"document"} \X Documents) \cup ({"change"} \X Changes) \cup ({"snapshot"} \X Commits)
ReviewSubject(document, change) == {<<"document", document>>, <<"change", change>>}
VerificationSubject(snapshot) == {<<"snapshot", snapshot>>}

Attestations == [obligation: Obligations, subject: SUBSET Keys, verdict: Verdicts]

(***************************************************************************)
(* The folded state of one contract.                                       *)
(***************************************************************************)
States(Ulids) ==
    [start: Commits, target: Targets \cup {None}, terms: Terms,
     delivery: Ulids \cup {None}, integration: Integrations \cup {None},
     attestations: Seq(Attestations), arc: Nat,
     terminal: {"active", "claimed", "abandoned"}]

StateFromBind(e) ==
    [start |-> e.start, target |-> e.target, terms |-> e.terms,
     delivery |-> None, integration |-> None, attestations |-> <<>>, arc |-> 0,
     terminal |-> "active"]

(* The testimony keys that a state makes current. *)
CurrentKeys(s) ==
    {<<"document", s.terms.document>>}
        \cup (IF s.integration = None THEN {}
              ELSE {<<"snapshot", s.integration.snapshot>>, <<"change", s.integration.changeId>>})

(* Mutation: testimony about anything once current still counts. *)
CurrentTestimonyStale(s, o) ==
    {i \in DOMAIN s.attestations : s.attestations[i].obligation = o}

CurrentTestimony(s, o) ==
    {i \in DOMAIN s.attestations : /\ s.attestations[i].obligation = o
                                   /\ s.attestations[i].subject \subseteq CurrentKeys(s)}

(* The latest current testimony about o is favourable. *)
Satisfied(s, o) ==
    \E i \in CurrentTestimony(s, o) :
        /\ \A k \in CurrentTestimony(s, o) : k <= i
        /\ s.attestations[i].verdict = "satisfied"

GatesSatisfied(s) == \A o \in s.terms.obligations : Satisfied(s, o)

(***************************************************************************)
(* The fold: FoldAccepts is the condition under which foldEntry does not   *)
(* throw AuthorityCorruptionError, FoldEntry what it then returns.         *)
(***************************************************************************)
FoldAccepts(s, e) ==
    /\ s.terminal = "active"
    /\ e.kind # "bind"
    /\ e.kind \in {"reintegrated", "claimed"} => s.delivery # None
    /\ e.kind = "claimed" => e.delivery = s.delivery /\ GatesSatisfied(s)
    /\ e.kind = "arc" => e.seq = s.arc + 1

FoldEntry(s, e) ==
    CASE e.kind = "amend" -> [s EXCEPT !.terms = e.terms]
      [] e.kind = "deliver" -> [s EXCEPT !.delivery = e.entry, !.integration = e.integration]
      [] e.kind = "reintegrated" ->
            [s EXCEPT !.integration.predecessor = e.predecessor, !.integration.snapshot = e.snapshot]
      [] e.kind = "attestation" -> [s EXCEPT !.attestations = Append(@, e.data)]
      [] e.kind = "arc" -> [s EXCEPT !.arc = e.seq]
      [] e.kind = "claimed" -> [s EXCEPT !.terminal = "claimed"]
      [] e.kind = "abandoned" -> [s EXCEPT !.terminal = "abandoned"]

(***************************************************************************)
(* Guards of the decisions.  obs maps every contract to its folded state,  *)
(* or None where no journal exists.                                        *)
(***************************************************************************)
(* Mutation: an ended contract still counts as active. *)
ActiveThoughEnded(obs, c) == obs[c] # None

Active(obs, c) == obs[c] # None /\ obs[c].terminal = "active"
Claimed(obs, c) == obs[c] # None /\ obs[c].terminal = "claimed"

(* A contract target must be another contract that is still open. *)
TargetOpen(obs, c, target) == target \in Contracts => target # c /\ Active(obs, target)

AfterOf(obs, c) == IF obs[c] = None THEN {} ELSE obs[c].terms.after

(* Every prerequisite-closed set that holds the prerequisites holds c. *)
PrerequisitesReach(obs, c, prerequisites) ==
    \A R \in SUBSET Contracts :
        prerequisites \subseteq R /\ (\A x \in R : AfterOf(obs, x) \subseteq R) => c \in R

Known(obs, prerequisites) == \A a \in prerequisites : obs[a] # None

MayBind(obs, c, target, terms) ==
    /\ obs[c] = None
    /\ TargetOpen(obs, c, target)
    /\ c \notin terms.after
    /\ Known(obs, terms.after)

(* Mutation: amend looks for unknown prerequisites, never for a cycle. *)
MayAmendIntoCycle(obs, c, source, terms) ==
    /\ Active(obs, c)
    /\ obs[c].terms = source
    /\ Known(obs, terms.after)

MayAmend(obs, c, source, terms) ==
    /\ Active(obs, c)
    /\ obs[c].terms = source
    /\ Known(obs, terms.after)
    /\ ~PrerequisitesReach(obs, c, terms.after)

MayDeliver(obs, c, document) ==
    /\ Active(obs, c)
    /\ TargetOpen(obs, c, obs[c].target)
    /\ obs[c].terms.document = document

MayReintegrate(obs, c) ==
    /\ Active(obs, c)
    /\ TargetOpen(obs, c, obs[c].target)
    /\ obs[c].delivery # None

(* Mutation: placement is content with prerequisites that are known. *)
MayPlaceEarly(obs, c) ==
    /\ Active(obs, c)
    /\ TargetOpen(obs, c, obs[c].target)
    /\ obs[c].delivery # None
    /\ Known(obs, obs[c].terms.after)
    /\ GatesSatisfied(obs[c])

MayPlace(obs, c) ==
    /\ Active(obs, c)
    /\ TargetOpen(obs, c, obs[c].target)
    /\ obs[c].delivery # None
    /\ \A a \in obs[c].terms.after : Claimed(obs, a)
    /\ GatesSatisfied(obs[c])

(***************************************************************************)
(* The fact each verb offers, and the ref movement a placement carries.    *)
(***************************************************************************)
BindFact(u, start, target, terms) ==
    [kind |-> "bind", entry |-> u, start |-> start, target |-> target, terms |-> terms]
AmendFact(u, terms) == [kind |-> "amend", entry |-> u, terms |-> terms]
DeliverFact(u, integration) == [kind |-> "deliver", entry |-> u, integration |-> integration]
ReintegratedFact(u, predecessor, snapshot) ==
    [kind |-> "reintegrated", entry |-> u, predecessor |-> predecessor, snapshot |-> snapshot]
AttestationFact(u, o, subject, verdict) ==
    [kind |-> "attestation", entry |-> u,
     data |-> [obligation |-> o, subject |-> subject, verdict |-> verdict]]
ClaimedFact(u, s) == [kind |-> "claimed", entry |-> u, delivery |-> s.delivery]
(* Mutation: the arc repeats the last sequence number. *)
ArcFactRepeated(u, s) == [kind |-> "arc", entry |-> u, seq |-> s.arc]

ArcFact(u, s) == [kind |-> "arc", entry |-> u, seq |-> s.arc + 1]
AbandonedFact(u) == [kind |-> "abandoned", entry |-> u]

(* Every journal entry whose identity is in U. *)
Facts(U) ==
    [kind: {"bind"}, entry: U, start: Commits, target: Targets \cup {None}, terms: Terms]
        \cup [kind: {"amend"}, entry: U, terms: Terms]
        \cup [kind: {"deliver"}, entry: U, integration: Integrations]
        \cup [kind: {"reintegrated"}, entry: U, predecessor: Commits, snapshot: Commits]
        \cup [kind: {"attestation"}, entry: U, data: Attestations]
        \cup [kind: {"claimed"}, entry: U, delivery: U]
        \cup [kind: {"arc"}, entry: U, seq: Nat]
        \cup [kind: {"abandoned"}, entry: U]

(* The squash integration of a change on a predecessor. *)
Integration(predecessor, change) ==
    [predecessor |-> predecessor, snapshot |-> Append(predecessor, change), changeId |-> change]

(* The movement of the target that a claim publishes with its journal entry. *)
Movements == [ref: Targets, expected: Commits, new: Commits]

Movement(s) ==
    IF s.target = None THEN None
    ELSE [ref |-> s.target, expected |-> s.integration.predecessor, new |-> s.integration.snapshot]

(* Absence is no value of any kind, nor an entry identity. *)
NoneIsAbsence(U) ==
    None \notin Targets \cup U \cup Commits \cup Integrations \cup States(U) \cup Movements
============================================================================
