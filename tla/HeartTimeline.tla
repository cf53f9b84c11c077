--------------------------- MODULE HeartTimeline ---------------------------
(***************************************************************************)
(* The timeline of one Akuma's heart: what its transactions append, what   *)
(* pruning takes away when the timeline outgrows its limit, and what the   *)
(* readers of the timeline then see.  AkumaHeart has the same tables       *)
(* without pruning, and AkumaBodies who calls what; here the Body runs one *)
(* Turn at a time and anything else may come between its steps.            *)
(*                                                                         *)
(* heart holds the tables that pruning reaches.  Deleting a row of the     *)
(* timeline cascades along the foreign keys, and a row that is referred to *)
(* without a cascade makes the transaction fail.                           *)
(***************************************************************************)
EXTENDS TimelineProjection

CONSTANTS
    Tells,        \* Tell identities
    Activities,   \* the events a provider narrates
    Outcomes,     \* how a Turn may end
    Limit,        \* how many rows the timeline keeps (ACTIVITY_LIMIT)
    Slack,        \* how many facts pass between two prunings
    TailBudget, VoiceBudget,  \* how much ordinary detail a status shows
    MaxFacts,     \* bound: facts ever inserted
    MaxBodies,    \* bound: Bodies
    None          \* absence

ASSUME TimelineAssumption ==
    /\ Limit \in Nat \ {0} /\ Slack \in Nat /\ TailBudget \in Nat /\ VoiceBudget \in Nat
    /\ MaxFacts \in Nat /\ MaxBodies \in Nat

VARIABLES
    heart,    \* facts: every fact ever inserted, by its sequence number; rows: those retained;
              \* ends: <<Turn, end>>; deliveries: [tell, turn, route]; receipts: Tells with an exact
              \* receipt; members: <<Body, Tell>> of open dispositions; checked: the last pruning
    body,     \* [n, end]: the latest Body
    pause,    \* [body, tell]: the interrupt barrier, or None
    decided   \* per Body: "none", "open" or "resolved"

vars == <<heart, body, pause, decided>>

Fact(kind, turn, what) == [kind |-> kind, turn |-> turn, what |-> what]
NextSequence(h) == Len(h.facts) + 1
Insert(h, fact) == [h EXCEPT !.facts = Append(@, fact), !.rows = @ \cup {NextSequence(h)}]

RowsOf(h, kinds) == {s \in h.rows : h.facts[s].kind \in kinds}
TurnRows(h) == RowsOf(h, {"turn-start"})
TurnsEnded(h) == {e[1] : e \in h.ends}
TellRows(h) == {h.facts[s].what : s \in RowsOf(h, {"tell"})}
Place(h, t) == Latest({s \in Kind(h.facts, "tell") : h.facts[s].what = t})

Told(h, t) == \/ t \in h.receipts
              \/ \E d \in h.deliveries : d.tell = t /\ d.route \in {"launch", "unavailable", "fenced"}
Pending(h) == {t \in TellRows(h) : ~Told(h, t)}
Held(h) == {m[2] : m \in h.members}

----------------------------------------------------------------------------
(* Pruning. *)

(* Mutation: a Turn that ended lately is not held by its end.              *)
ProtectedTurnsByNarration(h, cutoff) ==
    (TurnRows(h) \ TurnsEnded(h))
    \cup {h.facts[s].turn : s \in {s \in RowsOf(h, {"call", "activity", "report"}) : s >= cutoff}}
    \cup {d.turn : d \in {d \in h.deliveries : d.tell \in Pending(h) \cup Held(h)}}

(* Mutation: the proof of a Tell that is told is let go, though a decision *)
(* still waits for it.                                                     *)
ProtectedTurnsOfPending(h, cutoff) ==
    (TurnRows(h) \ TurnsEnded(h))
    \cup {h.facts[s].turn : s \in {s \in RowsOf(h, {"call", "activity", "report"}) : s >= cutoff}}
    \cup {e[1] : e \in {e \in h.ends : e[2] >= cutoff}}
    \cup {d.turn : d \in {d \in h.deliveries : d.tell \in Pending(h)}}

ProtectedTurns(h, cutoff) ==
    (TurnRows(h) \ TurnsEnded(h))
    \cup {h.facts[s].turn : s \in {s \in RowsOf(h, {"call", "activity", "report"}) : s >= cutoff}}
    \cup {e[1] : e \in {e \in h.ends : e[2] >= cutoff}}
    \cup {d.turn : d \in {d \in h.deliveries : d.tell \in Pending(h) \cup Held(h)}}

(* Mutation: pending Tells are as old as any other fact.                   *)
ProtectedTurnsOnly(h, cutoff) ==
    LET kept == ProtectedTurns(h, cutoff)
    IN  kept
        \cup {s \in RowsOf(h, {"call"}) : h.facts[s].turn \in kept}
        \cup {e[2] : e \in {e \in h.ends : e[1] \in kept}}
        \cup {Place(h, t) : t \in Held(h)}

Protected(h, cutoff) ==
    LET kept == ProtectedTurns(h, cutoff)
    IN  kept
        \cup {s \in RowsOf(h, {"call"}) : h.facts[s].turn \in kept}
        \cup {e[2] : e \in {e \in h.ends : e[1] \in kept}}
        \cup {Place(h, t) : t \in Pending(h) \cup Held(h)}

Cascade(h, rows) ==
    [h EXCEPT !.rows = rows,
              !.ends = {e \in @ : e[1] \in rows /\ e[2] \in rows},
              !.deliveries = {d \in @ : d.turn \in rows /\ Place(h, d.tell) \in rows},
              !.receipts = {t \in @ : Place(h, t) \in rows}]

Cutoff(h) == CHOOSE s \in h.rows : Cardinality({r \in h.rows : r >= s}) = Limit

Due(h) == Len(h.facts) > Max({Limit + Slack, h.checked + Slack})

Prune(h, released) ==
    IF ~released /\ ~Due(h) THEN h
    ELSE LET checked == [h EXCEPT !.checked = Len(h.facts)]
         IN  IF Cardinality(h.rows) < Limit THEN checked
             ELSE Cascade(checked, {s \in h.rows : s >= Cutoff(h) \/ s \in Protected(h, Cutoff(h))})

----------------------------------------------------------------------------
(* The transactions. *)

Fits(n) == Len(heart.facts) + n <= MaxFacts
OpenTurns(h) == {t \in TurnRows(h) \ TurnsEnded(h) : h.facts[t].what = body.n}
Current == Latest(OpenTurns(heart))
Running == body.end = "open"
Controlled(b) == IF pause = None THEN FALSE ELSE pause.body = b
ProtectedByPause(t) == IF Controlled(body.n) THEN Place(heart, t) >= Place(heart, pause.tell) ELSE FALSE

Init ==
    /\ heart = [facts |-> <<>>, rows |-> {}, ends |-> {}, deliveries |-> {}, receipts |-> {},
                members |-> {}, checked |-> 0]
    /\ body = [n |-> 0, end |-> "exited"]
    /\ pause = None
    /\ decided = [b \in 1..MaxBodies |-> "none"]

(* A Body is recorded when the host of the one before it is gone, which    *)
(* may have left a Turn open.  It takes an interrupted Body's barrier away.*)
RecordBody ==
    /\ body.n < MaxBodies
    /\ pause # None => Controlled(body.n) /\ body.end # "open"
    /\ body' = [n |-> body.n + 1, end |-> "open"]
    /\ pause' = None
    /\ UNCHANGED <<heart, decided>>

TurnStarted(h, withCall) ==
    LET t == NextSequence(h)
        started == Insert(h, Fact("turn-start", t, body.n))
    IN  IF withCall THEN Insert(started, Fact("call", t, None)) ELSE started

BeginTurn(withCall) ==
    /\ Running /\ Current = 0 /\ ~Controlled(body.n)
    /\ Fits(IF withCall THEN 2 ELSE 1)
    /\ heart' = Prune(TurnStarted(heart, withCall), FALSE)
    /\ UNCHANGED <<body, pause, decided>>

AppendActivity(event) ==
    /\ Running /\ Current # 0 /\ Fits(1)
    /\ heart' = Prune(Insert(heart, Fact("activity", Current, event)), FALSE)
    /\ UNCHANGED <<body, pause, decided>>

RecordReport ==
    /\ Running /\ Current # 0 /\ Fits(1)
    /\ heart' = Prune(Insert(heart, Fact("report", Current, None)), FALSE)
    /\ UNCHANGED <<body, pause, decided>>

RecordPendingTell(t) == heart' = Prune(Insert(heart, Fact("tell", 0, t)), FALSE)

RecordTell(t) ==
    /\ t \notin TellRows(heart) /\ Fits(1)
    /\ RecordPendingTell(t)
    /\ UNCHANGED <<body, pause, decided>>

RecordInterrupt(t) ==
    /\ t \notin TellRows(heart) /\ Fits(1)
    /\ body.n > 0 /\ (pause # None => Controlled(body.n))
    /\ RecordPendingTell(t)
    /\ pause' = IF pause = None THEN [body |-> body.n, tell |-> t] ELSE pause
    /\ UNCHANGED <<body, decided>>

RecordTellDelivery(t, route) ==
    /\ Running /\ Current # 0
    /\ t \in Pending(heart) /\ ~ProtectedByPause(t)
    /\ ~\E d \in heart.deliveries : d.tell = t /\ d.turn = Current
    /\ heart' = Prune([heart EXCEPT !.deliveries = @ \cup {[tell |-> t, turn |-> Current, route |-> route]}], TRUE)
    /\ UNCHANGED <<body, pause, decided>>

(* A receipt for exactly this Tell stays with the Tell; one for the fence  *)
(* of its delivery goes, like the delivery, when the Turn goes.            *)
Receipted(h, t, evidence) ==
    IF evidence = "exact" THEN [h EXCEPT !.receipts = @ \cup {t}]
    ELSE [h EXCEPT !.deliveries = {IF d.tell = t /\ d.turn = Current THEN [d EXCEPT !.route = "fenced"] ELSE d : d \in @}]

RecordTellReceipt(t, evidence) ==
    /\ Running /\ Current # 0
    /\ t \in Pending(heart) /\ ~ProtectedByPause(t)
    /\ [tell |-> t, turn |-> Current, route |-> "required"] \in heart.deliveries
    /\ heart' = Prune(Receipted(heart, t, evidence), TRUE)
    /\ UNCHANGED <<body, pause, decided>>

TurnEnded(h, t, outcome) ==
    [Insert(h, Fact("turn-end", t, outcome)) EXCEPT !.ends = @ \cup {<<t, NextSequence(h)>>}]

EndTurn(outcome) ==
    /\ Running /\ Current # 0 /\ Fits(1)
    /\ heart' = Prune(TurnEnded(heart, Current, outcome), TRUE)
    /\ UNCHANGED <<body, pause, decided>>

FinishBodyIfIdle ==
    /\ Running /\ Current = 0
    /\ ~Controlled(body.n) /\ Pending(heart) = {}
    /\ body' = [body EXCEPT !.end = "exited"]
    /\ UNCHANGED <<heart, pause, decided>>

(* What a Body leaves pending is decided once.  One that still runs is put *)
(* down by a handoff; control keeps the decision for who controls it.      *)
Deciding(handoff) ==
    /\ decided[body.n] = "none" /\ ~Controlled(body.n) /\ Pending(heart) # {}
    /\ Running => handoff
DecidedOn(h) == [h EXCEPT !.members = @ \cup {<<body.n, t>> : t \in Pending(h)}]

DecidePendingTells(handoff) ==
    /\ body.n > 0 /\ Current = 0 /\ decided[body.n] # "resolved"
    /\ heart' = Prune(IF Deciding(handoff) THEN DecidedOn(heart) ELSE heart, FALSE)
    /\ decided' = [decided EXCEPT ![body.n] = IF Deciding(handoff) THEN "open" ELSE @]
    /\ body' = [body EXCEPT !.end = IF Running /\ handoff /\ (Controlled(body.n) \/ Deciding(handoff))
                                    THEN "put-down" ELSE @]
    /\ UNCHANGED pause

CancelBodyTurns(handoff) ==
    /\ Running /\ (Current # 0 => Fits(1))
    /\ LET canceled == IF Current = 0 THEN heart ELSE TurnEnded(heart, Current, "canceled")
           decides == handoff /\ Deciding(handoff)
       IN  /\ heart' = Prune(IF decides THEN DecidedOn(canceled) ELSE canceled, Current # 0)
           /\ decided' = [decided EXCEPT ![body.n] = IF decides THEN "open" ELSE @]
    /\ body' = [body EXCEPT !.end = "put-down"]
    /\ UNCHANGED pause

Release(b, h) ==
    /\ heart' = Prune([h EXCEPT !.members = {m \in @ : m[1] # b}], TRUE)
    /\ decided' = [decided EXCEPT ![b] = "resolved"]
    /\ UNCHANGED <<body, pause>>

MembersOf(b) == {m[2] : m \in {m \in heart.members : m[1] = b}}

(* Control supersedes the decision; else every member must be told, if     *)
(* only because it is given up as undelivered.                             *)
ResolveDisposition(b, undelivered) ==
    /\ decided[b] = "open"
    /\ LET h == IF undelivered /\ ~Controlled(b)
                THEN [heart EXCEPT !.receipts = @ \cup (MembersOf(b) \cap Pending(heart))]
                ELSE heart
       IN  /\ Controlled(b) \/ MembersOf(b) \cap Pending(h) = {}
           /\ Release(b, h)

WitnessKill ==
    /\ body.n > 0 /\ body.end = "put-down" /\ decided[body.n] = "open"
    /\ Release(body.n, heart)

Next ==
    \/ RecordBody
    \/ \E withCall \in BOOLEAN : BeginTurn(withCall)
    \/ \E event \in Activities : AppendActivity(event)
    \/ RecordReport
    \/ \E t \in Tells :
        \/ RecordTell(t)
        \/ RecordInterrupt(t)
        \/ \E route \in {"launch", "unavailable", "required"} : RecordTellDelivery(t, route)
        \/ \E evidence \in {"exact", "fence"} : RecordTellReceipt(t, evidence)
    \/ \E outcome \in Outcomes : EndTurn(outcome)
    \/ FinishBodyIfIdle
    \/ \E handoff \in BOOLEAN : DecidePendingTells(handoff) \/ CancelBodyTurns(handoff)
    \/ \E b \in 1..MaxBodies, undelivered \in BOOLEAN : ResolveDisposition(b, undelivered)
    \/ WitnessKill

Spec == Init /\ [][Next]_vars

----------------------------------------------------------------------------
(* What the readers of the timeline see. *)

Decoded(h, s) ==
    [kind |-> h.facts[s].kind, turn |-> h.facts[s].turn, what |-> h.facts[s].what,
     told |-> h.facts[s].kind = "tell" /\ Told(h, h.facts[s].what),
     reached |-> {<<d.turn, d.route>> : d \in {d \in h.deliveries : d.tell = h.facts[s].what}}]
Slice(h, sequences) == [s \in sequences |-> Decoded(h, s)]

(* A history reads all that is retained; a status only the last Turn, the  *)
(* Tells delivered to it, and the Tells it must show.                      *)
Timeline(h) == Slice(h, h.rows)

(* Mutation: a status reads no Tell that is told.                          *)
StatusRowsPending(h, admitted) ==
    LET frontier == Latest(TurnRows(h))
    IN  {s \in h.rows : h.facts[s].kind # "tell" /\ h.facts[s].turn = frontier}
        \cup (IF admitted # 0 THEN {admitted} ELSE {Place(h, t) : t \in Pending(h)})

StatusRows(h, admitted) ==
    LET frontier == Latest(TurnRows(h))
    IN  {s \in h.rows : h.facts[s].kind # "tell" /\ h.facts[s].turn = frontier}
        \cup {Place(h, d.tell) : d \in {d \in h.deliveries : d.turn = frontier}}
        \cup (IF admitted # 0 THEN {admitted} ELSE {Place(h, t) : t \in Pending(h)})

Status(h, admitted) == Slice(h, StatusRows(h, admitted))
Asked(h) == {0} \cup {Place(h, t) : t \in TellRows(h)}

----------------------------------------------------------------------------
(* Whatever is retained can be decoded: no row of the timeline has lost    *)
(* the Turn it belongs to, and no Turn has lost its end.  A reader would   *)
(* throw on the first such row, and the Akuma could not be read again.     *)
TimelineDecodes ==
    \A s \in heart.rows :
        /\ heart.facts[s].kind \in {"call", "activity", "report"} => heart.facts[s].turn \in heart.rows
        /\ heart.facts[s].kind = "turn-end" => <<heart.facts[s].turn, s>> \in heart.ends
        /\ heart.facts[s].kind = "turn-start" =>
               \A e \in Ends(heart.facts, s) : <<s, e>> \in heart.ends

(* A Turn that has not ended and its call, the Tells of an open            *)
(* disposition, and the Tell an interrupt is held at are there.            *)
HeldFactsKept ==
    /\ \A s \in Turns(heart.facts) : Ends(heart.facts, s) = {} =>
           /\ s \in heart.rows
           /\ \A c \in Kind(heart.facts, "call") : heart.facts[c].turn = s => c \in heart.rows
    /\ Held(heart) \subseteq TellRows(heart)
    /\ pause # None => pause.tell \in TellRows(heart)

Settles(t) ==
    \/ \E route \in {"launch", "unavailable"} : RecordTellDelivery(t, route)
    \/ \E evidence \in {"exact", "fence"} : RecordTellReceipt(t, evidence)
    \/ \E b \in 1..MaxBodies : ResolveDisposition(b, TRUE) /\ t \in MembersOf(b)

(* Pruning takes nothing that something still waits for.  What is left can *)
(* be decoded and holds every open Turn, disposition and interrupt; a      *)
(* pending Tell is lost only in the very step that tells it; and one that  *)
(* is told never turns pending again, to be told a second time, because    *)
(* the Turn that took it is gone.                                          *)
PruningIsSafe ==
    [][ /\ TimelineDecodes' /\ HeldFactsKept'
        /\ \A t \in TellRows(heart) :
             IF Told(heart, t) THEN t \in TellRows(heart') => Told(heart', t)
             ELSE t \notin TellRows(heart') => Settles(t)]_vars

(* A reader who follows the history by a cursor is never overtaken: no row *)
(* appears at a place the timeline had already passed, though completions  *)
(* move a tool's row, answers fold the last word, and pruning takes rows.  *)
RowsOnlyAppend ==
    [][\A row \in Rows(Timeline(heart')) :
          \/ row.sequence > Len(heart.facts)
          \/ \E old \in Rows(Timeline(heart)) : old.sequence = row.sequence]_vars

Shown(entries) == {entries[n].row : n \in {n \in DOMAIN entries : "row" \in DOMAIN entries[n]}}
GapSizes(entries) == [n \in {n \in DOMAIN entries : "gap" \in DOMAIN entries[n]} |-> entries[n].gap]

(* An open status names its opening input once, hides no active tool, no   *)
(* word said and no pending Tell, and its gaps count all it hides.         *)
SnapshotComplete ==
    LET ledger == Ledger(Timeline(heart))
        snapshot == Snapshot(ledger, 0, TailBudget, VoiceBudget)
        shown == Shown(snapshot.entries)
        gaps == GapSizes(snapshot.entries)
    IN  snapshot.kind = "open" =>
            /\ Cardinality(snapshot.opening) <= 1 /\ snapshot.opening \subseteq shown
            /\ \A row \in Window(ledger) : row.state = "active" \/ row.kind = "said" => row \in shown
            /\ \A t \in Pending(heart) : \E row \in shown : row.sequence = Place(heart, t)
            /\ MapThenSumSet(LAMBDA n : gaps[n], DOMAIN gaps) = Cardinality(Window(ledger) \ shown)

(* A status, which reads few rows, shows what the whole retained timeline  *)
(* would show once a Turn has begun, and that is complete: what must be    *)
(* seen is seen, and what is not is counted.                               *)
StatusAgrees ==
    /\ SnapshotComplete
    /\ TurnRows(heart) # {} =>
           LET ledger == Ledger(Timeline(heart))
           IN  \A admitted \in Asked(heart) :
                   Snapshot(Ledger(Status(heart, admitted)), admitted, TailBudget, VoiceBudget)
                     = Snapshot(ledger, admitted, TailBudget, VoiceBudget)
=============================================================================
