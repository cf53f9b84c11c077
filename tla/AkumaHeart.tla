------------------------------ MODULE AkumaHeart ------------------------------
(***************************************************************************)
(* The heart of one Akuma: the SQLite database that its Bodies, tellers,   *)
(* interrupters and killers share.  Every action here is one transaction   *)
(* (BEGIN IMMEDIATE), so it is atomic; it leaves to AkumaBodies who calls  *)
(* it and when.                                                            *)
(*                                                                         *)
(* A Body, a Turn and a Tell are named by their place in their sequence.   *)
(* Sessions and the text of a Tell are left out; activity, reports and the *)
(* pruning of the timeline are HeartTimeline's.                            *)
(***************************************************************************)
EXTENDS Integers, Sequences, FiniteSetsExt

CONSTANTS
    Tells,        \* Tell identities
    SchemaTells,  \* those that carry a schema
    None          \* absence

ASSUME TellsAssumption == SchemaTells \subseteq Tells /\ None \notin Tells

VARIABLES
    bodies,       \* [end, hung]: "open" until the first end is recorded
    tells,        \* the admitted Tells, in order
    turns,        \* [body, end, bound]: bound are the Tells bound to the Turn
    delivered,    \* <<tell, turn, final>>: evidence that a provider took a Tell
    receipts,     \* <<tell, kind>>: receipts of a "provider", or an "undelivered" disposition
    pause,        \* the interrupt barrier [body, frontier], or None
    stop,         \* the Body asked to stop, or None
    kills,        \* the Bodies whose kill is witnessed
    disposition   \* per Body: [state, tells]: "none", "open" on those Tells, or "resolved"

heartVars == <<bodies, tells, turns, delivered, receipts, pause, stop, kills, disposition>>

HeartInit ==
    /\ bodies = <<>> /\ tells = <<>> /\ turns = <<>>
    /\ delivered = {} /\ receipts = {}
    /\ pause = None /\ stop = None /\ kills = {}
    /\ disposition = <<>>

----------------------------------------------------------------------------
(* What the rows say. *)

Latest == Len(bodies)
Settled(b) == bodies[b].end # "open"
Admitted == {tells[n] : n \in DOMAIN tells}
Place(t) == CHOOSE n \in DOMAIN tells : tells[n] = t
Told(t) == (\E r \in receipts : r[1] = t) \/ (\E d \in delivered : d[1] = t /\ d[3])
Pending == {t \in Admitted : ~Told(t)}
OpenTurns(b) == {n \in DOMAIN turns : turns[n].body = b /\ turns[n].end = "open"}
OpenBoundTurns(b) == {n \in OpenTurns(b) : turns[n].bound # {}}

(* An interrupted Body may not touch the frontier Tell or a later one. *)
Protected(t, b) == pause # None /\ pause.body = b /\ Place(t) >= Place(pause.frontier)

HandoffControl(b) == b \in kills \/ stop = b \/ (pause # None /\ pause.body = b)
OpenDisposition(b) == disposition[b].state = "open"

(* Mutation: a Tell is drained once, whatever became of its Turn. *)
DrainOnce(pending, barrier, b) ==
    {t \in pending :
        /\ barrier # None /\ barrier.body = b => Place(t) < Place(barrier.frontier)
        /\ \A n \in DOMAIN turns : t \notin turns[n].bound}

(* The Tells one Turn takes, of the pending ones it sees: a Tell with a     *)
(* schema is only ever the first of its Turn.                              *)
Drain(pending, barrier, b) ==
    LET eligible == {t \in pending :
                        /\ barrier # None /\ barrier.body = b =>
                              barrier.frontier \in pending /\ Place(t) < Place(barrier.frontier)
                        /\ \A n \in OpenBoundTurns(b) :
                              ~(t \in turns[n].bound /\ \A m \in DOMAIN turns : t \in turns[m].bound => m <= n)}
    IN {t \in eligible :
          \A s \in eligible :
             s \in SchemaTells /\ Place(s) <= Place(t) => \A u \in eligible : Place(s) <= Place(u)}

----------------------------------------------------------------------------
(* Effects that several transactions share. *)

(* The first end of a Body wins. *)
Ended(b, end) == [bodies EXCEPT ![b].end = IF @ = "open" THEN end ELSE @]
TurnsEnded(S, end) == [n \in DOMAIN turns |-> IF n \in S THEN [turns[n] EXCEPT !.end = end] ELSE turns[n]]
Undecided == [state |-> "none", tells |-> {}]
Decided(b) == [disposition EXCEPT ![b] = [state |-> "open", tells |-> Pending]]
Resolved(b) == [disposition EXCEPT ![b] = IF @ = Undecided THEN @ ELSE [state |-> "resolved", tells |-> {}]]

(* judgeInterruptBarrier: may the barrier that the caller expects, or any,  *)
(* be consumed?                                                            *)
Completion(expected) ==
    LET previous == IF bodies[expected.body].hung THEN "hung"
                    ELSE IF Settled(expected.body) THEN "completed" ELSE "untidy"
    IN IF expected # None /\ pause # expected THEN previous
       ELSE IF pause = None THEN "clear"
       ELSE IF pause.body # Latest THEN "untidy"
       ELSE IF bodies[Latest].hung THEN "hung"
       ELSE IF ~Settled(Latest) THEN "untidy"
       ELSE "completed"

Consumed(expected) ==
    IF pause # None /\ expected \in {None, pause} /\ Completion(expected) = "completed" THEN None ELSE pause

----------------------------------------------------------------------------
(* Tells. *)

Running == Latest > 0 /\ ~Settled(Latest) /\ ~bodies[Latest].hung

TellOutcome(t) ==
    IF t \notin Admitted /\ t \in SchemaTells /\ Running THEN "busy" ELSE "recorded"

RecordTell(t) ==
    /\ tells' = IF t \in Admitted \/ TellOutcome(t) = "busy" THEN tells ELSE Append(tells, t)
    /\ UNCHANGED <<bodies, turns, delivered, receipts, pause, stop, kills, disposition>>

(* Mutation: an interrupt is admitted before the first Body is recorded. *)
InterruptOutcomeUnborn(t) ==
    IF t \in Admitted THEN "recorded"
    ELSE IF Latest > 0 /\ bodies[Latest].hung THEN "hung"
    ELSE IF pause # None /\ pause.body # Latest THEN "untidy"
    ELSE "recorded"

InterruptOutcome(t) ==
    IF t \in Admitted THEN "recorded"
    ELSE IF Latest = 0 THEN "untidy"
    ELSE IF bodies[Latest].hung THEN "hung"
    ELSE IF pause # None /\ pause.body # Latest THEN "untidy"
    ELSE "recorded"

(* Mutation: the interrupt of a Tell already admitted bars it anew. *)
BarrierOfAny(t) == IF pause # None THEN pause ELSE [body |-> Latest, frontier |-> t]

(* The barrier that an interrupter of the Tell is to wait for. *)
BarrierOf(t) ==
    IF t \in Admitted THEN IF Latest > 0 /\ Protected(t, Latest) THEN pause ELSE None
    ELSE IF pause # None THEN pause ELSE [body |-> Latest, frontier |-> t]

(* A Tell and the barrier that keeps it from the running Body, in one step. *)
RecordInterrupt(t) ==
    /\ IF t \in Admitted \/ InterruptOutcome(t) # "recorded" THEN UNCHANGED <<tells, pause>>
       ELSE tells' = Append(tells, t) /\ pause' = BarrierOf(t)
    /\ UNCHANGED <<bodies, turns, delivered, receipts, stop, kills, disposition>>

DeliverTells(S, n, final) ==
    /\ delivered' = delivered \cup {<<t, n, final>> : t \in S}
    /\ UNCHANGED <<bodies, tells, turns, receipts, pause, stop, kills, disposition>>

ReceiptTell(t) ==
    /\ receipts' = receipts \cup {<<t, "provider">>}
    /\ UNCHANGED <<bodies, tells, turns, delivered, pause, stop, kills, disposition>>

----------------------------------------------------------------------------
(* Turns. *)

BeginTurn(b) ==
    /\ turns' = Append(turns, [body |-> b, end |-> "open", bound |-> {}])
    /\ UNCHANGED <<bodies, tells, delivered, receipts, pause, stop, kills, disposition>>

BindTells(S, n) ==
    /\ turns' = [turns EXCEPT ![n].bound = @ \cup S]
    /\ UNCHANGED <<bodies, tells, delivered, receipts, pause, stop, kills, disposition>>

EndTurn(n, end) ==
    /\ turns[n].end = "open"
    /\ turns' = TurnsEnded({n}, end)
    /\ UNCHANGED <<bodies, tells, delivered, receipts, pause, stop, kills, disposition>>

FailOpenBoundTurns(b) ==
    /\ turns' = TurnsEnded(OpenBoundTurns(b), "failed")
    /\ UNCHANGED <<bodies, tells, delivered, receipts, pause, stop, kills, disposition>>

----------------------------------------------------------------------------
(* Bodies. *)

(* Mutation: a hung predecessor is no obstacle. *)
BodyOutcomeAfterHung(from) ==
    IF from # 0 /\ (Latest # from \/ HandoffControl(from) \/ ~OpenDisposition(from)) THEN "controlled"
    ELSE IF Completion(None) \in {"untidy", "hung"} THEN "controlled"
    ELSE "born"

(* A successor that a disposition authorises must find it still open, and  *)
(* its predecessor still the latest and free of control.                   *)
BodyOutcome(from) ==
    IF from # 0 /\ (Latest # from \/ HandoffControl(from) \/ ~OpenDisposition(from)) THEN "controlled"
    ELSE IF Completion(None) \in {"untidy", "hung"} THEN "controlled"
    ELSE IF Latest > 0 /\ bodies[Latest].hung THEN "gated"
    ELSE "born"

RecordBody(from) ==
    /\ BodyOutcome(from) = "born"
    /\ bodies' = Append(bodies, [end |-> "open", hung |-> FALSE])
    /\ disposition' = Append(disposition, Undecided)
    /\ pause' = Consumed(None)
    /\ UNCHANGED <<tells, turns, delivered, receipts, stop, kills>>

FinishOutcome(b) ==
    IF stop = b \/ (pause # None /\ pause.body = b) THEN "controlled"
    ELSE IF Pending # {} THEN "pending"
    ELSE "finished"

FinishBodyIfIdle(b) ==
    /\ bodies' = IF FinishOutcome(b) = "finished" THEN Ended(b, "exited") ELSE bodies
    /\ UNCHANGED <<tells, turns, delivered, receipts, pause, stop, kills, disposition>>

BreakBody(b) ==
    /\ bodies' = Ended(b, "broke-off")
    /\ UNCHANGED <<tells, turns, delivered, receipts, pause, stop, kills, disposition>>

RecordBodyHung(b) ==
    /\ ~bodies[b].hung
    /\ bodies' = [bodies EXCEPT ![b].hung = TRUE]
    /\ UNCHANGED <<tells, turns, delivered, receipts, pause, stop, kills, disposition>>

(* decidePendingTellDispositionInHeart, of a Body whose end is as given. *)
MayDispose(b, end, handoff) ==
    /\ b = Latest
    /\ disposition[b] = Undecided
    /\ ~HandoffControl(b)
    /\ Pending # {}
    /\ IF end = "open" THEN handoff ELSE end # "broke-off"

(* Mutation: only the Turns that Tells are bound to are canceled. *)
CancelBoundTurns(b, handoff) ==
    /\ turns' = TurnsEnded(OpenBoundTurns(b), "canceled")
    /\ bodies' = Ended(b, "put-down")
    /\ disposition' = IF handoff /\ MayDispose(b, "put-down", TRUE)
                      THEN Decided(b) ELSE disposition
    /\ UNCHANGED <<tells, delivered, receipts, pause, stop, kills>>

(* A Body is put down: its Turns are canceled and, if its provider cannot  *)
(* take the pending Tells, their disposition is decided, all at once.      *)
CancelBodyTurns(b, handoff) ==
    /\ turns' = TurnsEnded(OpenTurns(b), "canceled")
    /\ bodies' = Ended(b, "put-down")
    /\ disposition' = IF handoff /\ MayDispose(b, "put-down", TRUE)
                      THEN Decided(b) ELSE disposition
    /\ UNCHANGED <<tells, delivered, receipts, pause, stop, kills>>

----------------------------------------------------------------------------
(* Dispositions of pending Tells. *)

DecideDisposition(b, handoff) ==
    /\ IF MayDispose(b, bodies[b].end, handoff)
       THEN /\ disposition' = Decided(b)
            /\ bodies' = Ended(b, "put-down")
       ELSE /\ UNCHANGED disposition
            /\ bodies' = IF b = Latest /\ disposition[b].state # "resolved" /\ HandoffControl(b) /\ handoff
                         THEN Ended(b, "put-down") ELSE bodies
    /\ UNCHANGED <<tells, turns, delivered, receipts, pause, stop, kills>>

Proven(b) == HandoffControl(b) \/ \A t \in disposition[b].tells : Told(t)

ConsumeProven(b) ==
    /\ disposition' = IF Proven(b) THEN Resolved(b) ELSE disposition
    /\ UNCHANGED <<bodies, tells, turns, delivered, receipts, pause, stop, kills>>

SettleUndelivered(b) ==
    /\ receipts' = IF OpenDisposition(b) /\ ~HandoffControl(b)
                   THEN receipts \cup {<<t, "undelivered">> : t \in disposition[b].tells \cap Pending} ELSE receipts
    /\ disposition' = Resolved(b)
    /\ UNCHANGED <<bodies, tells, turns, delivered, pause, stop, kills>>

----------------------------------------------------------------------------
(* Stop, kill and the end of an interrupt. *)

StopOutcome ==
    IF Latest = 0 THEN "thrown"
    ELSE IF Latest \in kills THEN "already-killed"
    ELSE IF Settled(Latest)
         THEN IF ~bodies[Latest].hung /\ bodies[Latest].end # "exited" THEN "witnessed" ELSE "already-stopped"
    ELSE IF stop \notin {None, Latest} THEN "thrown"
    ELSE "requested"

RequestStop ==
    /\ stop' = IF StopOutcome = "requested" THEN Latest
               ELSE IF StopOutcome = "witnessed" /\ stop = Latest THEN None ELSE stop
    /\ kills' = IF StopOutcome = "witnessed" THEN kills \cup {Latest} ELSE kills
    /\ disposition' = IF StopOutcome = "witnessed" THEN Resolved(Latest) ELSE disposition
    /\ UNCHANGED <<bodies, tells, turns, delivered, receipts, pause>>

(* A stop whose target was put down becomes a kill. *)
SettleStop ==
    /\ IF stop = Latest /\ bodies[Latest].end = "put-down"
       THEN stop' = None /\ kills' = kills \cup {Latest} /\ disposition' = Resolved(Latest)
       ELSE UNCHANGED <<stop, kills, disposition>>
    /\ UNCHANGED <<bodies, tells, turns, delivered, receipts, pause>>

ClearStop ==
    /\ stop' = None
    /\ UNCHANGED <<bodies, tells, turns, delivered, receipts, pause, kills, disposition>>

CompleteInterruptBarrier(expected) ==
    /\ pause' = Consumed(expected)
    /\ UNCHANGED <<bodies, tells, turns, delivered, receipts, stop, kills, disposition>>
============================================================================
