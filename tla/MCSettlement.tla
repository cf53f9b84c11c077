---------------------------- MODULE MCSettlement ----------------------------
(* Instances of Settlement for TLC: two processes, three debts, and the     *)
(* scenarios in which contracts, debts and a person's editor meet.          *)
EXTENDS Settlement

CONSTANTS w1, w2, a, b, t1, t2

Views == INSTANCE DebtViews

No == [r \in Relations |-> {}]
Open == [state |-> "open", links |-> No, text |-> t1, stamp |-> 0]
Linked(relation, to) == [Open EXCEPT !.links[relation] = {to}]
Dropped == [Open EXCEPT !.state = "drop"]
MCManual == {[Open EXCEPT !.text = t2], Corrupt, None}

Board(r1, r2, r3) == [d \in DebtIds |-> CASE d = 1 -> r1 [] d = 2 -> r2 [] OTHER -> r3]
Agenda(first, second) == [w \in Workers |-> IF w = w1 THEN first ELSE second]
Bounds(edits, faults, kills, mortal) == [edits |-> edits, faults |-> faults, kills |-> kills, mortal |-> mortal]
Mortal(edits) == IF edits = 0 THEN {w1} ELSE {}

Bind(c, d) == [verb |-> "bind", contract |-> c, debt |-> d]
Accept(c) == [verb |-> "accept", contract |-> c, debt |-> None]
Abandon(c) == [verb |-> "abandon", contract |-> c, debt |-> None]
Settle(c) == [verb |-> "settle", contract |-> c, debt |-> None]
Order(order) == [verb |-> "order", order |-> order]

Keep == [r \in Relations |-> None]
Done(d) == Order([verb |-> "done", ids |-> <<d>>])
Drop(d) == Order([verb |-> "drop", ids |-> <<d>>])
Batch(ids, to) == Order([verb |-> "batch", ids |-> ids, to |-> to])
Nuke == Order([verb |-> "nuke", ids |-> <<>>])
Create(record) == Order([verb |-> "create", ids |-> <<>>, record |-> record])
Update(d, text, set, add, drop) ==
    Order([verb |-> "update", ids |-> <<d>>, text |-> text, set |-> set, add |-> add, drop |-> drop])
Retitle(d) == Update(d, t2, Keep, No, No)
Relate(d, relation, to) == Update(d, None, Keep, [No EXCEPT ![relation] = {to}], No)
Reset(d, relation, to) == Update(d, None, [Keep EXCEPT ![relation] = {to}], No, No)
Unrelate(d, relation, to) == Update(d, None, Keep, No, [No EXCEPT ![relation] = {to}])

Scene(agenda, of, holds, board, bounds) ==
    [agenda |-> agenda,
     standing |-> [c \in Contracts |-> IF c = a THEN of ELSE "none"],
     holds |-> [d \in DebtIds |-> IF d = 1 THEN holds ELSE None],
     boards |-> {board}, budget |-> bounds]

One == Board(Open, None, None)
Two == Board(Open, Open, None)

(* A debt taken over by a later contract while the older one is claimed,   *)
(* settled or abandoned; a settlement replayed by two processes.           *)
Takeovers ==
    {Scene(Agenda(<<first>>, <<Bind(b, 1), last>>), "active", a, One, Bounds(0, 1, 1, {}))
        : first \in {Accept(a), Abandon(a)}, last \in {Accept(b), Settle(a)}}
    \cup {Scene(Agenda(<<Settle(a)>>, <<Settle(a), Bind(b, 1)>>), "claimed", a, One, Bounds(0, 1, 1, {}))}

(* A settler dies, before or after its Git child publishes, and another  *)
(* process replays; the debt moves by other hands.                         *)
Replays ==
    {Scene(Agenda(<<Settle(a)>>, <<next, Settle(a)>>), "claimed", a, One, Bounds(edits, 0, 0, Mortal(edits)))
        : next \in {Drop(1), Retitle(1), Nuke, Bind(b, 1)}, edits \in 0..1}

(* Writers of the debt ledger. *)
Ledgers ==
    {Scene(Agenda(<<Batch(<<1, 2>>, "done")>>, <<second>>), "none", None, Two, Bounds(edits, 1 - edits, 0, Mortal(edits)))
        : second \in {Done(2), Retitle(2), Nuke, Batch(<<2, 1>>, "drop")}, edits \in 0..1}
    \cup {Scene(Agenda(<<Create(Linked("needs", 1))>>, <<second>>), "none", None, Two, Bounds(edits, 1 - edits, 0, Mortal(edits)))
        : second \in {Create(Linked("parent", 2)), Nuke, Done(1)}, edits \in 0..1}

(* Boards with relations of every kind, made concurrently. *)
Webs ==
    {Scene(Agenda(<<Relate(1, r, 2), Relate(3, r, 1), Drop(2)>>, <<Reset(2, r, 3), Unrelate(1, r, 2)>>),
           "none", None, Board(Linked("relates", 3), Open, Linked("parent", 1)), Bounds(0, 0, 0, {w1}))
        : r \in {"needs", "parent", "supersedes"}}
    \cup {Scene(Agenda(<<Unrelate(3, "relates", 1), Unrelate(1, "relates", 3)>>, <<Drop(1)>>),
                "none", None, Board(Linked("relates", 3), Open, Dropped), Bounds(0, 0, 0, {}))}

MCScenarios == Takeovers \cup Replays \cup Ledgers \cup Webs

----------------------------------------------------------------------------
(* The boards whose views are compared: those between commands, with files *)
(* that all parse.                                                         *)
Viewed == (\A w \in Workers : Doing(w, "idle")) /\ \A d \in DebtIds : debts[d] # Corrupt

(* What the catalogue, the query selections, the doctor, the "under" query *)
(* and the tree say of every board that is reached agrees with what the    *)
(* board itself shows (catalog.ts, query.ts, board.ts).                    *)
ViewsAgree ==
    Viewed => /\ Views!CatalogAgrees(debts) /\ Views!SelectionAgrees(debts)
              /\ Views!CyclesExact(debts) /\ Views!UnderExact(debts)
=============================================================================
