------------------------- MODULE MCContractProtocol -------------------------
(* Instances of ContractProtocol for TLC: two processes and the scenarios   *)
(* in which their operations race.                                          *)
EXTENDS ContractProtocol

CONSTANTS p1, p2, a, b, main, d1, x, y, chk, rev

Free == [document |-> d1, obligations |-> {}, after |-> {}]
Gated == [Free EXCEPT !.obligations = {rev}]
Checked == [Free EXCEPT !.obligations = {chk}]
After(c) == [Free EXCEPT !.after = {c}]
MCTerms == {Free, Gated, Checked, After(a), After(b)}

BindTo(c, target, terms) == [verb |-> "bind", contract |-> c, target |-> target, terms |-> terms]
AmendTo(c, terms) == [verb |-> "amend", contract |-> c, terms |-> terms]
DeliverOf(c, overwrite) == [verb |-> "deliver", contract |-> c, overwrite |-> overwrite]
ReviewOf(c, verdict) == [verb |-> "review", contract |-> c, verdict |-> verdict]
VerifyOf(c, verdict) == [verb |-> "verify", contract |-> c, check |-> chk, verdict |-> verdict]
ReintegrateOf(c) == [verb |-> "reintegrate", contract |-> c]
ArcOf(c) == [verb |-> "arc", contract |-> c]
AbandonOf(c) == [verb |-> "abandon", contract |-> c]
PlaceOf(c) == [verb |-> "place", contract |-> c]

Agenda(ofFirst, ofSecond) == [w \in Writers |-> IF w = p1 THEN ofFirst ELSE ofSecond]
Interfered(agenda, edits, commits) ==
    [agenda |-> agenda, content |-> x, edits |-> edits, commits |-> commits, crashes |-> 0, kills |-> 0]
Faulty(agenda, commits) ==
    [agenda |-> agenda, content |-> x, edits |-> 0, commits |-> commits, crashes |-> 1, kills |-> 1]

(* Two contracts on one branch; a contract whose destination is another's  *)
(* worktree; a worktree edited under review; a check run twice.            *)
Interleavings ==
    {Interfered(Agenda(<<BindTo(a, main, Free), DeliverOf(a, FALSE), PlaceOf(a)>>,
                       <<BindTo(b, main, Free), DeliverOf(b, FALSE), last>>), 0, 1)
        : last \in {PlaceOf(b), ReintegrateOf(b)}}
    \cup {Interfered(Agenda(<<BindTo(a, main, Free), first>>,
                            <<BindTo(b, a, Free), DeliverOf(b, FALSE), last>>), 0, 1)
            : first \in {AbandonOf(a), DeliverOf(a, FALSE)}, last \in {PlaceOf(b), ReintegrateOf(b)}}
    \cup {Interfered(Agenda(<<BindTo(a, None, Gated), DeliverOf(a, FALSE), PlaceOf(a)>>,
                            <<ReviewOf(a, "satisfied"), last>>), 1, 0)
            : last \in {ReviewOf(a, "unsatisfied"), AmendTo(a, Gated), DeliverOf(a, FALSE)}}
    \cup {Interfered(Agenda(<<BindTo(a, main, Checked), VerifyOf(a, verdict), DeliverOf(a, FALSE)>>,
                            <<VerifyOf(a, "satisfied"), PlaceOf(a)>>), 0, 1)
            : verdict \in {"satisfied", "unsatisfied"}}

(* A process at work on a contract that another process works on too, and  *)
(* two contracts amended to wait for each other, with deaths and kills.    *)
Faults ==
    {Faulty(Agenda(<<BindTo(a, main, Free), DeliverOf(a, FALSE), PlaceOf(a)>>, <<first, PlaceOf(a)>>), 0)
        : first \in {DeliverOf(a, TRUE), AbandonOf(a), ArcOf(a)}}
    \cup {Faulty(Agenda(<<BindTo(a, None, Free), AmendTo(c, After(d))>>,
                        <<BindTo(b, None, Free), AmendTo(d, After(c))>>), 0)
            : <<c, d>> \in {<<a, b>>, <<b, a>>}}

(* Two processes that deliver and amend one contract, with deaths and kills. *)
Endings ==
    {Faulty(Agenda(<<BindTo(a, main, Free), DeliverOf(a, FALSE)>>, <<first, PlaceOf(a)>>), 0)
        : first \in {DeliverOf(a, TRUE), AmendTo(a, Free)}}

(* A delivery whose worktree conflicts with its target, until it is edited. *)
Conflicting ==
    {[Interfered(Agenda(<<BindTo(a, main, Free), DeliverOf(a, FALSE)>>, <<ArcOf(a)>>), 1, 1) EXCEPT !.content = y]}
YAfterForeign == {<<y, Foreign>>}

Races == Interleavings \cup Faults \cup Endings \cup Conflicting
=============================================================================
