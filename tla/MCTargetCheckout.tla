-------------------------- MODULE MCTargetCheckout --------------------------
(* Instances of TargetCheckout for TLC: one path that everybody may touch,  *)
(* one that the ignore rules cover, and one that only the second contract   *)
(* writes.                                                                  *)
EXTENDS TargetCheckout

CONSTANTS p1, p2, c1, c2, w1, w2, shared, hidden, other

MCChange == [c \in Contracts |-> IF c = c1 THEN {shared, hidden} ELSE {other}]

Jobs(first, second) == [p \in Completers |-> IF p = p1 THEN first ELSE second]

Quiet == [jobs |-> Jobs(c1, None), registered |-> {w1}, gated |-> {}, pushed |-> {other},
          pushes |-> 0, edits |-> 0, faults |-> 0, crashes |-> 0]

MCScenarios ==
    {   \* a target that moves once more than the completion will follow
        [Quiet EXCEPT !.pushes = 5, !.faults = 1, !.registered = {}],
        \* two contracts on one target, and deaths between branch and checkout
        [Quiet EXCEPT !.jobs = Jobs(c1, c2), !.registered = {w1, w2}, !.crashes = 1],
        \* two completions of one contract, whose Git may be killed; a Gate that judged the first candidate only
        [Quiet EXCEPT !.jobs = Jobs(c1, c1), !.pushes = 2],
        [Quiet EXCEPT !.jobs = Jobs(c1, c1), !.pushes = 1, !.faults = 1],
        [Quiet EXCEPT !.jobs = Jobs(c1, c2), !.pushes = 1, !.pushed = {shared, other}, !.gated = {c2}, !.faults = 1],
        \* users at work in a checkout that follows
        [Quiet EXCEPT !.pushes = 1, !.pushed = {shared}, !.edits = 3],
        [Quiet EXCEPT !.edits = 2, !.crashes = 1],
        [Quiet EXCEPT !.edits = 2, !.faults = 1]}
=============================================================================
