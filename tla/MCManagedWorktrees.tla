------------------------- MODULE MCManagedWorktrees -------------------------
(* Instances of ManagedWorktrees for TLC: two contracts, three places, and  *)
(* two processes, the second of which reconciles without end.               *)
EXTENDS ManagedWorktrees

CONSTANTS p1, p2, a, b

(* One contract that comes to an end.  The first process is asked once to  *)
(* reconcile it, the second one reconciles the repository again and again. *)
Quiet == [bound |-> {a}, targetless |-> {}, rebased |-> {}, reshaped |-> {},
          fates |-> [c \in Contracts |-> IF c = a THEN {"abandon"} ELSE {}],
          batches |-> [p \in Processes |-> IF p = p1 THEN {{a}} ELSE {{a, b}}],
          rounds |-> [p \in Processes |-> IF p = p1 THEN 1 ELSE 0], tireless |-> {p2},
          edits |-> 0, landings |-> 0, vanishes |-> 0, rewrites |-> 0, hooks |-> 0, faults |-> 0, deaths |-> 0]

(* Another contract comes and may get the place that the first one leaves. *)
Tenants == {[Quiet EXCEPT !.fates[b] = {"bind"}, !.vanishes = n] : n \in {0, 1}}

(* A claim, whose integration is the tender or not, and a rewritten target. *)
Claims ==
    {[Quiet EXCEPT !.fates[a] = {"deliver", "claim"}, !.rewrites = 1,
                   !.rebased = shape[1], !.reshaped = shape[2], !.targetless = shape[3]]
        : shape \in {<<{}, {}, {}>>, <<{}, {}, {a}>>, <<{a}, {}, {}>>, <<{a}, {a}, {}>>}}
    \cup {[Quiet EXCEPT !.rewrites = 1, !.faults = 1]}

(* Work in the worktree, by its user, a child's landing and the destroy hooks. *)
Works ==
    {[Quiet EXCEPT !.fates[a] = {"deliver", end}, !.edits = 1, !.hooks = 1, !.landings = 1]
        : end \in {"claim", "abandon"}}

(* Deaths, failures, and worktrees that disappear. *)
Faults == {[Quiet EXCEPT !.fates[a] = {"deliver", "claim"}, !.vanishes = 1, !.faults = 1, !.deaths = 1]}

(* Both contracts try the places in the same order. *)
MCRank == [c \in Contracts |-> [x \in Places |-> x]]

MCScenarios == Tenants \cup Claims \cup Works \cup Faults
=============================================================================
