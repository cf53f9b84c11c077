----------------------- MODULE MCVerificationScratch -----------------------
(* Instances of VerificationScratch for TLC: one attempt from its beginning, *)
(* two that retire into the same slot, and reconciles beside them.           *)
EXTENDS VerificationScratch

CONSTANTS a1, a2, c1, c2, s1, k1

MCSlotOf == [a \in Attempts |-> s1]
MCContractOf == [s \in Slots |-> k1]

From(at, outcome) == [at |-> at, outcome |-> outcome]
Idle == From("idle", "none")
Gone == From("done", "cancelled")
Retiring(outcome) == From("retiring", outcome)
Scene(first, second, limited, collectors, kept, ended, aborts, failures, deaths) ==
    [from |-> [a \in Attempts |-> IF a = a1 THEN first ELSE second], limited |-> limited,
     collectors |-> collectors, kept |-> kept, terminal |-> ended,
     left |-> [aborts |-> aborts, failures |-> failures, deaths |-> deaths]]

(* One attempt, every way its commands go, and again beside a reconcile.     *)
Lives ==
    {Scene(Idle, Gone, limited, {}, {s1}, {k1}, 1, 2, 0) : limited \in SUBSET {a1}}
    \cup {Scene(Idle, Gone, {a1}, {c1}, {}, {k1}, 0, 1, 0)}

(* Two attempts of one requirement retire at once, and reconciles collect.   *)
Retirements ==
    {Scene(Retiring("unsatisfied"), Retiring(second), {}, {c1}, {s1}, {}, 0, 1, 1)
        : second \in {"environment", "satisfied"}}

(* What dead processes leave, collected by one reconcile or by two.          *)
Remains ==
    {Scene(Idle, Gone, {a1}, {c1}, {}, {k1}, 0, 0, 1)}
    \cup {Scene(Retiring(outcome), Gone, {}, {c1, c2}, {s1}, {k1}, 0, 1, 1) : outcome \in {"satisfied", "stopped"}}

MCScenarios == Lives \cup Retirements \cup Remains
=============================================================================
