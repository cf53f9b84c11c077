---------------------------- MODULE MCAkumaCalls ----------------------------
(* Two callers and one old Akuma. *)
EXTENDS AkumaCalls, TLC

CONSTANTS p, q, e, n, m, k, l

MCCallers == {p, q}
MCElders == {e}
MCNames == {n, m}
MCContracts == {k, l}

None0 == [abort |-> 0, failure |-> 0, death |-> 0, peek |-> 0, tell |-> 0, wake |-> 0, end |-> 0]
Ask(kind, tell, contract, name) ==
    [kind |-> kind, tell |-> tell, contract |-> contract, name |-> name, parent |-> e]
NoAsk == Ask("none", FALSE, None, None)
Pair(a, b) == (p :> a) @@ (q :> b)
Scene(from, asks, left, aging, dispatched, named) ==
    [from |-> Pair(from, from), asks |-> asks, left |-> left @@ None0, aging |-> aging, dispatched |-> dispatched,
     alias |-> (n :> named) @@ (m :> None)]

(* One birth with everything that may meet it.                               *)
Births ==
    {Scene("idle", Pair(Ask("call", tell, None, None), NoAsk),
           [abort |-> 1, failure |-> 1, death |-> 1, peek |-> 1], {}, None, None) : tell \in BOOLEAN}
    \cup {Scene("idle", Pair(Ask("fork", FALSE, None, None), NoAsk),
           [failure |-> 1, death |-> 1, peek |-> 1], {}, None, None)}
(* Two calls that want the same name or each its own, and one that forks.    *)
Associations ==
    {Scene("born", Pair(Ask("call", FALSE, k, n), Ask("call", FALSE, l, n)), [failure |-> 1, death |-> 1], {}, None, e),
     Scene("born", Pair(Ask("call", FALSE, k, n), Ask("call", FALSE, None, m)), [failure |-> 1, death |-> 1], {}, None, e),
     Scene("born", Pair(Ask("fork", FALSE, None, None), Ask("call", FALSE, None, n)), [end |-> 1, death |-> 1], {e}, k, e)}
(* A sweep against Tells, wakes, looks and a second sweep.                   *)
Sweeps ==
    {Scene("born", Pair(Ask("call", FALSE, None, None), Ask("call", FALSE, None, n)),
           [tell |-> 1, wake |-> 1, peek |-> 1], {e}, None, None),
     Scene("born", Pair(Ask("call", FALSE, None, None), Ask("call", FALSE, k, n)), [failure |-> 1], {e, q}, None, e),
     Scene("born", Pair(Ask("call", FALSE, None, None), NoAsk), [end |-> 1, tell |-> 1, wake |-> 1, death |-> 1], {e}, k, None)}
MCScenarios == Births \cup Associations \cup Sweeps
=============================================================================
