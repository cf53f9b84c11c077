---------------------------- MODULE DebtOwnership ----------------------------
(***************************************************************************)
(* What settlement promises about contracts and debts, without processes,  *)
(* files or Git: a debt has at most one current holder; binding takes it   *)
(* over; only the contract that holds it when it is claimed completes it,  *)
(* and only after the debt is complete is it released.                     *)
(***************************************************************************)
CONSTANTS Contracts, DebtIds, None

VARIABLES
    standing,     \* of each contract
    holder,       \* of each debt: [contract, disposition], or None
    paid          \* <<c, d>>: the settlement of c has found or made d complete

ownershipVars == <<standing, holder, paid>>

Standings == {"none", "active", "claimed", "abandoned"}
Holders == [contract : Contracts, disposition : {"held", "released"}]
Held(c) == [contract |-> c, disposition |-> "held"]
Released(c) == [contract |-> c, disposition |-> "released"]

Holds(c, d) == holder[d] = Held(c)

Init ==
    /\ standing \in [Contracts -> Standings]
    /\ holder \in [DebtIds -> Holders \cup {None}]
    /\ \A d \in DebtIds : holder[d] # None => standing[holder[d].contract] \in {"active", "claimed"} /\ Holds(holder[d].contract, d)
    /\ \A d, e \in DebtIds : holder[d] = holder[e] => d = e \/ holder[d] = None
    /\ paid = {}

Bind(c, taken) ==
    /\ standing[c] = "none"
    /\ standing' = [standing EXCEPT ![c] = "active"]
    /\ holder' = [d \in DebtIds |-> IF d \in taken THEN Held(c) ELSE holder[d]]
    /\ UNCHANGED paid

Claim(c) ==
    /\ standing[c] = "active"
    /\ standing' = [standing EXCEPT ![c] = "claimed"]
    /\ UNCHANGED <<holder, paid>>

(* An abandoned contract gives back what it still holds. *)
Abandon(c) ==
    /\ standing[c] = "active"
    /\ standing' = [standing EXCEPT ![c] = "abandoned"]
    /\ holder' = [d \in DebtIds |-> IF Holds(c, d) THEN Released(c) ELSE holder[d]]
    /\ UNCHANGED paid

Pay(c, d) ==
    /\ standing[c] = "claimed" /\ Holds(c, d)
    /\ paid' = paid \cup {<<c, d>>}
    /\ UNCHANGED <<standing, holder>>

Release(c, d) ==
    /\ standing[c] = "claimed" /\ Holds(c, d) /\ <<c, d>> \in paid
    /\ holder' = [holder EXCEPT ![d] = Released(c)]
    /\ UNCHANGED <<standing, paid>>

Next ==
    \E c \in Contracts :
        \/ Bind(c, {}) \/ Claim(c) \/ Abandon(c)
        \/ \E d \in DebtIds : Bind(c, {d}) \/ Pay(c, d) \/ Release(c, d)

Spec == Init /\ [][Next]_ownershipVars
=============================================================================
