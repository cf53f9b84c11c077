-------------------------- MODULE MCContractLedger --------------------------
(* Instance of ContractLedger for TLC: identities are model values, each     *)
(* journal takes at most Limit(kind) facts of a kind, and a foreign commit   *)
(* comes only on a history shorter than MaxHistory.                          *)
EXTENDS ContractLedger, FiniteSets

CONSTANTS a, b, main, d1, d2, x, chk, rev,
    Binds, Amends, Delivers, Reintegrations, Testimonies, Arcs, Ends, MaxHistory, MaxUlid

(* Terms without obligations, one contract waiting for the other. *)
OrderTerms ==
    {[document |-> d1, obligations |-> {}, after |-> {}],
     [document |-> d1, obligations |-> {}, after |-> {a}],
     [document |-> d1, obligations |-> {}, after |-> {b}]}

(* Terms with obligations, no prerequisites. *)
GateTerms ==
    {[document |-> d1, obligations |-> {rev, chk}, after |-> {}],
     [document |-> d2, obligations |-> {rev}, after |-> {}]}

Limit(kind) ==
    CASE kind = "bind" -> Binds
      [] kind = "amend" -> Amends
      [] kind = "deliver" -> Delivers
      [] kind = "reintegrated" -> Reintegrations
      [] kind = "attestation" -> Testimonies
      [] kind = "arc" -> Arcs
      [] kind \in {"claimed", "abandoned"} -> Ends

MCRoom(entries, kind) ==
    IF kind = "foreign" THEN Len(entries) < MaxHistory
    ELSE Cardinality({i \in DOMAIN entries : entries[i].kind = kind}) < Limit(kind)

(* Identities only need to be fresh: a contract's least unused one is as good as any. *)
MCUlids == Contracts \X (1..MaxUlid)
MCMint(c, unused) == {u \in unused : u[1] = c /\ \A v \in unused : v[1] = c => u[2] <= v[2]}

(* The two contracts are interchangeable: every set of terms treats them alike. *)
Interchange == Permutations(Contracts)
=============================================================================
