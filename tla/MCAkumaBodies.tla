---------------------------- MODULE MCAkumaBodies ----------------------------
(* Two clients and two Tells against one Akuma. *)
EXTENDS AkumaBodies

CONSTANTS c1, c2, t1, t2

MCTells == {t1, t2}
MCClients == {c1, c2}
Ask(op, t) == [op |-> op, tell |-> t]
Pair(a, b) == (c1 :> a) @@ (c2 :> b)
CalmAgendas ==
    {Pair(Ask("tell", t1), Ask("kill", t2)), Pair(Ask("interrupt", t1), Ask("kill", t2)),
     Pair(Ask("interrupt", t1), Ask("tell", t2)), Pair(Ask("interrupt", t1), Ask("interrupt", t1))}
FaultyAgendas ==
    {Pair(Ask("tell", t1), Ask("kill", t2)), Pair(Ask("interrupt", t1), Ask("kill", t2))}
OneTell == {(c1 :> Ask("tell", t1))}

(* A provider that takes live Tells may receipt them; one that does not has *)
(* none to receipt.                                                        *)
Deaf == [live : {FALSE}, receipts : {FALSE}]
MCProviders == [live : {TRUE}, receipts : BOOLEAN] \cup Deaf
OneClient == {c1}
SecondTell == {t2}
Faultless == {}
AnyFault == {"crash", "failure", "hang"}
FailureOnly == {"failure"}
=============================================================================
