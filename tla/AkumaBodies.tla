------------------------------ MODULE AkumaBodies ------------------------------
(***************************************************************************)
(* The processes around one Akuma: the hosts that run its Bodies, the      *)
(* clients that tell, interrupt and kill it, and whoever hands pending     *)
(* Tells to a successor.  They share the heart (AkumaHeart), one           *)
(* transaction at a time, and the leash, an exclusive file lock.           *)
(*                                                                         *)
(* One action is one transaction of the heart, or the local work up to the *)
(* next one.  The birth host has published the Soul and holds the leash    *)
(* when the model starts.                                                  *)
(***************************************************************************)
EXTENDS AkumaHeart, TLC

CONSTANTS
    MaxHosts,     \* host processes that can ever be spawned; a spawn beyond it fails
    Clients,      \* the client processes, each with one operation
    Agendas,      \* the choices of operations: functions from Clients to [op, tell]
    Providers,    \* the choices of provider: [live, receipts]
    Faults,       \* what may go wrong: "crash", "failure" of a Turn, "hang" of a provider
    MaxFaults     \* how often, in all

Hosts == 1..MaxHosts

ASSUME BodiesAssumption ==
    /\ MaxHosts \in Nat \ {0} /\ MaxFaults \in Nat /\ Faults \subseteq {"crash", "failure", "hang"}
    /\ Agendas \subseteq [Clients -> [op : {"tell", "interrupt", "kill"}, tell : Tells]]
    /\ Providers \subseteq [live : BOOLEAN, receipts : BOOLEAN]
    /\ None \notin Nat \cup Clients /\ Hosts \cap Clients = {}
    /\ None \notin [body : Nat, frontier : Tells]

VARIABLES
    leash,        \* the process that holds it, or None
    host,         \* the host processes
    client,       \* the client processes
    handing,      \* what each process is doing about a disposition of pending Tells
    provider,     \* does it take live Tells; does it receipt them
    faults        \* those that happened, in order

procVars == <<leash, host, client, handing, provider, faults>>
vars == <<heartVars, procVars>>

Spawnable ==
    [phase |-> "idle", from |-> 0, initial |-> FALSE, body |-> 0,
     seen |-> [pending |-> {}, pause |-> None], aborted |-> FALSE,
     turn |-> 0, drained |-> {}, tried |-> {}, pump |-> None,
     live |-> FALSE, then |-> "none", exit |-> "none"]

Init ==
    /\ HeartInit
    /\ leash = 1
    /\ \E initial \in BOOLEAN :
          host = [h \in Hosts |-> IF h = 1 THEN [Spawnable EXCEPT !.phase = "preparing", !.initial = initial]
                                  ELSE Spawnable]
    /\ \E agenda \in Agendas :
          client = [c \in Clients |-> [op |-> agenda[c].op, tell |-> agenda[c].tell, phase |-> "asked",
                                       target |-> 0, barrier |-> None, child |-> 0, result |-> "none"]]
    /\ handing = [a \in Hosts \cup Clients |-> [phase |-> "idle", body |-> 0, child |-> 0]]
    /\ provider \in Providers
    /\ faults = <<>>

----------------------------------------------------------------------------
(* Moving one process. *)

At(h, phase) == host[h].phase = phase
HostTo(h, r) == host' = [host EXCEPT ![h] = r]
HostAt(h, phase) == HostTo(h, [host[h] EXCEPT !.phase = phase])
HostEnds(h, exit, live) ==
    host' = [host EXCEPT ![h] = [Spawnable EXCEPT !.phase = "gone", !.body = host[h].body, !.exit = exit, !.live = live]]
ClientTo(c, r) == client' = [client EXCEPT ![c] = r]
ClientAt(c, phase) == ClientTo(c, [client[c] EXCEPT !.phase = phase])
Done(c, result) == ClientTo(c, [client[c] EXCEPT !.phase = "done", !.result = result])

(* A process is gone when it has exited: its exit says why, "held" if it    *)
(* found the leash or control in its way.                                  *)
Gone(h) == At(h, "gone") /\ handing[h].phase = "idle"
Free == {h \in Hosts : At(h, "idle")}
NextHost == CHOOSE h \in Free : TRUE
Spawned(from) == [host EXCEPT ![NextHost] = [Spawnable EXCEPT !.phase = "launched", !.from = from]]
ChildEnd(h) == IF host[h].exit = "held" THEN "held" ELSE "failed"

Fault(kind) == kind \in Faults /\ Len(faults) < MaxFaults /\ faults' = Append(faults, kind)

OnlyHost == UNCHANGED <<leash, client, handing, provider, faults>>
OnlyHostFails == UNCHANGED <<leash, client, handing, provider>>
OnlyClient == UNCHANGED <<leash, host, handing, provider, faults>>

----------------------------------------------------------------------------
(* A host up to the record of its Body. *)

TakeLeash(h) ==
    /\ At(h, "launched")
    /\ IF leash = None
       THEN leash' = h /\ HostAt(h, IF host[h].from = 0 THEN "preparing" ELSE "wanted")
       ELSE UNCHANGED leash /\ HostTo(h, [host[h] EXCEPT !.phase = "gone", !.exit = "held"])
    /\ UNCHANGED <<heartVars, client, handing, provider, faults>>

Refuse(h) == HostTo(h, [host[h] EXCEPT !.phase = "releasing", !.exit = IF pause # None THEN "held" ELSE "ended"])

PrepareBarrier(h) ==
    /\ At(h, "preparing")
    /\ CompleteInterruptBarrier(None)
    /\ IF Completion(None) \in {"untidy", "hung"} THEN Refuse(h) ELSE HostAt(h, "stops")
    /\ OnlyHost

(* The leash holder settles the stop that an earlier life left behind. *)
PrepareStop(h) ==
    /\ At(h, "stops")
    /\ IF stop = None THEN UNCHANGED heartVars
       ELSE IF stop = Latest /\ bodies[Latest].end = "put-down" THEN SettleStop
       ELSE ClearStop
    /\ HostAt(h, "wanted")
    /\ OnlyHost

(* Only a birth runs without a pending Tell. *)
PrepareWork(h) ==
    /\ At(h, "wanted")
    /\ IF h # 1 /\ Pending = {} THEN Refuse(h) ELSE HostAt(h, "recording")
    /\ UNCHANGED heartVars
    /\ OnlyHost

----------------------------------------------------------------------------
(* The supervisor: what the host last saw of the heart. *)

Controlled(b) == stop = b \/ (pause # None /\ pause.body = b)
Seen == [pending |-> Pending, pause |-> pause]

(* The supervisor opens on the new Body; what it misses here, it polls.     *)
RecordOwnBody(h) ==
    /\ At(h, "recording")
    /\ \/ /\ RecordBody(host[h].from)
          /\ HostTo(h, [host[h] EXCEPT !.phase = "choosing", !.body = Latest + 1,
                       !.seen = [pending |-> Pending, pause |-> pause']])
       \/ /\ BodyOutcome(host[h].from) # "born"
          /\ HostTo(h, [host[h] EXCEPT !.phase = "releasing",
                          !.exit = IF BodyOutcome(host[h].from) = "controlled" THEN "held" ELSE "ended"])
          /\ UNCHANGED heartVars
    /\ OnlyHost

Refresh(h) ==
    /\ At(h, "refreshing")
    /\ HostTo(h, [host[h] EXCEPT !.phase = "choosing", !.seen = Seen])
    /\ UNCHANGED heartVars /\ OnlyHost

(* It polls, so a control is seen some time after it was recorded.  Polls   *)
(* are kept where what they saw is used next.                              *)
Supervised == {"choosing", "starting", "launching", "driving", "retiring"}

Observe(h) ==
    /\ host[h].phase \in Supervised /\ ~host[h].aborted
    /\ host[h].seen # Seen \/ Controlled(host[h].body)
    /\ HostTo(h, [host[h] EXCEPT !.seen = Seen, !.aborted = Controlled(host[h].body)])
    /\ UNCHANGED heartVars /\ OnlyHost

----------------------------------------------------------------------------
(* runBodyTurns: choose a Turn, or end. *)

PutDownPhase(h) == [host[h] EXCEPT !.phase = "putting", !.then = "stopped"]

Choose(h) ==
    /\ At(h, "choosing")
    /\ LET b == host[h].body
           drained == Drain(host[h].seen.pending, host[h].seen.pause, b)
       IN \/ /\ host[h].aborted
             /\ HostTo(h, PutDownPhase(h))
             /\ UNCHANGED heartVars
          \/ /\ ~host[h].aborted /\ ~host[h].initial /\ drained = {}
             /\ FinishBodyIfIdle(b)
             /\ HostTo(h, IF FinishOutcome(b) = "finished" THEN [host[h] EXCEPT !.phase = "releasing", !.exit = "ended"]
                          ELSE IF FinishOutcome(b) = "controlled" THEN [PutDownPhase(h) EXCEPT !.aborted = TRUE]
                          ELSE [host[h] EXCEPT !.phase = "refreshing"])
          \/ /\ ~host[h].aborted /\ (host[h].initial \/ drained # {})
             /\ HostTo(h, [host[h] EXCEPT !.phase = "beginning", !.drained = drained, !.tried = drained])
             /\ UNCHANGED heartVars
    /\ OnlyHost

(* A control found inside a transaction ends the host as "held". *)
PutDownHeld(h) == HostTo(h, [PutDownPhase(h) EXCEPT !.exit = "held"]) /\ UNCHANGED heartVars

Begin(h) ==
    /\ At(h, "beginning")
    /\ IF Controlled(host[h].body) THEN PutDownHeld(h)
       ELSE BeginTurn(host[h].body) /\ HostTo(h, [host[h] EXCEPT !.phase = "binding", !.turn = Len(turns) + 1])
    /\ OnlyHost

Bind(h) ==
    /\ At(h, "binding")
    /\ IF \E t \in host[h].drained : Protected(t, host[h].body) THEN PutDownHeld(h)
       ELSE BindTells(host[h].drained, host[h].turn) /\ HostAt(h, "starting")
    /\ OnlyHost

----------------------------------------------------------------------------
(* One Turn with its provider. *)

Start(h) ==
    /\ At(h, "starting")
    /\ IF host[h].aborted THEN HostTo(h, PutDownPhase(h))
       ELSE HostTo(h, [host[h] EXCEPT !.phase = "launching", !.live = TRUE])
    /\ UNCHANGED heartVars /\ OnlyHost

(* The provider took the Turn, and with it the Tells it was launched with. *)
Established(h) ==
    /\ At(h, "launching") /\ ~host[h].aborted
    /\ IF \E t \in host[h].drained : Protected(t, host[h].body)
       THEN UNCHANGED heartVars /\ HostTo(h, [host[h] EXCEPT !.phase = "retiring", !.then = "not-launched"])
       ELSE DeliverTells(host[h].drained, host[h].turn, TRUE) /\ HostAt(h, "driving")
    /\ OnlyHost

ToRetire(h, then) == HostTo(h, [host[h] EXCEPT !.phase = "retiring", !.then = then]) /\ UNCHANGED heartVars

BreakOff(h) ==
    /\ Fault("failure")
    /\ \/ At(h, "launching") /\ ToRetire(h, "not-launched")
       \/ At(h, "driving") /\ ~host[h].aborted /\ ToRetire(h, "failed")
    /\ OnlyHostFails

Interrupted(h) ==
    /\ host[h].phase \in {"launching", "driving"} /\ host[h].aborted
    /\ ToRetire(h, "stopped") /\ OnlyHost

Unattempted(h) == {t \in host[h].seen.pending : t \notin host[h].tried /\ t \notin SchemaTells}
Earliest(h) == {t \in Unattempted(h) : \A u \in Unattempted(h) : Place(t) <= Place(u)}

(* A Tell is pending: submit it live, or end the Turn to hand it over. *)
NoticeTell(h) ==
    /\ At(h, "driving") /\ ~host[h].aborted /\ host[h].pump = None
    /\ Unattempted(h) # {}
    /\ IF provider.live
       THEN /\ \E t \in Earliest(h) : HostTo(h, [host[h] EXCEPT !.pump = t, !.tried = host[h].tried \cup {t}])
            /\ UNCHANGED heartVars
       ELSE ToRetire(h, "handoff")
    /\ OnlyHost

Bound(h) == host[h].pump \in turns[host[h].turn].bound

(* The pump binds first; the transaction may commit after the Turn is over. *)
PumpBind(h) ==
    /\ host[h].pump # None /\ ~Bound(h)
    /\ IF Protected(host[h].pump, host[h].body)
       THEN HostTo(h, [host[h] EXCEPT !.pump = None, !.aborted = host[h].aborted \/ At(h, "driving")]) /\ UNCHANGED heartVars
       ELSE BindTells({host[h].pump}, host[h].turn) /\ UNCHANGED host
    /\ OnlyHost

PumpSubmit(h) ==
    /\ host[h].pump # None /\ Bound(h)
    /\ \/ /\ At(h, "driving") /\ ~host[h].aborted
          /\ IF Protected(host[h].pump, host[h].body)
             THEN HostTo(h, [host[h] EXCEPT !.pump = None, !.aborted = TRUE]) /\ UNCHANGED heartVars
             ELSE /\ DeliverTells({host[h].pump}, host[h].turn, ~provider.receipts)
                  /\ HostTo(h, [host[h] EXCEPT !.pump = None])
       \* The Turn ended under it: no more live Tells.
       \/ HostTo(h, [host[h] EXCEPT !.pump = None, !.tried = Tells]) /\ UNCHANGED heartVars
    /\ OnlyHost

Receipt(h) ==
    /\ At(h, "driving") /\ ~host[h].aborted /\ provider.receipts
    /\ \E t \in Pending :
          /\ <<t, host[h].turn, FALSE>> \in delivered
          /\ IF pause # None /\ Protected(t, pause.body)
             THEN HostTo(h, [host[h] EXCEPT !.aborted = TRUE]) /\ UNCHANGED heartVars
             ELSE ReceiptTell(t) /\ UNCHANGED host
    /\ OnlyHost

Complete(h) ==
    /\ At(h, "driving") /\ ~host[h].aborted /\ host[h].pump = None
    /\ \/ HostTo(h, [host[h] EXCEPT !.phase = "persisting", !.live = FALSE, !.then = "answered"]) /\ UNCHANGED faults
       \/ HostTo(h, [host[h] EXCEPT !.phase = "persisting", !.live = FALSE, !.then = "failed"]) /\ Fault("failure")
    /\ UNCHANGED heartVars /\ OnlyHostFails

(* The provider's custody ends, and only then what the Turn was ended for. *)
Retire(h) ==
    /\ At(h, "retiring")
    /\ LET then == IF host[h].aborted /\ host[h].then \in {"handoff", "not-launched"} THEN "stopped" ELSE host[h].then
       IN HostTo(h, [host[h] EXCEPT !.phase = IF then \in {"stopped", "handoff"} THEN "putting" ELSE "persisting",
                              !.live = FALSE, !.then = then])
    /\ UNCHANGED heartVars /\ OnlyHost

Hang(h) ==
    /\ At(h, "retiring") /\ Fault("hang")
    /\ RecordBodyHung(host[h].body)
    /\ HostTo(h, [host[h] EXCEPT !.phase = "breaking", !.then = "hung"])
    /\ OnlyHostFails

----------------------------------------------------------------------------
(* The end of a Turn and of a Body. *)

(* Mutation: the next Turn is chosen on what the last one saw. *)
PersistUnrefreshed(h) ==
    /\ At(h, "persisting")
    /\ IF host[h].then = "answered"
       THEN /\ EndTurn(host[h].turn, "answered")
            /\ HostTo(h, [host[h] EXCEPT !.phase = "choosing", !.initial = FALSE, !.drained = {}, !.tried = {}])
       ELSE EndTurn(host[h].turn, "failed") /\ HostAt(h, "failing")
    /\ OnlyHost

Persist(h) ==
    /\ At(h, "persisting")
    /\ IF host[h].then = "answered"
       THEN /\ EndTurn(host[h].turn, "answered")
            /\ HostTo(h, [host[h] EXCEPT !.phase = "refreshing", !.initial = FALSE, !.drained = {}, !.tried = {}])
       ELSE EndTurn(host[h].turn, "failed") /\ HostAt(h, "failing")
    /\ OnlyHost

FailTurns(h) ==
    /\ At(h, "failing")
    /\ FailOpenBoundTurns(host[h].body)
    /\ HostTo(h, [host[h] EXCEPT !.phase = IF host[h].then = "hung" THEN "closing" ELSE "breaking", !.exit = "ended"])
    /\ OnlyHost

Break(h) ==
    /\ At(h, "breaking")
    /\ BreakBody(host[h].body)
    /\ HostAt(h, IF host[h].then = "hung" THEN "failing" ELSE "closing")
    /\ OnlyHost

(* cancelBodyTurns refuses a Body that is not the latest or already ended. *)
PutDown(h) ==
    /\ At(h, "putting")
    /\ LET b == host[h].body
       IN /\ b = Latest /\ ~bodies[b].hung /\ bodies[b].end \in {"open", "put-down"}
          /\ CancelBodyTurns(b, host[h].then = "handoff")
          /\ HostTo(h, [host[h] EXCEPT !.phase = "releasing",
                                   !.exit = IF host[h].exit = "held" THEN "held" ELSE "ended"])
          /\ handing' = IF disposition'[b] = disposition[b] THEN handing
                        ELSE [handing EXCEPT ![h] = [phase |-> "decided", body |-> b, child |-> 0]]
    /\ UNCHANGED <<leash, client, provider, faults>>

(* finishBody: a hung or broken Body fails what is still bound. *)
Close(h) ==
    /\ At(h, "closing")
    /\ FailOpenBoundTurns(host[h].body)
    /\ HostAt(h, "releasing")
    /\ OnlyHost

Release(h) ==
    /\ At(h, "releasing")
    /\ leash' = None
    /\ HostEnds(h, host[h].exit, host[h].live)
    /\ handing' = [handing EXCEPT ![h].phase = IF @ = "decided" THEN "proving" ELSE @]
    /\ UNCHANGED <<heartVars, client, provider, faults>>

----------------------------------------------------------------------------
(* Handing decided Tells to a successor: by the host that decided, or by a  *)
(* client that recovers after a kill.                                      *)

HandingTo(a, r) == handing' = [handing EXCEPT ![a] = r]
HandingAt(a, phase) == HandingTo(a, [handing[a] EXCEPT !.phase = phase])
OnlyHanding == UNCHANGED <<leash, client, provider, faults>>

Prove(a) ==
    /\ handing[a].phase \in {"proving", "awaiting"} /\ Proven(handing[a].body)
    /\ ConsumeProven(handing[a].body)
    /\ HandingAt(a, "idle")
    /\ UNCHANGED host /\ OnlyHanding

Successor(a) ==
    /\ handing[a].phase = "proving" /\ ~Proven(handing[a].body)
    /\ IF Free # {}
       THEN /\ host' = Spawned(handing[a].body)
            /\ HandingTo(a, [handing[a] EXCEPT !.phase = "awaiting", !.child = NextHost])
       ELSE UNCHANGED host /\ HandingAt(a, "undelivered")
    /\ UNCHANGED heartVars /\ OnlyHanding

(* The successor is gone and nothing is proven: a held leash leaves the     *)
(* disposition open, any other end settles it as undelivered.              *)
SuccessorEnded(a) ==
    /\ handing[a].phase = "awaiting" /\ ~Proven(handing[a].body) /\ Gone(handing[a].child)
    /\ HandingAt(a, IF ChildEnd(handing[a].child) = "held" THEN "idle" ELSE "undelivered")
    /\ UNCHANGED <<heartVars, host>> /\ OnlyHanding

Undelivered(a) ==
    /\ handing[a].phase = "undelivered"
    /\ SettleUndelivered(handing[a].body)
    /\ HandingAt(a, "idle")
    /\ UNCHANGED host /\ OnlyHanding

(* handoffPendingTells. *)
Recover(c) ==
    /\ handing[c].phase = "recovering"
    /\ LET open == {b \in DOMAIN bodies : OpenDisposition(b)}
       IN IF open # {} THEN HandingTo(c, [handing[c] EXCEPT !.phase = "proving", !.body = Max(open)])
          ELSE IF Pending = {} THEN HandingAt(c, "idle")
          ELSE HandingTo(c, [handing[c] EXCEPT !.phase = "probing",
                                               !.body = IF Latest > 0 /\ Settled(Latest) THEN Latest ELSE 0])
    /\ UNCHANGED <<heartVars, host>> /\ OnlyHanding

(* A probe takes the leash for an instant. *)
Probe(c) ==
    /\ handing[c].phase = "probing"
    /\ IF leash = None THEN leash' = c /\ HandingAt(c, "probed")
       ELSE UNCHANGED leash /\ HandingAt(c, "idle")
    /\ UNCHANGED <<heartVars, host, client, provider, faults>>

Probed(c) ==
    /\ handing[c].phase = "probed"
    /\ leash' = None
    /\ HandingAt(c, IF handing[c].body = 0 THEN "idle" ELSE "deciding")
    /\ UNCHANGED <<heartVars, host, client, provider, faults>>

Decide(c) ==
    /\ handing[c].phase = "deciding"
    /\ DecideDisposition(handing[c].body, bodies[handing[c].body].end = "put-down")
    /\ HandingAt(c, IF disposition'[handing[c].body].state = "open" THEN "proving" ELSE "idle")
    /\ UNCHANGED host /\ OnlyHanding

----------------------------------------------------------------------------
(* Clients. *)

AskTell(c) ==
    /\ client[c].phase = "asked" /\ client[c].op = "tell"
    /\ RecordTell(client[c].tell)
    /\ IF TellOutcome(client[c].tell) = "busy" THEN Done(c, "busy")
       ELSE ClientAt(c, "waking")
    /\ OnlyClient

AskInterrupt(c) ==
    /\ client[c].phase = "asked" /\ client[c].op = "interrupt"
    /\ RecordInterrupt(client[c].tell)
    /\ IF InterruptOutcome(client[c].tell) # "recorded" THEN Done(c, "unavailable")
       ELSE LET barrier == BarrierOf(client[c].tell)
            IN IF barrier = None THEN ClientAt(c, "waking")
               ELSE ClientTo(c, [client[c] EXCEPT !.phase = "waiting", !.barrier = barrier, !.target = barrier.body])
    /\ OnlyClient

(* Every kill that was admitted recovers pending Tells when it returns. *)
Killed(c, result) ==
    /\ Done(c, result)
    /\ handing' = [handing EXCEPT ![c].phase = "recovering"]

AskKill(c) ==
    /\ client[c].phase = "asked" /\ client[c].op = "kill"
    /\ RequestStop
    /\ IF StopOutcome \notin {"thrown", "requested"}
       THEN Killed(c, IF StopOutcome = "witnessed" THEN "killed" ELSE StopOutcome)
       ELSE /\ IF StopOutcome = "thrown" THEN Done(c, "thrown")
               ELSE ClientTo(c, [client[c] EXCEPT !.phase = "waiting", !.target = Latest])
            /\ UNCHANGED handing
    /\ UNCHANGED <<leash, host, provider, faults>>

AcquireLeash(c) ==
    /\ client[c].phase = "waiting" /\ leash = None
    /\ leash' = c /\ ClientAt(c, "judging")
    /\ UNCHANGED <<heartVars, host, handing, provider, faults>>

(* The wait ends without the leash when its target is no longer the latest  *)
(* Body, or hung, or when the client stops waiting.                        *)
TargetLost(c) == Latest # client[c].target \/ bodies[Latest].hung

GiveUp(c) ==
    /\ client[c].phase = "waiting" /\ leash # None
    /\ IF client[c].op = "kill" \/ TargetLost(c) THEN ClientAt(c, "unheld")
       ELSE Done(c, "gave-up")
    /\ UNCHANGED heartVars /\ OnlyClient

Completed(c, evidence) ==
    IF evidence = "completed" THEN ClientAt(c, "waking")
    ELSE Done(c, "unavailable")

(* Without the leash only a barrier that somebody else consumed is over. *)

JudgeUnheld(c) ==
    /\ client[c].phase = "unheld"
    /\ IF client[c].op = "interrupt"
       THEN /\ UNCHANGED handing
            /\ Completed(c, IF pause = client[c].barrier THEN "untidy" ELSE Completion(client[c].barrier))
       ELSE Killed(c, IF client[c].target \in kills THEN "killed" ELSE "unavailable")
    /\ UNCHANGED <<heartVars, leash, host, provider, faults>>

JudgeInterrupt(c) ==
    /\ client[c].phase = "judging" /\ client[c].op = "interrupt"
    /\ CompleteInterruptBarrier(client[c].barrier)
    /\ leash' = None
    /\ Completed(c, Completion(client[c].barrier))
    /\ UNCHANGED <<host, handing, provider, faults>>

(* settleAkumaKill, under the leash. *)
JudgeKill(c) ==
    /\ client[c].phase = "judging" /\ client[c].op = "kill"
    /\ LET b == client[c].target
       IN IF b \in kills THEN UNCHANGED heartVars /\ Killed(c, "killed")
          ELSE IF b # Latest THEN UNCHANGED heartVars /\ Killed(c, "unavailable")
          ELSE IF bodies[b].hung THEN UNCHANGED heartVars /\ Killed(c, "hung")
          ELSE IF bodies[b].end # "put-down" THEN ClearStop /\ Killed(c, "untidy")
          ELSE SettleStop /\ Killed(c, IF stop = b THEN "killed" ELSE "unavailable")
    /\ leash' = None
    /\ UNCHANGED <<host, provider, faults>>

Wake(c) ==
    /\ client[c].phase = "waking"
    /\ IF Free # {}
       THEN /\ host' = Spawned(0)
            /\ ClientTo(c, [client[c] EXCEPT !.phase = "watching", !.target = Latest, !.child = NextHost])
       ELSE UNCHANGED host /\ Done(c, "failed")
    /\ UNCHANGED <<heartVars, leash, handing, provider, faults>>

(* Mutation: any Body that the teller finds is said to pursue its Tell. *)
HearAnyBody(c) ==
    /\ client[c].phase = "watching"
    /\ \/ Told(client[c].tell) /\ Done(c, "told")
       \/ /\ ~Told(client[c].tell) /\ Latest > 0 /\ Latest >= client[c].target
          /\ ClientTo(c, [client[c] EXCEPT !.phase = "done", !.result = "pursuing", !.target = Latest])
       \/ /\ ~Told(client[c].tell) /\ Latest <= client[c].target /\ Gone(client[c].child)
          /\ Done(c, ChildEnd(client[c].child))
    /\ UNCHANGED heartVars /\ OnlyClient

(* settledWake, and once more after the child is gone. *)
Hear(c) ==
    /\ client[c].phase = "watching"
    /\ \/ Told(client[c].tell) /\ Done(c, "told")
       \/ /\ ~Told(client[c].tell) /\ Latest > client[c].target
          /\ ClientTo(c, [client[c] EXCEPT !.phase = "done", !.result = "pursuing", !.target = Latest])
       \/ /\ ~Told(client[c].tell) /\ Latest <= client[c].target /\ Gone(client[c].child)
          /\ Done(c, ChildEnd(client[c].child))
    /\ UNCHANGED heartVars /\ OnlyClient

----------------------------------------------------------------------------

Crash(a) ==
    /\ Fault("crash")
    /\ \/ /\ a \in Hosts /\ host[a].phase \notin {"idle", "gone"}
          /\ HostEnds(a, "crashed", FALSE)
          /\ UNCHANGED client
       \/ /\ a \in Clients /\ client[a].phase \notin {"asked", "done"}
          /\ Done(a, "crashed")
          /\ UNCHANGED host
    /\ leash' = IF leash = a THEN None ELSE leash
    /\ handing' = [handing EXCEPT ![a] = [phase |-> "idle", body |-> 0, child |-> 0]]
    /\ UNCHANGED <<heartVars, provider>>

HostStep(h) ==
    \/ TakeLeash(h) \/ PrepareBarrier(h) \/ PrepareStop(h) \/ PrepareWork(h) \/ RecordOwnBody(h)
    \/ Refresh(h) \/ Observe(h)
    \/ Choose(h) \/ Begin(h) \/ Bind(h) \/ Start(h) \/ Established(h) \/ BreakOff(h) \/ Interrupted(h)
    \/ NoticeTell(h) \/ PumpBind(h) \/ PumpSubmit(h) \/ Receipt(h) \/ Complete(h) \/ Retire(h) \/ Hang(h)
    \/ Persist(h) \/ FailTurns(h) \/ Break(h) \/ PutDown(h) \/ Close(h) \/ Release(h)

HandingStep(a) ==
    Prove(a) \/ Successor(a) \/ SuccessorEnded(a) \/ Undelivered(a)

ClientStep(c) ==
    \/ AskTell(c) \/ AskInterrupt(c) \/ AskKill(c)
    \/ AcquireLeash(c) \/ GiveUp(c) \/ JudgeUnheld(c) \/ JudgeInterrupt(c) \/ JudgeKill(c)
    \/ Wake(c) \/ Hear(c)
    \/ Recover(c) \/ Probe(c) \/ Probed(c) \/ Decide(c)

Quiet ==
    /\ \A h \in Hosts : At(h, "idle") \/ Gone(h)
    /\ \A c \in Clients : client[c].phase = "done" /\ handing[c].phase = "idle"

Terminated == Quiet /\ UNCHANGED vars

Next ==
    \/ \E h \in Hosts : HostStep(h)
    \/ \E a \in Hosts \cup Clients : HandingStep(a) \/ Crash(a)
    \/ \E c \in Clients : ClientStep(c)
    \/ Terminated

Spec == Init /\ [][Next]_vars

LiveSpec ==
    /\ Spec
    /\ \A h \in Hosts : WF_vars(HostStep(h))
    /\ \A a \in Hosts \cup Clients : WF_vars(HandingStep(a))
    /\ \A c \in Clients : WF_vars(ClientStep(c))

----------------------------------------------------------------------------
(* Properties. *)

(* Types: what the heart and the leash refer to exists. *)
BodiesTyped ==
    /\ bodies \in Seq([end : {"open", "exited", "put-down", "broke-off"}, hung : BOOLEAN])
    /\ leash \in Hosts \cup Clients \cup {None}
    /\ stop \in DOMAIN bodies \cup {None}
    /\ kills \subseteq DOMAIN bodies
    /\ \A n \in DOMAIN turns : turns[n].body \in DOMAIN bodies /\ turns[n].bound \subseteq Admitted
    /\ pause = None \/ (pause.body \in DOMAIN bodies /\ pause.frontier \in Admitted)

(* Provider custody is never shared and never outlives its record: only the *)
(* latest Body has a provider; one that ended has none unless it hung, and  *)
(* has ended its Turns, whoever witnessed the end (insertBodyFact,          *)
(* cancelBodyTurns, breakBody, finishBodyIfIdle, requestStop).  Whatever a   *)
(* record refers to exists.                                                  *)
CustodyEnds ==
    /\ BodiesTyped
    /\ \A h \in Hosts : host[h].live => host[h].body = Latest /\ (Settled(Latest) => bodies[Latest].hung)
    /\ \A b \in DOMAIN bodies : Settled(b) /\ ~bodies[b].hung => OpenTurns(b) = {}

(* What one provider took is not handed to another: a Tell that a delivery   *)
(* or a receipt of a provider settled is delivered to no later Turn, of its *)
(* own Body or the next (the refresh between Turns, tellStateSql).          *)
Taken(t) == <<t, "provider">> \in receipts \/ \E d \in delivered : d[1] = t /\ d[3]
TakenOnce == [][\A d \in delivered' \ delivered : ~Taken(d[1])]_vars

(* The Tell that opened an interrupt barrier is never bound or delivered to  *)
(* the Body it interrupts, however late that Body notices                   *)
(* (isTellProtectedByPause in every Tell transaction).                      *)
InterruptedNeverReceives ==
    \A c \in Clients : client[c].barrier # None =>
        \A n \in DOMAIN turns : turns[n].body = client[c].barrier.body =>
            /\ client[c].barrier.frontier \notin turns[n].bound
            /\ \A d \in delivered : d[2] = n => d[1] # client[c].barrier.frontier

(* A teller that hears "told" was told, and one that hears that a Body       *)
(* pursues its Tell was told when that Body has exited: a Body does not exit *)
(* past a Tell it was woken for (settledWake, finishBodyIfIdle).            *)
HonestWake ==
    \A c \in Clients :
        /\ client[c].result = "told" => Told(client[c].tell)
        /\ client[c].result = "pursuing" /\ bodies[client[c].target].end = "exited" => Told(client[c].tell)

(* No process waits for ever: every host ends, every client hears a result   *)
(* and every handover is settled or left to be picked up.                   *)
EveryoneEnds == <>[]Quiet

(* docs/akuma-execution.md:133-135: absent superseding control, no path      *)
(* leaves the Tells of a disposition with neither a successor that took them *)
(* nor an undelivered projection.                                           *)
DispositionsSettle ==
    Quiet /\ ~(\E n \in DOMAIN faults : faults[n] = "crash") =>
        \A b \in DOMAIN bodies : OpenDisposition(b) => HandoffControl(b) \/ \A t \in disposition[b].tells : Told(t)
============================================================================
