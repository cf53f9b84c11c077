-------------------------- MODULE AkumaBodiesProofs --------------------------
(* Theorems about AkumaBodies, for any number of hosts, clients and Tells:   *)
(* that a provider's custody ends with its record, that an interrupted Body  *)
(* never takes the interrupting Tell, that a Tell which was taken is never   *)
(* delivered again, and that a teller hears the truth.                       *)
(*                                                                           *)
(* The argument is about the leash.  The host that holds it is the only one  *)
(* inside: nobody else begins, binds or ends a Turn or records a Body, and   *)
(* whoever clears a barrier holds the leash, so that no host is inside a     *)
(* Body whose barrier is gone.                                               *)
(*                                                                           *)
(* The last part is about the timeline that the same transactions keep, and  *)
(* prune (HeartTimeline, as an instance): what is pruned is closed under all *)
(* that the rest refers to, and of the activities it is the oldest.          *)
EXTENDS AkumaBodies, FiniteSetTheorems, TLAPS

-----------------------------------------------------------------------------
(* Types                                                                     *)

BodyRecords == [end : {"open", "exited", "put-down", "broke-off"}, hung : BOOLEAN]
TurnRecords == [body : Nat, end : {"open", "answered", "failed", "canceled"}, bound : SUBSET Tells]
Barriers == [body : Nat, frontier : Tells]

HeartTyped ==
    /\ bodies \in Seq(BodyRecords) /\ tells \in Seq(Tells) /\ turns \in Seq(TurnRecords)
    /\ \A n \in DOMAIN turns : turns[n].body \in DOMAIN bodies /\ turns[n].bound \subseteq Admitted
    /\ \A d \in delivered : d[1] \in Admitted /\ d[2] \in DOMAIN turns
    /\ pause # None => pause \in Barriers /\ pause.body \in DOMAIN bodies /\ pause.frontier \in Admitted
    /\ stop \in DOMAIN bodies \cup {None} /\ kills \subseteq DOMAIN bodies

HostFields ==
    {"phase", "from", "initial", "body", "seen", "aborted", "turn", "drained", "tried", "pump", "live", "then", "exit"}
ClientFields == {"op", "tell", "phase", "target", "barrier", "child", "result"}
HandingFields == {"phase", "body", "child"}

Outside == {"idle", "launched", "gone"}
Early == {"preparing", "stops", "wanted", "recording"}
Between == {"choosing", "refreshing", "beginning"}
Launching == {"binding", "starting", "launching"}
Within == Launching \cup {"driving", "retiring", "persisting"}
Failing == {"failing", "breaking", "closing"}
Phases == Outside \cup Early \cup Between \cup Within \cup Failing \cup {"putting", "releasing"}
ClientPhases == {"asked", "waiting", "unheld", "judging", "waking", "watching", "done"}

-----------------------------------------------------------------------------
(* The invariant                                                             *)

(* Only who holds the leash is inside. A host h with the record r.           *)
Seat(h, r) == DOMAIN r = HostFields /\ r.phase \in Phases /\ (r.phase \notin Outside => leash = h)

(* The host inside runs the latest Body, and at most its own Turn is open.   *)
Work(r) ==
    /\ r.phase \in {"idle", "launched"} \cup Early => r.body = 0
    /\ r.phase \in Between \cup Within \cup {"putting"} =>
          r.body = Latest /\ Latest > 0 /\ bodies[Latest].end = "open" /\ ~bodies[Latest].hung
    /\ r.phase \in Between => OpenTurns(Latest) = {}
    /\ r.phase \in Within => r.turn \in DOMAIN turns /\ turns[r.turn].body = Latest /\ OpenTurns(Latest) \subseteq {r.turn}
    /\ r.phase \in Failing => r.body = Latest /\ Latest > 0 /\ (bodies[Latest].hung \/ OpenTurns(Latest) = {})
    /\ r.live => \/ r.phase \in {"launching", "driving", "retiring"}
                 \/ r.body = Latest /\ Latest > 0 /\ bodies[Latest].hung

(* The pump has a Tell only since its Turn began.                            *)
Pump(r) ==
    r.pump # None =>
        /\ r.phase \in {"driving", "retiring", "persisting", "putting", "releasing"} \cup Failing
        /\ r.phase \in {"retiring", "persisting"} => r.then # "answered"
        /\ r.pump \in Admitted
        /\ r.turn \in DOMAIN turns /\ turns[r.turn].body = r.body

(* What a host means to deliver was not taken, and it knows what was.        *)
Memory(r) ==
    /\ r.seen.pending \subseteq Admitted /\ r.drained \subseteq Admitted
    /\ r.phase \in {"choosing", "beginning"} \cup Launching => \A t \in r.seen.pending : ~Taken(t)
    /\ r.phase \in {"beginning"} \cup Launching => r.drained \subseteq r.tried /\ \A t \in r.drained : ~Taken(t)
    /\ r.phase \in Launching => \A d \in delivered : d[2] # r.turn
    /\ r.phase = "driving" =>
          /\ \A t \in r.seen.pending : Taken(t) => t \in r.tried
          /\ \A d \in delivered : d[2] = r.turn => d[1] \in r.tried
          /\ r.pump # None => r.pump \in r.tried /\ ~Taken(r.pump) /\ \A d \in delivered : d[2] = r.turn => d[1] # r.pump

Hosting(h, r) == Seat(h, r) /\ Work(r) /\ Pump(r) /\ Memory(r)

(* A Body that ended has ended its Turns, unless its provider hung.          *)
TurnsEnd == \A b \in DOMAIN bodies : Settled(b) /\ ~bodies[b].hung => OpenTurns(b) = {}

(* The Body of the barrier B has not taken its frontier.                     *)
Guarded(B) ==
    \A n \in DOMAIN turns : turns[n].body = B.body =>
        /\ B.frontier \notin turns[n].bound
        /\ \A d \in delivered : d[2] = n => d[1] # B.frontier

Abandoned(b) == \A h \in Hosts : host[h].phase \notin Outside => host[h].body # b

(* A client's barrier stands, or no host is inside its Body any more.        *)
Barred(B) == B \in Barriers /\ B.body \in DOMAIN bodies /\ Guarded(B) /\ (B = pause \/ Abandoned(B.body))

(* No Body beyond b exited while t was pending.                              *)
Pursued(b, t) == \A n \in DOMAIN bodies : n > b /\ bodies[n].end = "exited" => Told(t)

(* A client c with the record r and the handover g.                          *)
Asking(c, r, g) ==
    /\ DOMAIN r = ClientFields /\ r.phase \in ClientPhases /\ r.tell \in Tells
    /\ r.phase = "judging" => leash = c
    /\ r.phase # "done" => r.result = "none" /\ g.phase = "idle"
    /\ r.phase \in {"waking", "watching"} => r.tell \in Admitted
    /\ r.phase \in {"waiting", "unheld", "judging"} /\ r.op = "interrupt" => r.tell \in Admitted
Hearing(r) ==
    /\ r.barrier # None => Barred(r.barrier)
    /\ r.phase = "watching" => r.target \in Nat /\ Pursued(r.target, r.tell)
    /\ r.result = "told" => Told(r.tell)
    /\ r.result = "pursuing" =>
          /\ r.tell \in Admitted /\ r.target \in DOMAIN bodies
          /\ bodies[r.target].end = "exited" => Told(r.tell)
Recovering(c, g) ==
    /\ g.phase = "probed" => leash = c
    /\ g.phase \in {"probing", "probed", "deciding"} /\ g.body # 0 => g.body \in DOMAIN bodies /\ Settled(g.body)
    /\ g.phase = "deciding" => g.body # 0

Tables ==
    /\ DOMAIN host = Hosts /\ DOMAIN client = Clients /\ DOMAIN handing = Hosts \cup Clients
    /\ \A a \in Hosts \cup Clients : DOMAIN handing[a] = HandingFields
    /\ leash \in Hosts \cup Clients \cup {None}

Inv ==
    /\ HeartTyped /\ Tables /\ TurnsEnd
    /\ pause # None => Guarded(pause)
    /\ \A h \in Hosts : Hosting(h, host[h])
    /\ \A c \in Clients : Asking(c, client[c], handing[c]) /\ Hearing(client[c]) /\ Recovering(c, handing[c])

-----------------------------------------------------------------------------
(* What a step does to the heart                                             *)

(* Nothing that was recorded is taken back; a Body exits with nothing        *)
(* pending, and none follows one that hung.                                  *)
Onward ==
    /\ \A b \in DOMAIN bodies :
          /\ b \in DOMAIN bodies'
          /\ Settled(b) => bodies'[b].end = bodies[b].end
          /\ bodies[b].hung => bodies'[b].hung
    /\ Latest > 0 /\ bodies[Latest].hung => Latest' = Latest
    /\ Admitted \subseteq Admitted' /\ receipts \subseteq receipts' /\ delivered \subseteq delivered'
    /\ \A n \in DOMAIN turns : n \in DOMAIN turns' /\ turns'[n].body = turns[n].body
    /\ \A b \in DOMAIN bodies' : bodies'[b].end = "exited" =>
          (b \in DOMAIN bodies /\ bodies[b].end = "exited") \/ Pending = {}

(* Only for the Body with a host inside, and past no barrier, is a Tell      *)
(* bound or delivered; none is that was taken.                               *)
Touched ==
    /\ \A n \in DOMAIN turns' : \A t \in turns'[n].bound :
          \/ n \in DOMAIN turns /\ t \in turns[n].bound
          \/ ~Abandoned(turns'[n].body) /\ ~Protected(t, turns'[n].body)
    /\ \A d \in delivered' : d \notin delivered =>
          /\ d[2] \in DOMAIN turns /\ ~Abandoned(turns[d[2]].body) /\ ~Protected(d[1], turns[d[2]].body)
          /\ ~Taken(d[1])

(* A barrier goes when no host is inside a Body that there was, and comes    *)
(* with a Tell that is new.                                                  *)
Paused ==
    \/ pause' = pause
    \/ pause' = None /\ UNCHANGED <<turns, delivered>> /\ \A b \in DOMAIN bodies : Abandoned(b)'
    \/ /\ pause = None /\ UNCHANGED <<turns, delivered>>
       /\ pause' \in Barriers /\ pause'.body \in DOMAIN bodies /\ pause'.frontier \notin Admitted

HostsStay ==
    \A h \in Hosts : host'[h].phase \notin Outside /\ host'[h].body \in DOMAIN bodies =>
        host[h].phase \notin Outside /\ host[h].body = host'[h].body

HeartMoves == HeartTyped' /\ TurnsEnd' /\ Onward /\ Touched

(* A step that leaves the Turns and Bodies as they are.                      *)
Undisturbed ==
    /\ UNCHANGED <<bodies, turns, delivered>> /\ Admitted \subseteq Admitted'
    /\ \A t : <<t, "provider">> \in receipts' <=> <<t, "provider">> \in receipts

LEMMA PlaceIs == ASSUME HeartTyped, NEW t \in Admitted PROVE Place(t) \in DOMAIN tells /\ Place(t) \in Nat
BY DEF HeartTyped, Admitted, Place

LEMMA AdmittedAreTells == HeartTyped => Admitted \subseteq Tells
BY DEF HeartTyped, Admitted

LEMMA ToldStays == Onward => \A t : Told(t) => Told(t)'
BY DEF Onward, Told

(* What a provider took is told.                                             *)
LEMMA TakenIsTold == \A t : Taken(t) => Told(t)
BY DEF Taken, Told

LEMMA HeartRests ==
  ASSUME Inv, UNCHANGED heartVars
  PROVE  HeartMoves /\ pause' = pause /\ Undisturbed
<1>1. HeartTyped' /\ TurnsEnd' /\ Undisturbed
  BY DEF Inv, heartVars, HeartTyped, TurnsEnd, Undisturbed, Admitted, Settled, OpenTurns
<1>2. Onward
  BY DEF heartVars, Onward, Admitted, Latest
<1>3. Touched
  BY DEF heartVars, Touched
<1> QED
  BY <1>1, <1>2, <1>3 DEF HeartMoves, heartVars

-----------------------------------------------------------------------------
(* What a step leaves alone                                                  *)

(* An abandoned Body stays so: a host comes in for a new one.                *)
LEMMA AbandonedStays ==
  ASSUME HostsStay, NEW b \in DOMAIN bodies, Abandoned(b) PROVE Abandoned(b)'
BY DEF HostsStay, Abandoned

LEMMA GuardStays ==
  ASSUME Inv, HeartMoves, NEW B, Barred(B) PROVE Guarded(B)'
<1>1. ASSUME ~Abandoned(B.body) PROVE Protected(B.frontier, B.body)
  <2>1. B = pause /\ pause # None
    BY <1>1, BodiesAssumption DEF Barred, Barriers
  <2>2. Place(pause.frontier) \in Nat
    BY <2>1, PlaceIs DEF Inv, HeartTyped
  <2> QED
    BY <2>1, <2>2 DEF Protected
<1>2. ASSUME NEW n \in DOMAIN turns', turns'[n].body = B.body, B.frontier \in turns'[n].bound PROVE FALSE
  <2>1. CASE n \in DOMAIN turns /\ B.frontier \in turns[n].bound
    BY <1>2, <2>1 DEF HeartMoves, Onward, Barred, Guarded
  <2>2. CASE ~Abandoned(turns'[n].body) /\ ~Protected(B.frontier, turns'[n].body)
    BY <1>1, <1>2, <2>2
  <2> QED
    BY <1>2, <2>1, <2>2 DEF HeartMoves, Touched
<1>3. ASSUME NEW n \in DOMAIN turns', turns'[n].body = B.body, NEW d \in delivered', d[2] = n, d[1] = B.frontier PROVE FALSE
  <2>1. CASE d \in delivered
    BY <1>3, <2>1 DEF HeartMoves, Onward, Barred, Guarded, Inv, HeartTyped
  <2>2. CASE d \notin delivered
    BY <1>1, <1>3, <2>2 DEF HeartMoves, Onward, Touched
  <2> QED
    BY <2>1, <2>2
<1> QED
  BY <1>2, <1>3 DEF Guarded

LEMMA BarredStays ==
  ASSUME Inv, HeartMoves, Paused, HostsStay, NEW B, Barred(B) PROVE Barred(B)'
<1>1. Guarded(B)' /\ B.body \in DOMAIN bodies'
  BY GuardStays DEF HeartMoves, Onward, Barred
<1>2. B = pause' \/ Abandoned(B.body)'
  <2>1. CASE Abandoned(B.body)
    BY <2>1, AbandonedStays DEF Barred
  <2>2. CASE B = pause
    BY <2>2, BodiesAssumption DEF Barred, Barriers, Paused
  <2> QED
    BY <2>1, <2>2 DEF Barred
<1> QED
  BY <1>1, <1>2 DEF Barred

LEMMA PauseStaysGuarded ==
  ASSUME Inv, HeartMoves, Paused PROVE pause' # None => Guarded(pause)'
<1>1. CASE pause' = pause /\ pause # None
  <2>1. Barred(pause)
    BY <1>1 DEF Inv, HeartTyped, Barred
  <2>2. \A B : Barred(B) => Guarded(B)'
    BY GuardStays
  <2> QED
    BY <1>1, <2>1, <2>2 DEF Guarded
<1>2. CASE UNCHANGED <<turns, delivered>> /\ pause'.frontier \notin Admitted
  BY <1>2 DEF Inv, HeartTyped, Guarded
<1> QED
  BY <1>1, <1>2 DEF Paused

LEMMA HearingStays ==
  ASSUME Inv, HeartMoves, Paused, HostsStay, NEW c \in Clients, NEW r, NEW g, Asking(c, r, g), Hearing(r)
  PROVE  Hearing(r)'
<1>1. r.barrier # None => Barred(r.barrier)'
  BY BarredStays DEF Hearing
<1>2. \A t : Told(t) => Told(t)'
  BY ToldStays DEF HeartMoves
<1>3. \A t \in Admitted : Pending = {} => Told(t)
  BY DEF Pending
<1>4. ASSUME r.phase = "watching" PROVE r.target \in Nat /\ Pursued(r.target, r.tell)'
  BY <1>2, <1>3, <1>4 DEF HeartMoves, Onward, Hearing, Pursued, Asking
<1>5. ASSUME r.result = "pursuing"
      PROVE  /\ r.tell \in Admitted' /\ r.target \in DOMAIN bodies'
             /\ bodies'[r.target].end = "exited" => Told(r.tell)'
  BY <1>2, <1>3, <1>5 DEF HeartMoves, Onward, Hearing
<1> QED
  BY <1>1, <1>2, <1>4, <1>5 DEF Hearing

LEMMA AskingStays ==
  ASSUME Onward, NEW c, NEW r, NEW g, Asking(c, r, g), r.phase = "judging" => leash' = c
  PROVE  Asking(c, r, g)'
BY DEF Onward, Asking

LEMMA RecoveringStays ==
  ASSUME Onward, NEW c, NEW g, Recovering(c, g), g.phase = "probed" => leash' = c
  PROVE  Recovering(c, g)'
BY DEF Onward, Recovering, Settled

(* Nothing happens to a host outside.                                        *)
LEMMA OutsideStays ==
  ASSUME Onward, NEW h, NEW r, Hosting(h, r), r.phase \in Outside PROVE Hosting(h, r)'
<1>1. Seat(h, r)' /\ Pump(r)'
  BY DEF Hosting, Seat, Pump, Outside, Failing
<1>2. Work(r)'
  <2>1. r.phase \notin Between \cup Within \cup {"putting"} \cup Failing
    BY DEF Outside, Between, Within, Launching, Failing
  <2>2. Latest > 0 /\ bodies[Latest].hung => Latest' > 0 /\ bodies'[Latest].hung
    BY DEF Onward, Latest
  <2> QED
    BY <2>1, <2>2 DEF Hosting, Work, Onward, Outside
<1>3. Memory(r)'
  BY DEF Hosting, Memory, Onward, Outside, Launching
<1> QED
  BY <1>1, <1>2, <1>3 DEF Hosting

(* A host rests while others do not disturb its Turn.                        *)
LEMMA HostRests ==
  ASSUME Undisturbed, NEW h, NEW r, Hosting(h, r), r.phase \notin Outside => leash' = leash PROVE Hosting(h, r)'
<1>1. \A t : Taken(t)' <=> Taken(t)
  BY DEF Undisturbed, Taken
<1>2. Latest' = Latest /\ \A b : OpenTurns(b)' = OpenTurns(b)
  BY DEF Undisturbed, Latest, OpenTurns
<1>3. Seat(h, r)' /\ Pump(r)'
  BY DEF Undisturbed, Hosting, Seat, Pump
<1>4. Work(r)'
  BY <1>2 DEF Undisturbed, Hosting, Work
<1>5. Memory(r)'
  BY <1>1 DEF Undisturbed, Hosting, Memory
<1> QED
  BY <1>3, <1>4, <1>5 DEF Hosting

-----------------------------------------------------------------------------
(* A step of the host inside                                                 *)

(* What a host may turn into.                                                *)
Moved(h, r) ==
    /\ h \in Hosts /\ host[h].phase \notin Outside
    /\ DOMAIN host' = Hosts /\ host'[h] = r /\ \A g \in Hosts : g # h => host'[g] = host[g]
    /\ r.body = host[h].body \/ r.body \notin DOMAIN bodies

LEMMA HostsStayBy ==
  ASSUME Inv, NEW h, NEW r, Moved(h, r) PROVE HostsStay
BY DEF Inv, Tables, Moved, HostsStay

(* Handovers change only for hosts.                                          *)
HandedByHosts ==
    /\ DOMAIN handing' = Hosts \cup Clients /\ \A a \in Hosts \cup Clients : DOMAIN handing'[a] = HandingFields
    /\ \A c \in Clients : handing'[c] = handing[c]

(* A client that does nothing keeps what it has.                             *)
LEMMA ClientRests ==
  ASSUME Inv, HeartMoves, Paused, HostsStay, NEW c \in Clients, client'[c] = client[c], handing'[c] = handing[c],
         leash = c => leash' = c
  PROVE  Asking(c, client[c], handing[c])' /\ Hearing(client[c])' /\ Recovering(c, handing[c])'
<1>1. \A r, g : Asking(c, r, g) /\ Hearing(r) => Hearing(r)'
  BY HearingStays
<1>2. \A r, g : Asking(c, r, g) /\ (r.phase = "judging" => leash' = c) => Asking(c, r, g)'
  BY AskingStays DEF HeartMoves
<1>3. \A g : Recovering(c, g) /\ (g.phase = "probed" => leash' = c) => Recovering(c, g)'
  BY RecoveringStays DEF HeartMoves
<1>4. Asking(c, client[c], handing[c]) /\ Hearing(client[c]) /\ Recovering(c, handing[c])
  BY DEF Inv
<1>5. (client[c].phase = "judging" => leash' = c) /\ (handing[c].phase = "probed" => leash' = c)
  BY <1>4 DEF Asking, Recovering
<1> QED
  BY <1>1, <1>2, <1>3, <1>4, <1>5

LEMMA HostMoves ==
  ASSUME Inv, NEW h, NEW r, Moved(h, r), HeartMoves, Paused, Hosting(h, r)', UNCHANGED <<leash, client>>, HandedByHosts
  PROVE  Inv'
<1>1. HostsStay
  BY HostsStayBy
<1>2. leash = h
  BY DEF Inv, Moved, Hosting, Seat
<1>3. ASSUME NEW g \in Hosts PROVE Hosting(g, host[g])'
  <2>1. CASE g = h
    BY <2>1 DEF Moved, Inv, Tables
  <2>2. CASE g # h
    <3>1. Hosting(g, host[g]) /\ host[g].phase \in Outside /\ host'[g] = host[g]
      BY <1>2, <2>2 DEF Moved, Inv, Tables, Hosting, Seat
    <3>2. \A r1 : Hosting(g, r1) /\ r1.phase \in Outside => Hosting(g, r1)'
      BY OutsideStays DEF HeartMoves
    <3> QED
      BY <3>1, <3>2
  <2> QED
    BY <2>1, <2>2
<1>4. \A c \in Clients : Asking(c, client[c], handing[c])' /\ Hearing(client[c])' /\ Recovering(c, handing[c])'
  BY <1>1, ClientRests DEF HandedByHosts
<1>5. Tables'
  BY DEF Moved, Inv, Tables, HandedByHosts
<1>6. pause' # None => Guarded(pause)'
  BY PauseStaysGuarded
<1> QED
  BY <1>3, <1>4, <1>5, <1>6 DEF Inv, HeartMoves

(* A step that leaves the heart as it is.                                    *)
LEMMA HostingIsLocal ==
  ASSUME UNCHANGED heartVars, UNCHANGED leash, NEW h, NEW r, Hosting(h, r) PROVE Hosting(h, r)'
<1>1. Undisturbed
  BY DEF heartVars, Undisturbed, Admitted
<1> QED
  BY <1>1, HostRests

LEMMA HostMovesAlone ==
  ASSUME Inv, NEW h, NEW r, Moved(h, r), UNCHANGED heartVars, Hosting(h, r), UNCHANGED <<leash, client, handing>>
  PROVE  Inv' /\ HeartMoves
<1>1. HeartMoves /\ Paused
  BY HeartRests DEF Paused
<1>2. Hosting(h, r)'
  BY HostingIsLocal
<1>3. HandedByHosts
  BY DEF HandedByHosts, Inv, Tables
<1> QED
  BY <1>1, <1>2, <1>3, HostMoves

(* What is known of a host that is inside, in one of its phases.             *)
LEMMA Inside ==
  ASSUME Inv, NEW h \in Hosts, host[h].phase \notin Outside
  PROVE  Hosting(h, host[h]) /\ leash = h
BY DEF Inv, Hosting, Seat

-----------------------------------------------------------------------------
(* Steps of a host that leave the heart alone                                *)

LEMMA HostTurns ==
  ASSUME Inv, NEW h \in Hosts, host[h].phase \notin Outside, NEW r, HostTo(h, r), r.body = host[h].body,
         Hosting(h, r), UNCHANGED heartVars, UNCHANGED <<leash, client, handing>>
  PROVE  Inv' /\ HeartMoves
<1>1. Moved(h, r)
  BY DEF Moved, HostTo, Inv, Tables
<1> QED
  BY <1>1, HostMovesAlone

LEMMA WorkWanted ==
  ASSUME Inv, NEW h \in Hosts, PrepareWork(h) PROVE Inv' /\ HeartMoves
<1> DEFINE r == [host[h] EXCEPT !.phase = "recording"]
           s == [host[h] EXCEPT !.phase = "releasing", !.exit = IF pause # None THEN "held" ELSE "ended"]
<1> USE DEF Phases, Outside, Early, Between, Within, Launching, Failing
<1>1. host[h].phase \notin Outside /\ Hosting(h, host[h]) /\ host[h].phase = "wanted"
  BY Inside DEF PrepareWork, At
<1>2. Hosting(h, r) /\ r.body = host[h].body
  BY <1>1 DEF Hosting, Seat, Work, Pump, Memory, HostFields
<1>3. Hosting(h, s) /\ s.body = host[h].body
  BY <1>1 DEF Hosting, Seat, Work, Pump, Memory, HostFields
<1>4. HostTo(h, r) \/ HostTo(h, s)
  BY DEF PrepareWork, Refuse, HostAt
<1> HIDE DEF r, s
<1> QED
  BY <1>1, <1>2, <1>3, <1>4, HostTurns DEF PrepareWork, OnlyHost

(* The host sees the heart, now or later.                                    *)
LEMMA SeenIsFresh ==
  ASSUME Inv PROVE Seen.pending \subseteq Admitted /\ \A t \in Seen.pending : ~Taken(t)
BY TakenIsTold DEF Seen, Pending

LEMMA RefreshKeeps ==
  ASSUME Inv, NEW h \in Hosts, Refresh(h) PROVE Inv' /\ HeartMoves
<1> DEFINE r == [host[h] EXCEPT !.phase = "choosing", !.seen = Seen]
<1> USE DEF Phases, Outside, Early, Between, Within, Launching, Failing
<1>1. host[h].phase \notin Outside /\ Hosting(h, host[h]) /\ host[h].phase = "refreshing"
  BY Inside DEF Refresh, At
<1>2. Hosting(h, r) /\ r.body = host[h].body
  BY <1>1, SeenIsFresh DEF Hosting, Seat, Work, Pump, Memory, HostFields
<1>3. HostTo(h, r)
  BY DEF Refresh
<1> HIDE DEF r
<1> QED
  BY <1>1, <1>2, <1>3, HostTurns DEF Refresh, OnlyHost

LEMMA ObserveKeeps ==
  ASSUME Inv, NEW h \in Hosts, Observe(h) PROVE Inv' /\ HeartMoves
<1> DEFINE r == [host[h] EXCEPT !.seen = Seen, !.aborted = Controlled(host[h].body)]
<1> USE DEF Phases, Outside, Early, Between, Within, Launching, Failing
<1>1. host[h].phase \notin Outside /\ Hosting(h, host[h])
  BY Inside DEF Observe, Supervised
<1>2. Hosting(h, r) /\ r.body = host[h].body
  BY <1>1, SeenIsFresh DEF Hosting, Seat, Work, Pump, Memory, HostFields
<1>3. HostTo(h, r)
  BY DEF Observe
<1> HIDE DEF r
<1> QED
  BY <1>1, <1>2, <1>3, HostTurns DEF Observe, OnlyHost

(* Before its Turn begins, and within a Turn whose provider is gone, a host  *)
(* may go over to putting its Body down.                                     *)
LEMMA MayPutDown ==
  ASSUME Inv, NEW h \in Hosts, host[h].phase \in Between \cup {"binding", "starting"},
         NEW r, r \in {PutDownPhase(h), [PutDownPhase(h) EXCEPT !.aborted = TRUE], [PutDownPhase(h) EXCEPT !.exit = "held"]}
  PROVE  host[h].phase \notin Outside /\ Hosting(h, r) /\ r.body = host[h].body
<1> USE DEF Phases, Outside, Early, Between, Within, Launching, Failing
<1>1. host[h].phase \notin Outside /\ Hosting(h, host[h])
  BY Inside
<1>2. r.phase = "putting" /\ r.body = host[h].body /\ r.live = host[h].live /\ r.pump = host[h].pump
      /\ r.turn = host[h].turn /\ r.seen = host[h].seen /\ r.drained = host[h].drained /\ DOMAIN r = HostFields
  BY <1>1 DEF PutDownPhase, Hosting, Seat, HostFields
<1>3. Seat(h, r) /\ Work(r)
  BY <1>1, <1>2 DEF Hosting, Seat, Work
<1>4. Pump(r) /\ Memory(r)
  BY <1>1, <1>2 DEF Hosting, Pump, Memory
<1> QED
  BY <1>1, <1>2, <1>3, <1>4 DEF Hosting

LEMMA DrainIsPending == \A P, B, b : Drain(P, B, b) \subseteq P
BY DEF Drain

(* A Turn is chosen, or the Body is put down for a control.                  *)
LEMMA ChooseTurn ==
  ASSUME Inv, NEW h \in Hosts, At(h, "choosing"), UNCHANGED heartVars, UNCHANGED <<leash, client, handing>>,
         NEW S \in SUBSET host[h].seen.pending,
         \/ HostTo(h, PutDownPhase(h)) \/ HostTo(h, [PutDownPhase(h) EXCEPT !.aborted = TRUE])
         \/ HostTo(h, [host[h] EXCEPT !.phase = "refreshing"])
         \/ HostTo(h, [host[h] EXCEPT !.phase = "beginning", !.drained = S, !.tried = S])
  PROVE  Inv' /\ HeartMoves
<1> DEFINE r == [host[h] EXCEPT !.phase = "refreshing"]
           s == [host[h] EXCEPT !.phase = "beginning", !.drained = S, !.tried = S]
<1> USE DEF Phases, Outside, Early, Between, Within, Launching, Failing
<1>1. host[h].phase \notin Outside /\ Hosting(h, host[h]) /\ host[h].phase = "choosing"
  BY Inside DEF At
<1>2. Hosting(h, r) /\ r.body = host[h].body
  BY <1>1 DEF Hosting, Seat, Work, Pump, Memory, HostFields
<1>3. Hosting(h, s) /\ s.body = host[h].body
  BY <1>1 DEF Hosting, Seat, Work, Pump, Memory, HostFields
<1>4. \E q : HostTo(h, q) /\ q \in {PutDownPhase(h), [PutDownPhase(h) EXCEPT !.aborted = TRUE], r, s}
  OBVIOUS
<1> HIDE DEF r, s
<1> QED
  BY <1>1, <1>2, <1>3, <1>4, MayPutDown, HostTurns

LEMMA HeldKeeps ==
  ASSUME Inv, NEW h \in Hosts, host[h].phase \in {"beginning", "binding"}, PutDownHeld(h), OnlyHost
  PROVE  Inv' /\ HeartMoves
<1>1. host[h].phase \in Between \cup {"binding", "starting"}
  BY DEF Between
<1> QED
  BY <1>1, MayPutDown, HostTurns DEF PutDownHeld, OnlyHost

LEMMA StartKeeps ==
  ASSUME Inv, NEW h \in Hosts, Start(h) PROVE Inv' /\ HeartMoves
<1> DEFINE r == [host[h] EXCEPT !.phase = "launching", !.live = TRUE]
<1> USE DEF Phases, Outside, Early, Between, Within, Launching, Failing
<1>1. host[h].phase \notin Outside /\ Hosting(h, host[h]) /\ host[h].phase = "starting"
  BY Inside DEF Start, At
<1>2. Hosting(h, r) /\ r.body = host[h].body
  BY <1>1 DEF Hosting, Seat, Work, Pump, Memory, HostFields
<1>3. HostTo(h, r) \/ HostTo(h, PutDownPhase(h))
  BY DEF Start
<1> HIDE DEF r
<1> QED
  BY <1>1, <1>2, <1>3, MayPutDown, HostTurns DEF Start, OnlyHost

LEMMA RetireKeeps ==
  ASSUME Inv, NEW h \in Hosts, host[h].phase \in {"launching", "driving"}, NEW then, then # "answered", ToRetire(h, then),
         UNCHANGED <<leash, client, handing>>
  PROVE  Inv' /\ HeartMoves
<1> DEFINE r == [host[h] EXCEPT !.phase = "retiring", !.then = then]
<1> USE DEF Phases, Outside, Early, Between, Within, Launching, Failing
<1>1. host[h].phase \notin Outside /\ Hosting(h, host[h])
  BY Inside
<1>2. Hosting(h, r) /\ r.body = host[h].body
  BY <1>1 DEF Hosting, Seat, Work, Pump, Memory, HostFields
<1>3. HostTo(h, r)
  BY DEF ToRetire
<1> HIDE DEF r
<1> QED
  BY <1>1, <1>2, <1>3, HostTurns DEF ToRetire

LEMMA BreakOffKeeps ==
  ASSUME Inv, NEW h \in Hosts, BreakOff(h) \/ Interrupted(h) PROVE Inv' /\ HeartMoves
<1>1. CASE At(h, "launching") /\ ToRetire(h, "not-launched")
  BY <1>1, RetireKeeps DEF BreakOff, Interrupted, At, OnlyHostFails, OnlyHost
<1>2. CASE At(h, "driving") /\ ToRetire(h, "failed")
  BY <1>2, RetireKeeps DEF BreakOff, Interrupted, At, OnlyHostFails, OnlyHost
<1>3. CASE Interrupted(h)
  BY <1>3, RetireKeeps DEF Interrupted, OnlyHost
<1> QED
  BY <1>1, <1>2, <1>3 DEF BreakOff

LEMMA NoticeKeeps ==
  ASSUME Inv, NEW h \in Hosts, NoticeTell(h) PROVE Inv' /\ HeartMoves
<1> USE DEF Phases, Outside, Early, Between, Within, Launching, Failing
<1>1. host[h].phase \notin Outside /\ Hosting(h, host[h]) /\ host[h].phase = "driving"
  BY Inside DEF NoticeTell, At
<1>2. CASE ToRetire(h, "handoff")
  BY <1>1, <1>2, RetireKeeps DEF NoticeTell, OnlyHost
<1>3. ASSUME NEW t \in Unattempted(h), HostTo(h, [host[h] EXCEPT !.pump = t, !.tried = host[h].tried \cup {t}]),
             UNCHANGED heartVars
      PROVE  Inv' /\ HeartMoves
  <2> DEFINE r == [host[h] EXCEPT !.pump = t, !.tried = host[h].tried \cup {t}]
  <2>1. t \in host[h].seen.pending /\ t \notin host[h].tried
    BY <1>3 DEF Unattempted
  <2>2. Seat(h, r) /\ Work(r) /\ Pump(r) /\ r.body = host[h].body
    BY <1>1, <2>1 DEF Hosting, Seat, Work, Pump, Memory, HostFields
  <2>3. Memory(r)
    BY <1>1, <2>1 DEF Hosting, Seat, Memory, HostFields
  <2> HIDE DEF r
  <2>4. HostTo(h, r)
    BY <1>3 DEF r
  <2> QED
    BY <1>1, <1>3, <2>2, <2>3, <2>4, HostTurns DEF Hosting, NoticeTell, OnlyHost
<1> QED
  BY <1>2, <1>3 DEF NoticeTell, Earliest

(* The pump drops its Tell, and may mark the Turn as aborted or all Tells as *)
(* tried.                                                                    *)
LEMMA PumpDrops ==
  ASSUME Inv, NEW h \in Hosts, host[h].pump # None, NEW aborted,
         NEW r \in {[host[h] EXCEPT !.pump = None, !.aborted = aborted], [host[h] EXCEPT !.pump = None, !.tried = Tells]}
  PROVE  host[h].phase \notin Outside /\ Hosting(h, r) /\ r.body = host[h].body
<1> USE DEF Phases, Outside, Early, Between, Within, Launching, Failing
<1>1. Hosting(h, host[h]) /\ host[h].phase \notin Outside
  BY DEF Inv, Hosting, Pump
<1>2. DOMAIN r = HostFields /\ r.phase = host[h].phase /\ r.body = host[h].body /\ r.live = host[h].live /\ r.pump = None
      /\ r.turn = host[h].turn /\ r.seen = host[h].seen /\ r.drained = host[h].drained /\ r.then = host[h].then
      /\ r.tried \in {host[h].tried, Tells}
  BY <1>1 DEF Hosting, Seat, HostFields
<1>3. Seat(h, r) /\ Work(r) /\ Pump(r)
  BY <1>1, <1>2 DEF Hosting, Seat, Work, Pump
<1>4. \A d \in delivered : d[1] \in Tells
  BY AdmittedAreTells DEF Inv, HeartTyped
<1>5. Memory(r)
  BY <1>1, <1>2, <1>4, AdmittedAreTells DEF Inv, Hosting, Pump, Memory
<1> QED
  BY <1>1, <1>2, <1>3, <1>5 DEF Hosting

LEMMA PumpDropKeeps ==
  ASSUME Inv, NEW h \in Hosts, host[h].pump # None, NEW aborted, UNCHANGED heartVars, UNCHANGED <<leash, client, handing>>,
         \/ HostTo(h, [host[h] EXCEPT !.pump = None, !.aborted = aborted])
         \/ HostTo(h, [host[h] EXCEPT !.pump = None, !.tried = Tells])
  PROVE  Inv' /\ HeartMoves
BY PumpDrops, HostTurns

LEMMA ReceiptRefused ==
  ASSUME Inv, NEW h \in Hosts, At(h, "driving"), HostTo(h, [host[h] EXCEPT !.aborted = TRUE]), UNCHANGED heartVars, OnlyHost
  PROVE  Inv' /\ HeartMoves
<1> DEFINE r == [host[h] EXCEPT !.aborted = TRUE]
<1> USE DEF Phases, Outside, Early, Between, Within, Launching, Failing
<1>1. host[h].phase \notin Outside /\ Hosting(h, host[h])
  BY Inside DEF At
<1>2. Hosting(h, r) /\ r.body = host[h].body
  BY <1>1 DEF Hosting, Seat, Work, Pump, Memory, HostFields
<1>3. HostTo(h, r)
  OBVIOUS
<1> HIDE DEF r
<1> QED
  BY <1>1, <1>2, <1>3, HostTurns DEF OnlyHost

LEMMA CompleteKeeps ==
  ASSUME Inv, NEW h \in Hosts, Complete(h) PROVE Inv' /\ HeartMoves
<1> USE DEF Phases, Outside, Early, Between, Within, Launching, Failing
<1>1. host[h].phase \notin Outside /\ Hosting(h, host[h]) /\ host[h].phase = "driving" /\ host[h].pump = None
  BY Inside DEF Complete, At
<1>2. ASSUME NEW then, HostTo(h, [host[h] EXCEPT !.phase = "persisting", !.live = FALSE, !.then = then])
      PROVE  Inv' /\ HeartMoves
  <2> DEFINE r == [host[h] EXCEPT !.phase = "persisting", !.live = FALSE, !.then = then]
  <2>1. Hosting(h, r) /\ r.body = host[h].body
    BY <1>1 DEF Hosting, Seat, Work, Pump, Memory, HostFields
  <2>2. HostTo(h, r)
    BY <1>2
  <2> HIDE DEF r
  <2> QED
    BY <1>1, <2>1, <2>2, HostTurns DEF Complete, OnlyHostFails
<1> QED
  BY <1>2 DEF Complete

LEMMA ProviderRetires ==
  ASSUME Inv, NEW h \in Hosts, Retire(h) PROVE Inv' /\ HeartMoves
<1> USE DEF Phases, Outside, Early, Between, Within, Launching, Failing
<1>1. host[h].phase \notin Outside /\ Hosting(h, host[h]) /\ host[h].phase = "retiring"
  BY Inside DEF Retire, At
<1> DEFINE then == IF host[h].aborted /\ host[h].then \in {"handoff", "not-launched"} THEN "stopped" ELSE host[h].then
           phase == IF then \in {"stopped", "handoff"} THEN "putting" ELSE "persisting"
           r == [host[h] EXCEPT !.phase = phase, !.live = FALSE, !.then = then]
<1>2. then \in {"stopped", host[h].then} /\ phase \in {"putting", "persisting"}
  OBVIOUS
<1>4. HostTo(h, r)
  BY DEF Retire
<1> HIDE DEF then, phase
<1>3. Hosting(h, r) /\ r.body = host[h].body
  BY <1>1, <1>2 DEF Hosting, Seat, Work, Pump, Memory, HostFields
<1> HIDE DEF r
<1> QED
  BY <1>1, <1>3, <1>4, HostTurns DEF Retire, OnlyHost

-----------------------------------------------------------------------------
(* Transactions of the heart                                                 *)

LEMMA TurnsAre ==
  ASSUME HeartTyped
  PROVE  /\ DOMAIN turns = 1..Len(turns) /\ Len(turns) \in Nat
         /\ \A n \in DOMAIN turns : turns[n] \in TurnRecords
BY DEF HeartTyped

LEMMA BodiesAre ==
  ASSUME HeartTyped
  PROVE  /\ DOMAIN bodies = 1..Latest /\ Latest \in Nat
         /\ \A b \in DOMAIN bodies : bodies[b] \in BodyRecords
BY DEF HeartTyped, Latest

(* Turns change, and nothing else.                                           *)
OnlyTurns == UNCHANGED <<bodies, tells, delivered, receipts, pause, stop, kills>>

LEMMA TurnsMove ==
  ASSUME Inv, OnlyTurns, turns' \in Seq(TurnRecords),
         \A n \in DOMAIN turns : n \in DOMAIN turns' /\ turns'[n].body = turns[n].body,
         \A n \in DOMAIN turns' : turns'[n].body \in DOMAIN bodies /\ turns'[n].bound \subseteq Admitted,
         \A b \in DOMAIN bodies : Settled(b) /\ ~bodies[b].hung => OpenTurns(b)' = {},
         \A n \in DOMAIN turns' : \A t \in turns'[n].bound :
            \/ n \in DOMAIN turns /\ t \in turns[n].bound
            \/ ~Abandoned(turns'[n].body) /\ ~Protected(t, turns'[n].body)
  PROVE  HeartMoves /\ Paused
<1>1. Admitted' = Admitted /\ Latest' = Latest
  BY DEF OnlyTurns, Admitted, Latest
<1>2. HeartTyped'
  BY <1>1 DEF OnlyTurns, Inv, HeartTyped
<1>3. TurnsEnd'
  BY DEF OnlyTurns, TurnsEnd, Settled
<1>4. Onward
  BY <1>1 DEF OnlyTurns, Onward
<1>5. Touched
  BY DEF OnlyTurns, Touched
<1> QED
  BY <1>2, <1>3, <1>4, <1>5 DEF HeartMoves, Paused, OnlyTurns

LEMMA TurnBegins ==
  ASSUME Inv, NEW b \in DOMAIN bodies, ~Settled(b), OpenTurns(b) = {}, BeginTurn(b)
  PROVE  /\ HeartMoves /\ Paused
         /\ Len(turns) + 1 \in DOMAIN turns' /\ turns'[Len(turns) + 1].body = b
         /\ OpenTurns(b)' \subseteq {Len(turns) + 1}
<1> DEFINE new == [body |-> b, end |-> "open", bound |-> {}]
<1>1. DOMAIN turns = 1..Len(turns) /\ Len(turns) \in Nat /\ b \in Nat
  BY TurnsAre, BodiesAre DEF Inv
<1>2. turns' = Append(turns, new) /\ new \in TurnRecords /\ turns \in Seq(TurnRecords)
  BY <1>1 DEF BeginTurn, TurnRecords, Inv, HeartTyped
<1>3. /\ turns' \in Seq(TurnRecords) /\ DOMAIN turns' = DOMAIN turns \cup {Len(turns) + 1}
      /\ \A n \in DOMAIN turns : turns'[n] = turns[n]
      /\ turns'[Len(turns) + 1] = new /\ Len(turns) + 1 \notin DOMAIN turns
  BY <1>1, <1>2
<1>4. \A a \in DOMAIN bodies : a # b => OpenTurns(a)' = OpenTurns(a)
  BY <1>3 DEF OpenTurns
<1>5. OpenTurns(b)' \subseteq {Len(turns) + 1}
  BY <1>3 DEF OpenTurns
<1>6. OnlyTurns
  BY DEF BeginTurn, OnlyTurns
<1>7. \A a \in DOMAIN bodies : Settled(a) /\ ~bodies[a].hung => OpenTurns(a)' = {}
  BY <1>4 DEF Inv, TurnsEnd
<1>8. \A n \in DOMAIN turns' : turns'[n].body \in DOMAIN bodies /\ turns'[n].bound \subseteq Admitted
  BY <1>3 DEF Inv, HeartTyped
<1> QED
  BY <1>3, <1>5, <1>6, <1>7, <1>8, TurnsMove

LEMMA TellsBind ==
  ASSUME Inv, NEW n \in DOMAIN turns, NEW S \in SUBSET Admitted, BindTells(S, n),
         ~Abandoned(turns[n].body), \A t \in S : ~Protected(t, turns[n].body)
  PROVE  /\ HeartMoves /\ Paused
         /\ DOMAIN turns' = DOMAIN turns /\ \A m \in DOMAIN turns : turns'[m].body = turns[m].body
         /\ \A b : OpenTurns(b)' = OpenTurns(b)
<1>1. turns \in Seq(TurnRecords) /\ \A m \in DOMAIN turns : turns[m] \in TurnRecords
  BY TurnsAre DEF Inv, HeartTyped
<1>2. S \in SUBSET Tells
  BY AdmittedAreTells DEF Inv
<1>3. turns' = [turns EXCEPT ![n].bound = turns[n].bound \cup S]
  BY DEF BindTells
<1> DEFINE w == [turns[n] EXCEPT !.bound = turns[n].bound \cup S]
<1>4. w \in TurnRecords /\ w.body = turns[n].body /\ w.end = turns[n].end /\ w.bound = turns[n].bound \cup S
  BY <1>1, <1>2 DEF TurnRecords
<1>10. turns' = [turns EXCEPT ![n] = w]
  BY <1>3
<1> HIDE DEF w
<1>5. /\ turns' \in Seq(TurnRecords) /\ DOMAIN turns' = DOMAIN turns
      /\ \A m \in DOMAIN turns : m # n => turns'[m] = turns[m]
      /\ turns'[n].body = turns[n].body /\ turns'[n].end = turns[n].end /\ turns'[n].bound = turns[n].bound \cup S
  BY <1>1, <1>4, <1>10
<1>6. \A b : OpenTurns(b)' = OpenTurns(b)
  BY <1>5 DEF OpenTurns
<1>7. OnlyTurns
  BY DEF BindTells, OnlyTurns
<1>8. \A b \in DOMAIN bodies : Settled(b) /\ ~bodies[b].hung => OpenTurns(b)' = {}
  BY <1>6 DEF Inv, TurnsEnd
<1>9. \A m \in DOMAIN turns' : turns'[m].body \in DOMAIN bodies /\ turns'[m].bound \subseteq Admitted
  BY <1>5 DEF Inv, HeartTyped
<1> QED
  BY <1>5, <1>6, <1>7, <1>8, <1>9, TurnsMove

(* Turns end.                                                                *)
LEMMA EndedTurns ==
  ASSUME HeartTyped, NEW S, NEW end \in {"answered", "failed", "canceled"}, turns' = TurnsEnded(S, end)
  PROVE  /\ turns' \in Seq(TurnRecords) /\ DOMAIN turns' = DOMAIN turns
         /\ \A n \in DOMAIN turns : turns'[n].body = turns[n].body /\ turns'[n].bound = turns[n].bound
         /\ \A b : OpenTurns(b)' = OpenTurns(b) \ S
<1>1. turns \in Seq(TurnRecords) /\ \A n \in DOMAIN turns : turns[n] \in TurnRecords
  BY TurnsAre DEF HeartTyped
<1>2. \A n \in DOMAIN turns : [turns[n] EXCEPT !.end = end] \in TurnRecords
  BY <1>1 DEF TurnRecords
<1>3. \A n \in DOMAIN turns : turns'[n] = IF n \in S THEN [turns[n] EXCEPT !.end = end] ELSE turns[n]
  BY DEF TurnsEnded
<1>4. turns' \in Seq(TurnRecords) /\ DOMAIN turns' = DOMAIN turns
  BY <1>1, <1>2 DEF TurnsEnded
<1>5. \A n \in DOMAIN turns : turns'[n].body = turns[n].body /\ turns'[n].bound = turns[n].bound
  BY <1>1, <1>3 DEF TurnRecords
<1>6. \A n \in DOMAIN turns : turns'[n].end = "open" <=> turns[n].end = "open" /\ n \notin S
  BY <1>1, <1>3 DEF TurnRecords
<1>7. \A b : OpenTurns(b)' = OpenTurns(b) \ S
  BY <1>4, <1>5, <1>6 DEF OpenTurns
<1> QED
  BY <1>4, <1>5, <1>7

LEMMA SomeTurnsEnd ==
  ASSUME Inv, OnlyTurns, NEW S, NEW end \in {"answered", "failed", "canceled"}, turns' = TurnsEnded(S, end)
  PROVE  HeartMoves /\ Paused
<1>1. /\ turns' \in Seq(TurnRecords) /\ DOMAIN turns' = DOMAIN turns
      /\ \A n \in DOMAIN turns : turns'[n].body = turns[n].body /\ turns'[n].bound = turns[n].bound
      /\ \A b : OpenTurns(b)' = OpenTurns(b) \ S
  BY EndedTurns DEF Inv
<1>2. \A b \in DOMAIN bodies : Settled(b) /\ ~bodies[b].hung => OpenTurns(b)' = {}
  BY <1>1 DEF Inv, TurnsEnd
<1>3. \A n \in DOMAIN turns' : turns'[n].body \in DOMAIN bodies /\ turns'[n].bound \subseteq Admitted
  BY <1>1 DEF Inv, HeartTyped
<1> QED
  BY <1>1, <1>2, <1>3, TurnsMove

LEMMA TellsDeliver ==
  ASSUME Inv, NEW n \in DOMAIN turns, NEW S \in SUBSET Admitted, NEW final, DeliverTells(S, n, final),
         ~Abandoned(turns[n].body), \A t \in S : ~Protected(t, turns[n].body) /\ ~Taken(t)
  PROVE  HeartMoves /\ Paused
<1>1. \A d \in delivered' : d \in delivered \/ (d[1] \in S /\ d[2] = n)
  BY DEF DeliverTells
<1>2. Admitted' = Admitted /\ Latest' = Latest /\ delivered \subseteq delivered'
  BY DEF DeliverTells, Admitted, Latest
<1>3. HeartTyped'
  BY <1>1, <1>2 DEF DeliverTells, Inv, HeartTyped
<1>4. TurnsEnd'
  BY DEF DeliverTells, Inv, TurnsEnd, Settled, OpenTurns
<1>5. Onward
  BY <1>2 DEF DeliverTells, Onward
<1>6. Touched
  BY <1>1 DEF DeliverTells, Touched
<1> QED
  BY <1>3, <1>4, <1>5, <1>6 DEF HeartMoves, Paused, DeliverTells

LEMMA TellReceipted ==
  ASSUME Inv, NEW t, ReceiptTell(t) PROVE HeartMoves /\ Paused
<1>2. Admitted' = Admitted /\ Latest' = Latest
  BY DEF ReceiptTell, Admitted, Latest
<1>3. HeartTyped'
  BY <1>2 DEF ReceiptTell, Inv, HeartTyped
<1>4. TurnsEnd'
  BY DEF ReceiptTell, Inv, TurnsEnd, Settled, OpenTurns
<1>5. Onward
  BY <1>2 DEF ReceiptTell, Onward
<1>6. Touched
  BY DEF ReceiptTell, Touched
<1> QED
  BY <1>3, <1>4, <1>5, <1>6 DEF HeartMoves, Paused, ReceiptTell

LEMMA EndedBody ==
  ASSUME HeartTyped, NEW b \in DOMAIN bodies, NEW end \in {"exited", "put-down", "broke-off"}, bodies' = Ended(b, end)
  PROVE  /\ bodies' \in Seq(BodyRecords) /\ DOMAIN bodies' = DOMAIN bodies /\ Latest' = Latest
         /\ \A a \in DOMAIN bodies : a # b => bodies'[a] = bodies[a]
         /\ bodies'[b].hung = bodies[b].hung
         /\ bodies'[b].end = IF bodies[b].end = "open" THEN end ELSE bodies[b].end
<1> DEFINE e == IF bodies[b].end = "open" THEN end ELSE bodies[b].end
           w == [bodies[b] EXCEPT !.end = e]
<1>1. bodies \in Seq(BodyRecords) /\ bodies[b] \in BodyRecords
  BY BodiesAre DEF HeartTyped
<1>2. w \in BodyRecords /\ w.hung = bodies[b].hung /\ w.end = e
  BY <1>1 DEF BodyRecords
<1>3. bodies' = [bodies EXCEPT ![b] = w]
  BY DEF Ended
<1> HIDE DEF w, e
<1>4. bodies' \in Seq(BodyRecords) /\ DOMAIN bodies' = DOMAIN bodies /\ Latest' = Latest
  BY <1>1, <1>2, <1>3 DEF Latest
<1>5. bodies'[b] = w /\ \A a \in DOMAIN bodies : a # b => bodies'[a] = bodies[a]
  BY <1>1, <1>3
<1> QED
  BY <1>2, <1>4, <1>5 DEF e

(* A Body ends, and Turns with it.                                           *)
LEMMA BodyEnds ==
  ASSUME Inv, NEW b \in DOMAIN bodies, NEW end \in {"exited", "put-down", "broke-off"}, bodies' = Ended(b, end),
         UNCHANGED <<tells, delivered, receipts, pause, stop, kills>>,
         turns' \in Seq(TurnRecords), DOMAIN turns' = DOMAIN turns,
         \A n \in DOMAIN turns : turns'[n].body = turns[n].body /\ turns'[n].bound = turns[n].bound,
         \A a : OpenTurns(a)' \subseteq OpenTurns(a),
         OpenTurns(b)' = {} \/ bodies[b].hung, end = "exited" => Pending = {}
  PROVE  HeartMoves /\ Paused
<1>1. /\ bodies' \in Seq(BodyRecords) /\ DOMAIN bodies' = DOMAIN bodies /\ Latest' = Latest
      /\ \A a \in DOMAIN bodies : a # b => bodies'[a] = bodies[a]
      /\ bodies'[b].hung = bodies[b].hung
      /\ bodies'[b].end = IF bodies[b].end = "open" THEN end ELSE bodies[b].end
  BY EndedBody DEF Inv
<1>2. Admitted' = Admitted
  BY DEF Admitted
<1>3. HeartTyped'
  BY <1>1, <1>2 DEF Inv, HeartTyped
<1>4. TurnsEnd'
  BY <1>1 DEF Inv, TurnsEnd, Settled
<1>5. Onward
  BY <1>1, <1>2 DEF Onward, Settled
<1>6. Touched
  BY DEF Touched
<1> QED
  BY <1>3, <1>4, <1>5, <1>6 DEF HeartMoves, Paused

LEMMA BodyHangs ==
  ASSUME Inv, NEW b \in DOMAIN bodies, RecordBodyHung(b)
  PROVE  HeartMoves /\ Paused /\ Latest' = Latest /\ bodies'[b].hung
<1> DEFINE w == [bodies[b] EXCEPT !.hung = TRUE]
<1>1. bodies \in Seq(BodyRecords) /\ bodies[b] \in BodyRecords
  BY BodiesAre DEF Inv, HeartTyped
<1>2. w \in BodyRecords /\ w.hung /\ w.end = bodies[b].end
  BY <1>1 DEF BodyRecords
<1>3. bodies' = [bodies EXCEPT ![b] = w]
  BY DEF RecordBodyHung
<1> HIDE DEF w
<1>4. bodies' \in Seq(BodyRecords) /\ DOMAIN bodies' = DOMAIN bodies /\ Latest' = Latest
  BY <1>1, <1>2, <1>3 DEF Latest
<1>5. bodies'[b] = w /\ \A a \in DOMAIN bodies : a # b => bodies'[a] = bodies[a]
  BY <1>1, <1>3
<1>6. Admitted' = Admitted
  BY DEF RecordBodyHung, Admitted
<1>7. HeartTyped'
  BY <1>4, <1>6 DEF RecordBodyHung, Inv, HeartTyped
<1>8. TurnsEnd'
  BY <1>2, <1>4, <1>5 DEF RecordBodyHung, Inv, TurnsEnd, Settled, OpenTurns
<1>9. Onward
  BY <1>2, <1>4, <1>5, <1>6 DEF RecordBodyHung, Onward, Settled
<1>10. Touched
  BY DEF RecordBodyHung, Touched
<1> QED
  BY <1>2, <1>4, <1>5, <1>7, <1>8, <1>9, <1>10 DEF HeartMoves, Paused, RecordBodyHung

(* Controls, receipts and dispositions, by whomever.                         *)
LEMMA ControlMoves ==
  ASSUME Inv, UNCHANGED <<bodies, turns, delivered>>, UNCHANGED tells,
         stop' \in DOMAIN bodies \cup {None}, kills' \subseteq DOMAIN bodies,
         receipts \subseteq receipts', \A t : <<t, "provider">> \in receipts' <=> <<t, "provider">> \in receipts,
         pause' \in {pause, None}
  PROVE  HeartMoves /\ Undisturbed
<1>1. Admitted' = Admitted /\ Latest' = Latest
  BY DEF Admitted, Latest
<1>2. HeartTyped'
  BY <1>1 DEF Inv, HeartTyped
<1>3. TurnsEnd'
  BY DEF Inv, TurnsEnd, Settled, OpenTurns
<1>4. Onward
  BY <1>1 DEF Onward
<1>5. Touched
  BY DEF Touched
<1> QED
  BY <1>1, <1>2, <1>3, <1>4, <1>5 DEF HeartMoves, Undisturbed

LEMMA StopSettles ==
  ASSUME Inv, SettleStop \/ ClearStop
  PROVE  HeartMoves /\ Undisturbed /\ Paused
<1>1. stop' \in DOMAIN bodies \cup {None} /\ kills' \subseteq DOMAIN bodies
  BY BodiesAre, BodiesAssumption DEF Inv, HeartTyped, SettleStop, ClearStop
<1> QED
  BY <1>1, ControlMoves DEF SettleStop, ClearStop, Paused

LEMMA BarrierGoes ==
  ASSUME Inv, NEW B, CompleteInterruptBarrier(B), \A b \in DOMAIN bodies : Abandoned(b)'
  PROVE  HeartMoves /\ Undisturbed /\ Paused
<1>1. pause' \in {pause, None}
  BY DEF CompleteInterruptBarrier, Consumed
<1>2. stop' \in DOMAIN bodies \cup {None} /\ kills' \subseteq DOMAIN bodies
  BY DEF Inv, HeartTyped, CompleteInterruptBarrier
<1> QED
  BY <1>1, <1>2, ControlMoves DEF CompleteInterruptBarrier, Paused

-----------------------------------------------------------------------------
(* Steps of a host in the heart                                              *)

(* What a step of the host h inside comes to, whose record becomes r.        *)
LEMMA HostWrites ==
  ASSUME Inv, NEW h \in Hosts, host[h].phase \notin Outside, NEW r, HostTo(h, r),
         r.body = host[h].body \/ r.body \notin DOMAIN bodies,
         HeartMoves, Paused, Hosting(h, r)', UNCHANGED <<leash, client, handing>>
  PROVE  Inv'
<1>1. Moved(h, r)
  BY DEF Moved, HostTo, Inv, Tables
<1>2. HandedByHosts
  BY DEF HandedByHosts, Inv, Tables
<1> QED
  BY <1>1, <1>2, HostMoves

(* The host's own record stays.                                              *)
LEMMA HostWritesOnly ==
  ASSUME Inv, NEW h \in Hosts, host[h].phase \notin Outside, NEW r, r = host[h], UNCHANGED host,
         HeartMoves, Paused, Hosting(h, r)', UNCHANGED <<leash, client, handing>>
  PROVE  Inv'
<1>1. Moved(h, r)
  BY DEF Moved, Inv, Tables
<1>2. HandedByHosts
  BY DEF HandedByHosts, Inv, Tables
<1> QED
  BY <1>1, <1>2, HostMoves

(* The Body of the host inside is not abandoned.                             *)
LEMMA Inhabited ==
  ASSUME Inv, NEW h \in Hosts, host[h].phase \notin Outside PROVE ~Abandoned(host[h].body)
BY DEF Abandoned

(* While the host inside has no Body yet, all are abandoned.                 *)
LEMMA NobodyInside ==
  ASSUME Inv, NEW h \in Hosts, host[h].phase \in Early, NEW r, HostTo(h, r), r.body \notin DOMAIN bodies
  PROVE  \A b \in DOMAIN bodies : Abandoned(b)'
<1>1. leash = h
  BY Inside DEF Early, Outside
<1>2. ASSUME NEW g \in Hosts, host'[g].phase \notin Outside PROVE host'[g].body \notin DOMAIN bodies
  <2>1. CASE g = h
    BY <2>1 DEF HostTo, Inv, Tables
  <2>2. CASE g # h
    BY <1>1, <1>2, <2>2 DEF HostTo, Inv, Tables, Hosting, Seat
  <2> QED
    BY <2>1, <2>2
<1> QED
  BY <1>2 DEF Abandoned

LEMMA BarrierPrepared ==
  ASSUME Inv, NEW h \in Hosts, PrepareBarrier(h) PROVE Inv' /\ HeartMoves
<1> DEFINE r == [host[h] EXCEPT !.phase = "stops"]
           s == [host[h] EXCEPT !.phase = "releasing", !.exit = IF pause # None THEN "held" ELSE "ended"]
<1> USE DEF Phases, Outside, Early, Between, Within, Launching, Failing
<1>1. host[h].phase \notin Outside /\ Hosting(h, host[h]) /\ host[h].phase = "preparing"
  BY Inside DEF PrepareBarrier, At
<1>2. host[h].body = 0 /\ 0 \notin DOMAIN bodies
  BY <1>1, BodiesAre DEF Hosting, Work, Inv
<1>3. Hosting(h, r) /\ r.body = host[h].body
  BY <1>1 DEF Hosting, Seat, Work, Pump, Memory, HostFields
<1>4. Hosting(h, s) /\ s.body = host[h].body
  BY <1>1 DEF Hosting, Seat, Work, Pump, Memory, HostFields
<1>5. PICK q : HostTo(h, q) /\ Hosting(h, q) /\ q.body = host[h].body
  BY <1>3, <1>4 DEF PrepareBarrier, Refuse, HostAt
<1>6. HeartMoves /\ Undisturbed /\ Paused
  BY <1>1, <1>2, <1>5, NobodyInside, BarrierGoes DEF PrepareBarrier
<1>7. Hosting(h, q)'
  BY <1>5, <1>6, HostRests DEF PrepareBarrier, OnlyHost
<1> QED
  BY <1>1, <1>5, <1>6, <1>7, HostWrites DEF PrepareBarrier, OnlyHost

LEMMA StopPrepared ==
  ASSUME Inv, NEW h \in Hosts, PrepareStop(h) PROVE Inv' /\ HeartMoves
<1> DEFINE r == [host[h] EXCEPT !.phase = "wanted"]
<1> USE DEF Phases, Outside, Early, Between, Within, Launching, Failing
<1>1. host[h].phase \notin Outside /\ Hosting(h, host[h]) /\ host[h].phase = "stops"
  BY Inside DEF PrepareStop, At
<1>2. Hosting(h, r) /\ r.body = host[h].body
  BY <1>1 DEF Hosting, Seat, Work, Pump, Memory, HostFields
<1>3. PICK q : HostTo(h, q) /\ Hosting(h, q) /\ q.body = host[h].body
  BY <1>2 DEF PrepareStop, HostAt
<1>4. UNCHANGED heartVars \/ SettleStop \/ ClearStop
  BY DEF PrepareStop
<1>5. HeartMoves /\ Undisturbed /\ Paused
  BY <1>4, HeartRests, StopSettles DEF Paused
<1>6. UNCHANGED <<leash, client, handing>>
  BY DEF PrepareStop, OnlyHost
<1>7. Hosting(h, q)'
  BY <1>3, <1>5, <1>6, HostRests
<1> QED
  BY <1>1, <1>3, <1>5, <1>6, <1>7, HostWrites

(* A Body is recorded: it is the latest, and nobody is inside another.       *)
LEMMA BodyRecorded ==
  ASSUME Inv, NEW h \in Hosts, At(h, "recording"), RecordBody(host[h].from), UNCHANGED <<leash, client, handing>>,
         NEW r, r = [host[h] EXCEPT !.phase = "choosing", !.body = Latest + 1,
                                    !.seen = [pending |-> Pending, pause |-> pause']],
         HostTo(h, r)
  PROVE  Inv' /\ HeartMoves
<1> USE DEF Phases, Outside, Early, Between, Within, Launching, Failing
<1> DEFINE new == [end |-> "open", hung |-> FALSE]
<1>1. host[h].phase \notin Outside /\ Hosting(h, host[h]) /\ host[h].phase = "recording"
  BY Inside DEF At
<1>2. DOMAIN bodies = 1..Latest /\ Latest \in Nat /\ bodies \in Seq(BodyRecords) /\ new \in BodyRecords
  BY BodiesAre DEF Inv, HeartTyped, BodyRecords
<1>3. /\ bodies' \in Seq(BodyRecords) /\ Latest' = Latest + 1 /\ DOMAIN bodies' = DOMAIN bodies \cup {Latest + 1}
      /\ \A b \in DOMAIN bodies : bodies'[b] = bodies[b]
      /\ bodies'[Latest + 1] = new
  BY <1>2 DEF RecordBody, Latest
<1>4. Latest > 0 => ~bodies[Latest].hung
  BY <1>2 DEF RecordBody, BodyOutcome
<1>5. r.body = Latest + 1 /\ r.body \notin DOMAIN bodies /\ DOMAIN r = HostFields /\ r.phase = "choosing"
      /\ r.live = host[h].live /\ r.pump = host[h].pump /\ r.drained = host[h].drained /\ r.seen.pending = Pending
  BY <1>1, <1>2 DEF Hosting, Seat, HostFields
<1>6. OpenTurns(Latest + 1) = {} /\ \A b : OpenTurns(b)' = OpenTurns(b)
  <2>1. turns' = turns /\ \A n \in DOMAIN turns : turns[n].body # Latest + 1
    BY <1>2 DEF Inv, HeartTyped, RecordBody
  <2>2. OpenTurns(Latest + 1) = {}
    BY <2>1 DEF OpenTurns
  <2>3. \A b : OpenTurns(b)' = OpenTurns(b)
    BY <2>1 DEF OpenTurns
  <2> QED
    BY <2>2, <2>3
<1>7. Admitted' = Admitted /\ \A t : Taken(t)' <=> Taken(t)
  BY DEF RecordBody, Admitted, Taken
<1>8. pause' \in {pause, None}
  BY DEF RecordBody, Consumed
<1>9. HeartTyped'
  BY <1>3, <1>7, <1>8 DEF RecordBody, Inv, HeartTyped
<1>10. TurnsEnd'
  BY <1>3, <1>6 DEF Inv, TurnsEnd, Settled
<1>11. Onward
  BY <1>3, <1>4, <1>7 DEF RecordBody, Onward, Settled
<1>12. HeartMoves
  BY <1>9, <1>10, <1>11 DEF HeartMoves, Touched, RecordBody
<1>13. Paused
  BY <1>1, <1>5, <1>8, NobodyInside DEF RecordBody, Paused
<1>14. Seat(h, r)' /\ Pump(r)'
  BY <1>1, <1>5 DEF Hosting, Seat, Work, Pump
<1>15. Work(r)'
  <2>1. host[h].body = 0 /\ ~host[h].live
    BY <1>1, <1>2 DEF Hosting, Work
  <2>2. OpenTurns(Latest)' = {}
    BY <1>3, <1>6 DEF OpenTurns
  <2>3. r.body = Latest' /\ Latest' > 0 /\ bodies'[Latest'] = new
    BY <1>2, <1>3, <1>5
  <2> QED
    BY <1>5, <2>1, <2>2, <2>3 DEF Work
<1>16. Memory(r)'
  BY <1>1, <1>5, <1>7, SeenIsFresh DEF Hosting, Memory, Seen
<1> QED
  BY <1>1, <1>5, <1>12, <1>13, <1>14, <1>15, <1>16, HostWrites DEF Hosting

LEMMA RecordKeeps ==
  ASSUME Inv, NEW h \in Hosts, RecordOwnBody(h) PROVE Inv' /\ HeartMoves
<1> USE DEF Phases, Outside, Early, Between, Within, Launching, Failing
<1>1. host[h].phase \notin Outside /\ Hosting(h, host[h]) /\ host[h].phase = "recording"
  BY Inside DEF RecordOwnBody, At
<1>2. CASE RecordBody(host[h].from)
           /\ HostTo(h, [host[h] EXCEPT !.phase = "choosing", !.body = Latest + 1,
                                        !.seen = [pending |-> Pending, pause |-> pause']])
  BY <1>2, BodyRecorded DEF RecordOwnBody, OnlyHost
<1>3. ASSUME NEW exit, HostTo(h, [host[h] EXCEPT !.phase = "releasing", !.exit = exit]), UNCHANGED heartVars
      PROVE  Inv' /\ HeartMoves
  <2> DEFINE r == [host[h] EXCEPT !.phase = "releasing", !.exit = exit]
  <2>1. Hosting(h, r) /\ r.body = host[h].body
    BY <1>1 DEF Hosting, Seat, Work, Pump, Memory, HostFields
  <2>2. HostTo(h, r)
    BY <1>3
  <2> HIDE DEF r
  <2> QED
    BY <1>1, <1>3, <2>1, <2>2, HostTurns DEF RecordOwnBody, OnlyHost
<1> QED
  BY <1>2, <1>3 DEF RecordOwnBody

(* Turns are bound or end: what a host knows of its own stays true.          *)
LEMMA HostingTurns ==
  ASSUME OnlyTurns, UNCHANGED leash, DOMAIN turns' = DOMAIN turns,
         \A n \in DOMAIN turns : turns'[n].body = turns[n].body, \A b : OpenTurns(b)' \subseteq OpenTurns(b),
         NEW h, NEW r, Hosting(h, r)
  PROVE  Hosting(h, r)'
<1>1. Admitted' = Admitted /\ Latest' = Latest /\ \A t : Taken(t)' <=> Taken(t)
  BY DEF OnlyTurns, Admitted, Latest, Taken
<1>2. Seat(h, r)' /\ Pump(r)'
  BY <1>1 DEF Hosting, Seat, Pump
<1>3. OpenTurns(Latest)' \subseteq OpenTurns(Latest)
  BY <1>1 DEF OpenTurns
<1>4. Work(r)'
  BY <1>1, <1>3 DEF OnlyTurns, Hosting, Work
<1>5. Memory(r)'
  BY <1>1 DEF OnlyTurns, Hosting, Memory
<1> QED
  BY <1>2, <1>4, <1>5 DEF Hosting

LEMMA BeginKeeps ==
  ASSUME Inv, NEW h \in Hosts, Begin(h) PROVE Inv' /\ HeartMoves
<1> USE DEF Phases, Outside, Early, Between, Within, Launching, Failing
<1>1. host[h].phase \notin Outside /\ Hosting(h, host[h]) /\ host[h].phase = "beginning"
  BY Inside DEF Begin, At
<1>2. CASE PutDownHeld(h)
  BY <1>1, <1>2, HeldKeeps DEF Begin
<1>3. CASE ~PutDownHeld(h)
  <2> DEFINE new == Len(turns) + 1
  <2>1. PICK q : q = [host[h] EXCEPT !.phase = "binding", !.turn = new]
    OBVIOUS
  <2>2. HostTo(h, q) /\ BeginTurn(host[h].body)
    BY <1>3, <2>1 DEF Begin
  <2>3. /\ DOMAIN q = HostFields /\ q.phase = "binding" /\ q.turn = new
        /\ q.body = host[h].body /\ q.live = host[h].live /\ q.pump = host[h].pump
        /\ q.seen = host[h].seen /\ q.drained = host[h].drained /\ q.tried = host[h].tried
    BY <1>1, <2>1 DEF Hosting, Seat, HostFields
  <2>4. host[h].body = Latest /\ Latest \in DOMAIN bodies /\ ~Settled(Latest) /\ OpenTurns(Latest) = {}
    BY <1>1, BodiesAre DEF Inv, Hosting, Work, Settled
  <2>5. /\ HeartMoves /\ Paused /\ new \in DOMAIN turns' /\ turns'[new].body = Latest
        /\ OpenTurns(Latest)' \subseteq {new}
    <3>1. PICK b : b = Latest
      OBVIOUS
    <3>2. /\ HeartMoves /\ Paused /\ new \in DOMAIN turns' /\ turns'[new].body = b
          /\ OpenTurns(b)' \subseteq {new}
      BY <2>2, <2>4, <3>1, TurnBegins
    <3>3. Latest' = b
      BY <2>2, <3>1 DEF BeginTurn, Latest
    <3> QED
      BY <3>1, <3>2, <3>3 DEF OpenTurns
  <2>6. Admitted' = Admitted /\ Latest' = Latest /\ \A t : Taken(t)' <=> Taken(t)
    BY <2>2 DEF BeginTurn, Admitted, Latest, Taken
  <2>7. \A d \in delivered' : d[2] # new
    BY <2>2, TurnsAre DEF BeginTurn, Inv, HeartTyped
  <2> HIDE DEF new
  <2>8. Seat(h, q)' /\ Pump(q)'
    BY <1>1, <2>3 DEF Begin, OnlyHost, Hosting, Seat, Pump
  <2>9. Work(q)'
    BY <1>1, <2>2, <2>3, <2>4, <2>5, <2>6 DEF BeginTurn, Hosting, Work
  <2>10. Memory(q)'
    BY <1>1, <2>3, <2>6, <2>7 DEF Hosting, Memory
  <2> QED
    BY <1>1, <2>2, <2>3, <2>5, <2>8, <2>9, <2>10, HostWrites DEF Begin, OnlyHost, Hosting
<1> QED
  BY <1>2, <1>3

LEMMA BindKeeps ==
  ASSUME Inv, NEW h \in Hosts, Bind(h) PROVE Inv' /\ HeartMoves
<1> USE DEF Phases, Outside, Early, Between, Within, Launching, Failing
<1>1. host[h].phase \notin Outside /\ Hosting(h, host[h]) /\ host[h].phase = "binding"
  BY Inside DEF Bind, At
<1>2. CASE PutDownHeld(h)
  BY <1>1, <1>2, HeldKeeps DEF Bind
<1>3. CASE ~PutDownHeld(h)
  <2>1. PICK q : q = [host[h] EXCEPT !.phase = "starting"]
    OBVIOUS
  <2>2. Hosting(h, q) /\ q.body = host[h].body
    BY <1>1, <2>1 DEF Hosting, Seat, Work, Pump, Memory, HostFields
  <2>3. HostTo(h, q) /\ BindTells(host[h].drained, host[h].turn)
        /\ \A t \in host[h].drained : ~Protected(t, host[h].body)
    BY <1>3, <2>1 DEF Bind, HostAt
  <2>4. host[h].turn \in DOMAIN turns /\ turns[host[h].turn].body = host[h].body /\ host[h].drained \subseteq Admitted
    BY <1>1 DEF Hosting, Work, Memory
  <2>5. /\ HeartMoves /\ Paused
        /\ DOMAIN turns' = DOMAIN turns /\ \A m \in DOMAIN turns : turns'[m].body = turns[m].body
        /\ \A b : OpenTurns(b)' = OpenTurns(b)
    BY <1>1, <2>3, <2>4, Inhabited, TellsBind
  <2>6. Hosting(h, q)'
    BY <2>2, <2>3, <2>5, HostingTurns DEF Bind, OnlyHost, BindTells, OnlyTurns
  <2> QED
    BY <1>1, <2>2, <2>3, <2>5, <2>6, HostWrites DEF Bind, OnlyHost
<1> QED
  BY <1>2, <1>3

(* The provider takes Tells, with evidence that settles them or not: the     *)
(* Turn is being driven from then on.                                        *)
LEMMA DeliverKeeps ==
  ASSUME Inv, NEW h \in Hosts, host[h].phase \in {"launching", "driving"}, NEW S \in SUBSET host[h].tried,
         S \subseteq Admitted, \A t \in S : ~Taken(t) /\ ~Protected(t, host[h].body),
         NEW final, DeliverTells(S, host[h].turn, final),
         NEW q, HostTo(h, q), q = [host[h] EXCEPT !.phase = "driving", !.pump = None],
         UNCHANGED <<leash, client, handing>>
  PROVE  Inv' /\ HeartMoves
<1> USE DEF Phases, Outside, Early, Between, Within, Launching, Failing
<1>1. host[h].phase \notin Outside /\ Hosting(h, host[h])
  BY Inside
<1>2. /\ DOMAIN q = HostFields /\ q.phase = "driving" /\ q.turn = host[h].turn
      /\ q.body = host[h].body /\ q.live = host[h].live /\ q.pump = None
      /\ q.seen = host[h].seen /\ q.drained = host[h].drained /\ q.tried = host[h].tried
  BY <1>1 DEF Hosting, Seat, HostFields
<1>3. host[h].turn \in DOMAIN turns /\ turns[host[h].turn].body = host[h].body
  BY <1>1 DEF Hosting, Work
<1>4. HeartMoves /\ Paused
  BY <1>1, <1>3, Inhabited, TellsDeliver
<1>5. Admitted' = Admitted /\ Latest' = Latest /\ \A b : OpenTurns(b)' = OpenTurns(b)
  BY DEF DeliverTells, Admitted, Latest, OpenTurns
<1>6. \A d \in delivered' : d \in delivered \/ (d[1] \in S /\ d[2] = host[h].turn)
  BY DEF DeliverTells
<1>7. \A t : Taken(t)' => Taken(t) \/ t \in S
  BY <1>6 DEF DeliverTells, Taken
<1>8. Seat(h, q)' /\ Pump(q)'
  BY <1>1, <1>2 DEF Hosting, Seat, Pump
<1>9. Work(q)'
  BY <1>1, <1>2, <1>5 DEF DeliverTells, Hosting, Work
<1>10. Memory(q)'
  BY <1>1, <1>2, <1>5, <1>6, <1>7 DEF Hosting, Memory
<1> QED
  BY <1>1, <1>2, <1>4, <1>8, <1>9, <1>10, HostWrites DEF Hosting

LEMMA EstablishedKeeps ==
  ASSUME Inv, NEW h \in Hosts, Established(h) PROVE Inv' /\ HeartMoves
<1> USE DEF Phases, Outside, Early, Between, Within, Launching, Failing
<1>1. host[h].phase \notin Outside /\ Hosting(h, host[h]) /\ host[h].phase = "launching"
  BY Inside DEF Established, At
<1>2. CASE UNCHANGED heartVars /\ HostTo(h, [host[h] EXCEPT !.phase = "retiring", !.then = "not-launched"])
  BY <1>1, <1>2, RetireKeeps DEF ToRetire, Established, OnlyHost
<1>3. CASE /\ \A t \in host[h].drained : ~Protected(t, host[h].body)
           /\ DeliverTells(host[h].drained, host[h].turn, TRUE) /\ HostAt(h, "driving")
  <2>1. PICK q : q = [host[h] EXCEPT !.phase = "driving", !.pump = None]
    OBVIOUS
  <2>2. host[h].pump = None
    BY <1>1 DEF Hosting, Pump
  <2>3. [host[h] EXCEPT !.phase = "driving"] = q
    BY <1>1, <2>1, <2>2 DEF Hosting, Seat, HostFields
  <2>4. HostTo(h, q)
    BY <1>3, <2>3 DEF HostAt
  <2>5. host[h].drained \subseteq host[h].tried /\ host[h].drained \subseteq Admitted /\ \A t \in host[h].drained : ~Taken(t)
    BY <1>1 DEF Hosting, Memory
  <2> QED
    BY <1>1, <1>3, <2>1, <2>4, <2>5, DeliverKeeps DEF Established, OnlyHost
<1> QED
  BY <1>2, <1>3 DEF Established

LEMMA PumpBindKeeps ==
  ASSUME Inv, NEW h \in Hosts, PumpBind(h) PROVE Inv' /\ HeartMoves
<1>1. host[h].phase \notin Outside /\ Hosting(h, host[h]) /\ host[h].pump # None
  BY Inside DEF PumpBind, Inv, Hosting, Pump, Outside, Failing
<1>2. CASE /\ HostTo(h, [host[h] EXCEPT !.pump = None, !.aborted = host[h].aborted \/ At(h, "driving")])
           /\ UNCHANGED heartVars
  BY <1>1, <1>2, PumpDropKeeps DEF PumpBind, OnlyHost
<1>3. CASE ~Protected(host[h].pump, host[h].body) /\ BindTells({host[h].pump}, host[h].turn) /\ UNCHANGED host
  <2>1. PICK q : q = host[h]
    OBVIOUS
  <2>2. q.turn \in DOMAIN turns /\ turns[q.turn].body = q.body /\ q.pump \in Admitted
    BY <1>1, <2>1 DEF Hosting, Pump
  <2>3. /\ HeartMoves /\ Paused
        /\ DOMAIN turns' = DOMAIN turns /\ \A m \in DOMAIN turns : turns'[m].body = turns[m].body
        /\ \A b : OpenTurns(b)' = OpenTurns(b)
    BY <1>1, <1>3, <2>1, <2>2, Inhabited, TellsBind
  <2>4. Hosting(h, q)'
    BY <1>1, <1>3, <2>1, <2>3, HostingTurns DEF PumpBind, OnlyHost, BindTells, OnlyTurns
  <2> QED
    BY <1>1, <1>3, <2>1, <2>3, <2>4, HostWritesOnly DEF PumpBind, OnlyHost
<1> QED
  BY <1>2, <1>3 DEF PumpBind

LEMMA PumpSubmitKeeps ==
  ASSUME Inv, NEW h \in Hosts, PumpSubmit(h) PROVE Inv' /\ HeartMoves
<1>1. host[h].phase \notin Outside /\ Hosting(h, host[h]) /\ host[h].pump # None
  BY Inside DEF PumpSubmit, Inv, Hosting, Pump, Outside, Failing
<1>2. CASE UNCHANGED heartVars
  BY <1>1, <1>2, PumpDropKeeps DEF PumpSubmit, OnlyHost
<1>3. CASE /\ At(h, "driving") /\ ~Protected(host[h].pump, host[h].body)
           /\ DeliverTells({host[h].pump}, host[h].turn, ~provider.receipts)
           /\ HostTo(h, [host[h] EXCEPT !.pump = None])
  <2>1. PICK q : q = [host[h] EXCEPT !.phase = "driving", !.pump = None]
    OBVIOUS
  <2>2. [host[h] EXCEPT !.pump = None] = q
    BY <1>1, <1>3, <2>1 DEF Hosting, Seat, HostFields, At
  <2>3. HostTo(h, q)
    BY <1>3, <2>2
  <2>4. host[h].pump \in host[h].tried /\ host[h].pump \in Admitted /\ ~Taken(host[h].pump)
    BY <1>1, <1>3 DEF Hosting, Pump, Memory, At
  <2> QED
    BY <1>1, <1>3, <2>1, <2>3, <2>4, DeliverKeeps DEF PumpSubmit, OnlyHost, At
<1> QED
  BY <1>2, <1>3 DEF PumpSubmit

LEMMA ReceiptKeeps ==
  ASSUME Inv, NEW h \in Hosts, Receipt(h) PROVE Inv' /\ HeartMoves
<1> USE DEF Phases, Outside, Early, Between, Within, Launching, Failing
<1>1. host[h].phase \notin Outside /\ Hosting(h, host[h]) /\ host[h].phase = "driving"
  BY Inside DEF Receipt, At
<1>2. CASE HostTo(h, [host[h] EXCEPT !.aborted = TRUE]) /\ UNCHANGED heartVars
  BY <1>2, ReceiptRefused DEF Receipt
<1>3. ASSUME NEW t \in Pending, <<t, host[h].turn, FALSE>> \in delivered, ReceiptTell(t), UNCHANGED host PROVE Inv' /\ HeartMoves
  <2>1. PICK q : q = host[h]
    OBVIOUS
  <2>2. HeartMoves /\ Paused
    BY <1>3, TellReceipted
  <2>3. Admitted' = Admitted /\ Latest' = Latest /\ \A b : OpenTurns(b)' = OpenTurns(b)
    BY <1>3 DEF ReceiptTell, Admitted, Latest, OpenTurns
  <2>4. \A u : Taken(u)' => Taken(u) \/ u = t
    BY <1>3 DEF ReceiptTell, Taken
  <2>5. t \in q.tried /\ (q.pump # None => t # q.pump)
    BY <1>1, <1>3, <2>1 DEF Hosting, Memory
  <2>6. Seat(h, q)' /\ Pump(q)'
    BY <1>1, <1>3, <2>1, <2>3 DEF Receipt, OnlyHost, ReceiptTell, Hosting, Seat, Pump
  <2>7. Work(q)'
    BY <1>1, <1>3, <2>1, <2>3 DEF ReceiptTell, Hosting, Work
  <2>8. Memory(q)'
    BY <1>1, <1>3, <2>1, <2>3, <2>4, <2>5 DEF ReceiptTell, Hosting, Memory
  <2> QED
    BY <1>1, <1>3, <2>1, <2>2, <2>6, <2>7, <2>8, HostWritesOnly DEF Receipt, OnlyHost, Hosting
<1> QED
  BY <1>2, <1>3 DEF Receipt

LEMMA HangKeeps ==
  ASSUME Inv, NEW h \in Hosts, Hang(h) PROVE Inv' /\ HeartMoves
<1> USE DEF Phases, Outside, Early, Between, Within, Launching, Failing
<1>1. host[h].phase \notin Outside /\ Hosting(h, host[h]) /\ host[h].phase = "retiring"
  BY Inside DEF Hang, At
<1>2. PICK q : q = [host[h] EXCEPT !.phase = "breaking", !.then = "hung"]
  OBVIOUS
<1>3. HostTo(h, q)
  BY <1>2 DEF Hang
<1>4. /\ DOMAIN q = HostFields /\ q.phase = "breaking" /\ q.turn = host[h].turn
      /\ q.body = host[h].body /\ q.pump = host[h].pump /\ q.seen = host[h].seen /\ q.drained = host[h].drained
  BY <1>1, <1>2 DEF Hosting, Seat, HostFields
<1>5. host[h].body = Latest /\ Latest > 0 /\ Latest \in DOMAIN bodies
  BY <1>1, BodiesAre DEF Hosting, Work, Inv
<1>6. HeartMoves /\ Paused /\ Latest' = Latest /\ bodies'[host[h].body].hung
  BY <1>5, BodyHangs DEF Hang
<1>7. Admitted' = Admitted
  BY DEF Hang, RecordBodyHung, Admitted
<1>8. Seat(h, q)' /\ Pump(q)' /\ Work(q)' /\ Memory(q)'
  BY <1>1, <1>4, <1>5, <1>6, <1>7 DEF Hang, OnlyHostFails, RecordBodyHung, Hosting, Seat, Pump, Work, Memory
<1> QED
  BY <1>1, <1>3, <1>4, <1>6, <1>8, HostWrites DEF Hang, OnlyHostFails, Hosting

(* The host ends its Turn, and no other is open.                             *)
LEMMA PersistKeeps ==
  ASSUME Inv, NEW h \in Hosts, Persist(h) PROVE Inv' /\ HeartMoves
<1> USE DEF Phases, Outside, Early, Between, Within, Launching, Failing
<1>1. host[h].phase \notin Outside /\ Hosting(h, host[h]) /\ host[h].phase = "persisting"
  BY Inside DEF Persist, At
<1>2. PICK q : \/ /\ host[h].then = "answered"
                  /\ q = [host[h] EXCEPT !.phase = "refreshing", !.initial = FALSE, !.drained = {}, !.tried = {}]
               \/ host[h].then # "answered" /\ q = [host[h] EXCEPT !.phase = "failing"]
  OBVIOUS
<1>3. HostTo(h, q)
  BY <1>2 DEF Persist, HostAt
<1>4. /\ DOMAIN q = HostFields /\ q.turn = host[h].turn /\ q.live = host[h].live
      /\ q.body = host[h].body /\ q.pump = host[h].pump /\ q.seen = host[h].seen
      /\ \/ q.phase = "refreshing" /\ host[h].then = "answered" /\ q.drained = {}
         \/ q.phase = "failing" /\ q.drained = host[h].drained
  BY <1>1, <1>2 DEF Hosting, Seat, HostFields
<1>5. OnlyTurns /\ \E end \in {"answered", "failed"} : turns' = TurnsEnded({host[h].turn}, end)
  BY DEF Persist, EndTurn, OnlyTurns
<1>6. HeartMoves /\ Paused
  BY <1>5, SomeTurnsEnd
<1>7. /\ DOMAIN turns' = DOMAIN turns /\ \A n \in DOMAIN turns : turns'[n].body = turns[n].body
      /\ \A b : OpenTurns(b)' = OpenTurns(b) \ {host[h].turn}
  BY <1>5, EndedTurns DEF Inv
<1>8. Admitted' = Admitted /\ Latest' = Latest
  BY <1>5 DEF OnlyTurns, Admitted, Latest
<1>9. /\ host[h].body = Latest /\ Latest > 0 /\ bodies[Latest].end = "open" /\ ~bodies[Latest].hung
      /\ ~host[h].live /\ OpenTurns(Latest) \subseteq {host[h].turn}
  BY <1>1 DEF Hosting, Work
<1>10. OpenTurns(Latest)' = {}
  <2>1. PICK b : b = Latest
    OBVIOUS
  <2>2. OpenTurns(b)' = {} /\ Latest' = b
    BY <1>7, <1>8, <1>9, <2>1
  <2> QED
    BY <2>2 DEF OpenTurns
<1>11. q.phase = "refreshing" => q.pump = None
  BY <1>1, <1>4 DEF Hosting, Pump
<1>12. Seat(h, q)'
  BY <1>1, <1>4 DEF Persist, OnlyHost, Hosting, Seat
<1>13. Work(q)'
  BY <1>4, <1>5, <1>8, <1>9, <1>10 DEF OnlyTurns, Work
<1>14. Pump(q)'
  BY <1>1, <1>4, <1>7, <1>8, <1>11 DEF Hosting, Pump
<1>15. Memory(q)'
  BY <1>1, <1>4, <1>8 DEF Hosting, Memory
<1> QED
  BY <1>1, <1>3, <1>4, <1>6, <1>12, <1>13, <1>14, <1>15, HostWrites DEF Persist, OnlyHost, Hosting

(* What is still bound fails, before and after the Body broke off.           *)
LEMMA FailingKeeps ==
  ASSUME Inv, NEW h \in Hosts, FailTurns(h) \/ Close(h) PROVE Inv' /\ HeartMoves
<1> USE DEF Phases, Outside, Early, Between, Within, Launching, Failing
<1>1. host[h].phase \notin Outside /\ Hosting(h, host[h]) /\ host[h].phase \in Failing
  BY Inside DEF FailTurns, Close, At
<1>2. PICK q : /\ HostTo(h, q)
               /\ \/ \E phase \in {"closing", "breaking"} : q = [host[h] EXCEPT !.phase = phase, !.exit = "ended"]
                  \/ q = [host[h] EXCEPT !.phase = "releasing"]
  BY DEF FailTurns, Close, HostAt
<1>3. /\ DOMAIN q = HostFields /\ q.phase \in {"closing", "breaking", "releasing"} /\ q.turn = host[h].turn
      /\ q.live = host[h].live /\ q.body = host[h].body /\ q.pump = host[h].pump
      /\ q.seen = host[h].seen /\ q.drained = host[h].drained
  BY <1>1, <1>2 DEF Hosting, Seat, HostFields
<1>4. Hosting(h, q)
  BY <1>1, <1>3 DEF Hosting, Seat, Work, Pump, Memory
<1>5. OnlyTurns /\ turns' = TurnsEnded(OpenBoundTurns(host[h].body), "failed") /\ UNCHANGED <<leash, client, handing>>
  BY DEF FailTurns, Close, FailOpenBoundTurns, OnlyTurns, OnlyHost
<1>6. HeartMoves /\ Paused
  BY <1>5, SomeTurnsEnd
<1>7. PICK S : S = OpenBoundTurns(host[h].body)
  OBVIOUS
<1>8. /\ DOMAIN turns' = DOMAIN turns /\ \A n \in DOMAIN turns : turns'[n].body = turns[n].body
      /\ \A b : OpenTurns(b)' = OpenTurns(b) \ S
  BY <1>5, <1>7, EndedTurns DEF Inv
<1>9. Hosting(h, q)'
  BY <1>4, <1>5, <1>8, HostingTurns
<1> QED
  BY <1>1, <1>2, <1>3, <1>5, <1>6, <1>9, HostWrites

LEMMA BreakKeeps ==
  ASSUME Inv, NEW h \in Hosts, Break(h) PROVE Inv' /\ HeartMoves
<1> USE DEF Phases, Outside, Early, Between, Within, Launching, Failing
<1>1. host[h].phase \notin Outside /\ Hosting(h, host[h]) /\ host[h].phase = "breaking"
  BY Inside DEF Break, At
<1>2. PICK q : \E phase \in {"failing", "closing"} : HostTo(h, q) /\ q = [host[h] EXCEPT !.phase = phase]
  BY DEF Break, HostAt
<1>3. /\ DOMAIN q = HostFields /\ q.phase \in {"closing", "failing"} /\ q.turn = host[h].turn
      /\ q.live = host[h].live /\ q.body = host[h].body /\ q.pump = host[h].pump
      /\ q.seen = host[h].seen /\ q.drained = host[h].drained
  BY <1>1, <1>2 DEF Hosting, Seat, HostFields
<1>4. PICK b : b = host[h].body
  OBVIOUS
<1>5. b = Latest /\ Latest > 0 /\ b \in DOMAIN bodies /\ (bodies[b].hung \/ OpenTurns(b) = {})
  BY <1>1, <1>4, BodiesAre DEF Hosting, Work, Inv
<1>6. bodies' = Ended(b, "broke-off") /\ UNCHANGED <<tells, turns, delivered, receipts, pause, stop, kills>>
  BY <1>4 DEF Break, BreakBody
<1>7. \A a : OpenTurns(a)' = OpenTurns(a)
  BY <1>6 DEF OpenTurns
<1>8. turns' \in Seq(TurnRecords)
  BY <1>6 DEF Inv, HeartTyped
<1>9. HeartMoves /\ Paused
  BY <1>5, <1>6, <1>7, <1>8, BodyEnds
<1>10. Latest' = Latest /\ bodies'[b].hung = bodies[b].hung
  BY <1>5, <1>6, EndedBody DEF Inv
<1>11. Admitted' = Admitted
  BY <1>6 DEF Admitted
<1>12. OpenTurns(Latest)' = OpenTurns(Latest)
  BY <1>6, <1>10 DEF OpenTurns
<1>13. Seat(h, q)' /\ Pump(q)'
  BY <1>1, <1>3, <1>6, <1>11 DEF Break, OnlyHost, Hosting, Seat, Pump
<1>14. Work(q)'
  BY <1>1, <1>3, <1>4, <1>5, <1>10, <1>12 DEF Hosting, Work
<1>15. Memory(q)'
  BY <1>1, <1>3, <1>11 DEF Hosting, Memory
<1> QED
  BY <1>1, <1>2, <1>3, <1>9, <1>13, <1>14, <1>15, HostWrites DEF Break, OnlyHost, Hosting

(* A Body exits when nothing is pending; or it goes on, or is put down.      *)
LEMMA ChooseKeeps ==
  ASSUME Inv, NEW h \in Hosts, Choose(h) PROVE Inv' /\ HeartMoves
<1> USE DEF Phases, Outside, Early, Between, Within, Launching, Failing
<1>1. host[h].phase \notin Outside /\ Hosting(h, host[h]) /\ host[h].phase = "choosing"
  BY Inside DEF Choose, At
<1>2. PICK S : S = Drain(host[h].seen.pending, host[h].seen.pause, host[h].body)
  OBVIOUS
<1>3. S \in SUBSET host[h].seen.pending
  BY <1>2, DrainIsPending
<1>4. ASSUME UNCHANGED heartVars,
             \/ HostTo(h, PutDownPhase(h)) \/ HostTo(h, [PutDownPhase(h) EXCEPT !.aborted = TRUE])
             \/ HostTo(h, [host[h] EXCEPT !.phase = "refreshing"])
             \/ HostTo(h, [host[h] EXCEPT !.phase = "beginning", !.drained = S, !.tried = S])
      PROVE  Inv' /\ HeartMoves
  BY <1>3, <1>4, ChooseTurn DEF Choose, OnlyHost
<1>5. CASE /\ FinishBodyIfIdle(host[h].body) /\ FinishOutcome(host[h].body) = "finished"
           /\ HostTo(h, [host[h] EXCEPT !.phase = "releasing", !.exit = "ended"])
  <2>1. PICK q : q = [host[h] EXCEPT !.phase = "releasing", !.exit = "ended"]
    OBVIOUS
  <2>2. /\ DOMAIN q = HostFields /\ q.phase = "releasing" /\ q.turn = host[h].turn
        /\ q.live = host[h].live /\ q.body = host[h].body /\ q.pump = host[h].pump
        /\ q.seen = host[h].seen /\ q.drained = host[h].drained
    BY <1>1, <2>1 DEF Hosting, Seat, HostFields
  <2>3. PICK b : b = host[h].body
    OBVIOUS
  <2>4. b = Latest /\ b \in DOMAIN bodies /\ OpenTurns(b) = {} /\ ~host[h].live /\ host[h].pump = None
    BY <1>1, <2>3, BodiesAre DEF Hosting, Work, Pump, Inv
  <2>5. bodies' = Ended(b, "exited") /\ UNCHANGED <<tells, turns, delivered, receipts, pause, stop, kills>>
    BY <1>5, <2>3 DEF FinishBodyIfIdle
  <2>6. Pending = {}
    BY <1>5 DEF FinishOutcome
  <2>7. \A a : OpenTurns(a)' = OpenTurns(a)
    BY <2>5 DEF OpenTurns
  <2>8. turns' \in Seq(TurnRecords)
    BY <2>5 DEF Inv, HeartTyped
  <2>9. HeartMoves /\ Paused
    BY <2>4, <2>5, <2>6, <2>7, <2>8, BodyEnds
  <2>10. Admitted' = Admitted
    BY <2>5 DEF Admitted
  <2>11. Seat(h, q)' /\ Pump(q)' /\ Work(q)' /\ Memory(q)'
    BY <1>1, <2>2, <2>4, <2>10 DEF Choose, OnlyHost, Hosting, Seat, Pump, Work, Memory
  <2> QED
    BY <1>1, <1>5, <2>1, <2>2, <2>9, <2>11, HostWrites DEF Choose, OnlyHost, Hosting
<1>6. FinishBodyIfIdle(host[h].body) /\ FinishOutcome(host[h].body) # "finished" => UNCHANGED heartVars
  BY DEF FinishBodyIfIdle, heartVars
<1> QED
  BY <1>2, <1>4, <1>5, <1>6 DEF Choose

(* A Body is put down with its Turns; its host may have Tells to hand over.  *)
LEMMA PutDownKeeps ==
  ASSUME Inv, NEW h \in Hosts, PutDown(h) PROVE Inv' /\ HeartMoves
<1> USE DEF Phases, Outside, Early, Between, Within, Launching, Failing
<1>1. host[h].phase \notin Outside /\ Hosting(h, host[h]) /\ host[h].phase = "putting"
  BY Inside DEF PutDown, At
<1>2. PICK q : \E exit : HostTo(h, q) /\ q = [host[h] EXCEPT !.phase = "releasing", !.exit = exit]
  BY DEF PutDown
<1>3. /\ DOMAIN q = HostFields /\ q.phase = "releasing" /\ q.turn = host[h].turn
      /\ q.live = host[h].live /\ q.body = host[h].body /\ q.pump = host[h].pump
      /\ q.seen = host[h].seen /\ q.drained = host[h].drained
  BY <1>1, <1>2 DEF Hosting, Seat, HostFields
<1>4. PICK b : b = host[h].body
  OBVIOUS
<1>5. b = Latest /\ b \in DOMAIN bodies /\ ~host[h].live
  BY <1>1, <1>4, BodiesAre DEF Hosting, Work, Inv
<1>6. /\ bodies' = Ended(b, "put-down") /\ turns' = TurnsEnded(OpenTurns(b), "canceled")
      /\ UNCHANGED <<tells, delivered, receipts, pause, stop, kills>>
  BY <1>4 DEF PutDown, CancelBodyTurns
<1>7. PICK S : S = OpenTurns(b)
  OBVIOUS
<1>8. /\ turns' \in Seq(TurnRecords) /\ DOMAIN turns' = DOMAIN turns
      /\ \A n \in DOMAIN turns : turns'[n].body = turns[n].body /\ turns'[n].bound = turns[n].bound
      /\ \A a : OpenTurns(a)' = OpenTurns(a) \ S
  BY <1>6, <1>7, EndedTurns DEF Inv
<1>9. HeartMoves /\ Paused
  BY <1>5, <1>6, <1>7, <1>8, BodyEnds
<1>10. Admitted' = Admitted
  BY <1>6 DEF Admitted
<1>11. Seat(h, q)' /\ Pump(q)' /\ Work(q)' /\ Memory(q)'
  BY <1>1, <1>3, <1>5, <1>8, <1>10 DEF PutDown, Hosting, Seat, Pump, Work, Memory
<1>12. Moved(h, q)
  BY <1>1, <1>2, <1>3 DEF Moved, HostTo, Inv, Tables
<1>13. HandedByHosts
  BY BodiesAssumption DEF PutDown, HandedByHosts, Inv, Tables, HandingFields
<1> QED
  BY <1>9, <1>11, <1>12, <1>13, HostMoves DEF PutDown, Hosting

-----------------------------------------------------------------------------
(* Steps over the leash                                                      *)

(* A host comes in or goes out; the heart rests.                             *)
LEMMA HostCrosses ==
  ASSUME Inv, UNCHANGED heartVars, UNCHANGED client, HandedByHosts, NEW h \in Hosts, NEW r, HostTo(h, r),
         leash' = leash \/ (leash \in {None, h} /\ leash' \in {None, h}),
         r.phase \in Outside \/ r.body \notin DOMAIN bodies, Hosting(h, r)'
  PROVE  Inv' /\ HeartMoves
<1>1. HeartMoves /\ Paused /\ Undisturbed
  BY HeartRests DEF Paused
<1>2. DOMAIN host' = Hosts /\ host'[h] = r /\ \A g \in Hosts : g # h => host'[g] = host[g]
  BY DEF HostTo, Inv, Tables
<1>3. HostsStay
  BY <1>2 DEF HostsStay
<1>4. ASSUME NEW g \in Hosts, g # h PROVE Hosting(g, host[g])'
  <2>1. \A s : Hosting(g, s) /\ (s.phase \notin Outside => leash' = leash) => Hosting(g, s)'
    BY <1>1, HostRests
  <2>2. Hosting(g, host[g]) /\ (host[g].phase \notin Outside => leash' = leash)
    BY <1>4, BodiesAssumption DEF Inv, Hosting, Seat, Hosts
  <2> QED
    BY <1>2, <1>4, <2>1, <2>2
<1>5. \A g \in Hosts : Hosting(g, host[g])'
  BY <1>2, <1>4
<1>6. \A c \in Clients : Asking(c, client[c], handing[c])' /\ Hearing(client[c])' /\ Recovering(c, handing[c])'
  <2>1. \A c \in Clients : leash = c => leash' = c
    BY BodiesAssumption
  <2> QED
    BY <1>1, <1>3, <2>1, ClientRests DEF HandedByHosts
<1>7. Tables'
  BY <1>2 DEF Inv, Tables, HandedByHosts
<1>8. pause' # None => Guarded(pause)'
  BY <1>1, PauseStaysGuarded
<1> QED
  BY <1>1, <1>5, <1>6, <1>7, <1>8 DEF Inv, HeartMoves

LEMMA LeashTaken ==
  ASSUME Inv, NEW h \in Hosts, TakeLeash(h) PROVE Inv' /\ HeartMoves
<1> USE DEF Phases, Outside, Early, Between, Within, Launching, Failing
<1>1. Hosting(h, host[h]) /\ host[h].phase = "launched"
  BY DEF Inv, TakeLeash, At
<1>2. PICK q : /\ HostTo(h, q)
               /\ \/ /\ \E phase \in {"preparing", "wanted"} : q = [host[h] EXCEPT !.phase = phase]
                     /\ leash = None /\ leash' = h
                  \/ q = [host[h] EXCEPT !.phase = "gone", !.exit = "held"] /\ leash' = leash
  BY DEF TakeLeash, HostAt
<1>3. /\ DOMAIN q = HostFields /\ q.turn = host[h].turn
      /\ q.live = host[h].live /\ q.body = host[h].body /\ q.pump = host[h].pump
      /\ q.seen = host[h].seen /\ q.drained = host[h].drained
      /\ q.phase = "gone" \/ (q.phase \in {"preparing", "wanted"} /\ leash' = h)
  BY <1>1, <1>2 DEF Hosting, Seat, HostFields
<1>4. q.phase \in Outside \/ q.body \notin DOMAIN bodies
  BY <1>1, <1>3, BodiesAre DEF Inv, Hosting, Work
<1>5. Admitted' = Admitted /\ Latest' = Latest
  BY DEF TakeLeash, heartVars, Admitted, Latest
<1>6. Seat(h, q)' /\ Pump(q)' /\ Memory(q)'
  BY <1>1, <1>3, <1>5 DEF TakeLeash, heartVars, Hosting, Seat, Pump, Memory
<1>7. Work(q)'
  BY <1>1, <1>3, <1>5 DEF TakeLeash, heartVars, Hosting, Work
<1>8. HandedByHosts
  BY DEF TakeLeash, HandedByHosts, Inv, Tables
<1> QED
  BY <1>2, <1>4, <1>6, <1>7, <1>8, HostCrosses DEF TakeLeash, Hosting

(* A host goes: its provider, if it hung, may live on.                       *)
LEMMA HostGoes ==
  ASSUME Inv, UNCHANGED heartVars, UNCHANGED client, HandedByHosts, NEW h \in Hosts, NEW exit, NEW live,
         HostEnds(h, exit, live), live => host[h].live /\ host[h].phase = "releasing",
         leash' = leash \/ (leash \in {None, h} /\ leash' \in {None, h})
  PROVE  Inv' /\ HeartMoves
<1> USE DEF Phases, Outside, Early, Between, Within, Launching, Failing
<1>1. PICK q : q = [Spawnable EXCEPT !.phase = "gone", !.body = host[h].body, !.exit = exit, !.live = live]
  OBVIOUS
<1>2. HostTo(h, q)
  BY <1>1 DEF HostEnds, HostTo
<1>3. /\ DOMAIN q = HostFields /\ q.phase = "gone" /\ q.live = live /\ q.body = host[h].body /\ q.pump = None
      /\ q.seen.pending = {} /\ q.drained = {}
  BY <1>1 DEF Spawnable, HostFields
<1>4. Hosting(h, host[h])
  BY DEF Inv
<1>5. q.live => q.body = Latest /\ Latest > 0 /\ bodies[Latest].hung
  BY <1>3, <1>4 DEF Hosting, Work
<1>6. Latest' = Latest /\ bodies' = bodies
  BY DEF heartVars, Latest
<1>7. Hosting(h, q)'
  BY <1>3, <1>5, <1>6 DEF Hosting, Seat, Work, Pump, Memory
<1> QED
  BY <1>2, <1>3, <1>7, HostCrosses

LEMMA ReleaseKeeps ==
  ASSUME Inv, NEW h \in Hosts, Release(h) PROVE Inv' /\ HeartMoves
<1>1. host[h].phase = "releasing" /\ leash = h /\ Hosting(h, host[h])
  BY Inside DEF Release, At, Outside
<1>2. PICK live : live = host[h].live
  OBVIOUS
<1>3. HandedByHosts
  BY BodiesAssumption DEF Release, HandedByHosts, Inv, Tables
<1> QED
  BY <1>1, <1>2, <1>3, HostGoes DEF Release

-----------------------------------------------------------------------------
(* Steps of clients, and handovers                                           *)

(* Hosts rest, but for one that may be spawned.                              *)
HostsRest ==
    /\ DOMAIN host' = Hosts
    /\ \A h \in Hosts : \/ host'[h] = host[h]
                        \/ \E from : host'[h] = [Spawnable EXCEPT !.phase = "launched", !.from = from]
    /\ leash' = leash \/ leash \notin Hosts

LEMMA HostsUnmoved ==
  ASSUME Inv, UNCHANGED host, leash' = leash \/ leash \notin Hosts PROVE HostsRest
BY DEF Inv, Tables, HostsRest

LEMMA HostSpawned ==
  ASSUME Inv, NEW from, host' = Spawned(from), Free # {}, UNCHANGED leash PROVE HostsRest
<1>1. NextHost \in Free
  BY DEF NextHost
<1>2. NextHost \in Hosts
  BY <1>1 DEF Free
<1> HIDE DEF NextHost
<1> QED
  BY <1>2 DEF Inv, Tables, HostsRest, Spawned

LEMMA RestingHosts ==
  ASSUME Inv, Undisturbed, HostsRest
  PROVE  HostsStay /\ \A h \in Hosts : Hosting(h, host[h])'
<1> USE DEF Phases, Outside, Early, Between, Within, Launching, Failing
<1>1. HostsStay
  BY DEF HostsRest, HostsStay, Spawnable
<1>2. ASSUME NEW h \in Hosts PROVE Hosting(h, host[h])'
  <2>1. CASE host'[h] = host[h]
    <3>1. \A s : Hosting(h, s) /\ (s.phase \notin Outside => leash' = leash) => Hosting(h, s)'
      BY HostRests
    <3>2. Hosting(h, host[h]) /\ (host[h].phase \notin Outside => leash' = leash)
      BY DEF Inv, Hosting, Seat, HostsRest
    <3> QED
      BY <2>1, <3>1, <3>2
  <2>2. CASE host'[h] # host[h]
    <3>1. PICK q : q = host'[h] /\ \E from : q = [Spawnable EXCEPT !.phase = "launched", !.from = from]
      BY <2>2 DEF HostsRest
    <3>2. /\ DOMAIN q = HostFields /\ q.phase = "launched" /\ q.live = FALSE /\ q.body = 0 /\ q.pump = None
          /\ q.seen.pending = {} /\ q.drained = {}
      BY <3>1 DEF Spawnable, HostFields
    <3>3. Hosting(h, q)'
      BY <3>2 DEF Hosting, Seat, Work, Pump, Memory
    <3> QED
      BY <3>1, <3>3 DEF Hosting, Seat, Work, Pump, Memory
  <2> QED
    BY <2>1, <2>2
<1> QED
  BY <1>1, <1>2

(* Whoever acts, the other clients rest.                                     *)
LEMMA OthersRest ==
  ASSUME Inv, HeartMoves, Paused, Undisturbed, HostsRest, Tables', NEW a \in Hosts \cup Clients,
         \A c \in Clients : c # a => client'[c] = client[c] /\ handing'[c] = handing[c],
         leash' = leash \/ leash \in {None, a},
         a \in Clients => Asking(a, client[a], handing[a])' /\ Hearing(client[a])' /\ Recovering(a, handing[a])'
  PROVE  Inv'
<1>1. HostsStay /\ \A h \in Hosts : Hosting(h, host[h])'
  BY RestingHosts
<1>2. ASSUME NEW c \in Clients, c # a
      PROVE  Asking(c, client[c], handing[c])' /\ Hearing(client[c])' /\ Recovering(c, handing[c])'
  BY <1>1, <1>2, ClientRests, BodiesAssumption
<1>3. pause' # None => Guarded(pause)'
  BY PauseStaysGuarded
<1> QED
  BY <1>1, <1>2, <1>3 DEF Inv, HeartMoves

(* A handover goes on; if it is a client's, the client itself is done.       *)
LEMMA HandingMoves ==
  ASSUME Inv, HeartMoves, Paused, Undisturbed, HostsRest, NEW a \in Hosts \cup Clients,
         NEW g, HandingTo(a, g), DOMAIN g = HandingFields, handing[a].phase # "idle", UNCHANGED client,
         leash' = leash \/ (leash \in {None, a} /\ leash' \in {None, a}),
         a \in Clients => Recovering(a, g)'
  PROVE  Inv'
<1>1. /\ DOMAIN handing' = Hosts \cup Clients /\ handing'[a] = g
      /\ \A b \in Hosts \cup Clients : b # a => handing'[b] = handing[b]
  BY DEF HandingTo, Inv, Tables
<1>2. Tables'
  BY <1>1 DEF Inv, Tables, HostsRest
<1>3. ASSUME a \in Clients
      PROVE  Asking(a, client[a], handing[a])' /\ Hearing(client[a])' /\ Recovering(a, handing[a])'
  <2>1. Asking(a, client[a], handing[a]) /\ Hearing(client[a]) /\ client[a].phase = "done"
    BY <1>3 DEF Inv, Asking
  <2>2. \A r, f : Asking(a, r, f) /\ Hearing(r) => Hearing(r)'
    BY <1>3, RestingHosts, HearingStays
  <2>3. PICK r : r = client[a]
    OBVIOUS
  <2>4. Asking(a, r, g)'
    BY <2>1, <2>3 DEF Asking, HeartMoves, Onward
  <2> QED
    BY <1>1, <1>3, <2>1, <2>2, <2>3, <2>4 DEF Asking
<1> QED
  BY <1>1, <1>2, <1>3, OthersRest

(* A client goes on.                                                         *)
LEMMA ClientMoves ==
  ASSUME Inv, HeartMoves, Paused, Undisturbed, HostsRest, NEW c \in Clients, NEW r, ClientTo(c, r), NEW g,
         \/ handing' = handing /\ g = handing[c]
         \/ handing' = [handing EXCEPT ![c] = g] /\ DOMAIN g = HandingFields,
         leash' = leash \/ (leash \in {None, c} /\ leash' \in {None, c}),
         Asking(c, r, g)', Hearing(r)', Recovering(c, g)'
  PROVE  Inv'
<1>1. /\ DOMAIN handing' = Hosts \cup Clients /\ handing'[c] = g
      /\ \A b \in Hosts \cup Clients : b # c => handing'[b] = handing[b]
  BY DEF Inv, Tables
<1>2. DOMAIN client' = Clients /\ client'[c] = r /\ \A b \in Clients : b # c => client'[b] = client[b]
  BY DEF ClientTo, Inv, Tables
<1>3. Tables'
  BY <1>1, <1>2 DEF Inv, Tables, HostsRest
<1>4. Asking(c, client[c], handing[c])' /\ Hearing(client[c])' /\ Recovering(c, handing[c])'
  BY <1>1, <1>2
<1> QED
  BY <1>1, <1>2, <1>3, <1>4, OthersRest

LEMMA ProveKeeps ==
  ASSUME Inv, NEW a \in Hosts \cup Clients, Prove(a) \/ SuccessorEnded(a) PROVE Inv' /\ HeartMoves
<1>1. PICK g : \E phase \in {"idle", "undelivered"} : HandingTo(a, g) /\ g = [handing[a] EXCEPT !.phase = phase]
  BY DEF Prove, SuccessorEnded, HandingAt
<1>2. DOMAIN g = HandingFields /\ g.phase \in {"idle", "undelivered"}
  BY <1>1 DEF Inv, Tables, HandingFields
<1>3. Recovering(a, g)'
  BY <1>2 DEF Recovering
<1>4. HeartMoves /\ Paused /\ Undisturbed
  <2>1. UNCHANGED <<bodies, tells, turns, delivered, receipts, pause, stop, kills>>
    BY DEF Prove, ConsumeProven, SuccessorEnded, heartVars
  <2> QED
    BY <2>1, ControlMoves DEF Paused, Inv, HeartTyped
<1>5. HostsRest /\ UNCHANGED <<leash, client>>
  BY HostsUnmoved DEF Prove, SuccessorEnded, OnlyHanding
<1>6. handing[a].phase # "idle"
  BY DEF Prove, SuccessorEnded
<1> QED
  BY <1>1, <1>2, <1>3, <1>4, <1>5, <1>6, HandingMoves

LEMMA SuccessorKeeps ==
  ASSUME Inv, NEW a \in Hosts \cup Clients, Successor(a) PROVE Inv' /\ HeartMoves
<1>1. PICK g : HandingTo(a, g) /\ \/ \E h : g = [handing[a] EXCEPT !.phase = "awaiting", !.child = h]
                                  \/ g = [handing[a] EXCEPT !.phase = "undelivered"]
  BY DEF Successor, HandingAt
<1>2. DOMAIN g = HandingFields /\ g.phase \in {"awaiting", "undelivered"}
  BY <1>1 DEF Inv, Tables, HandingFields
<1>3. Recovering(a, g)'
  BY <1>2 DEF Recovering
<1>4. HeartMoves /\ Paused /\ Undisturbed
  BY HeartRests DEF Successor, Paused
<1>5. UNCHANGED <<leash, client>>
  BY DEF Successor, OnlyHanding
<1>6. HostsRest
  BY <1>5, HostsUnmoved, HostSpawned DEF Successor
<1>7. handing[a].phase # "idle"
  BY DEF Successor
<1> QED
  BY <1>1, <1>2, <1>3, <1>4, <1>5, <1>6, <1>7, HandingMoves

LEMMA UndeliveredKeeps ==
  ASSUME Inv, NEW a \in Hosts \cup Clients, Undelivered(a) PROVE Inv' /\ HeartMoves
<1>1. PICK g : HandingTo(a, g) /\ g = [handing[a] EXCEPT !.phase = "idle"]
  BY DEF Undelivered, HandingAt
<1>2. DOMAIN g = HandingFields /\ g.phase = "idle"
  BY <1>1 DEF Inv, Tables, HandingFields
<1>3. Recovering(a, g)'
  BY <1>2 DEF Recovering
<1>4. HeartMoves /\ Paused /\ Undisturbed
  <2>1. UNCHANGED <<bodies, tells, turns, delivered, pause, stop, kills>>
    BY DEF Undelivered, SettleUndelivered
  <2>2. receipts \subseteq receipts' /\ \A t : <<t, "provider">> \in receipts' <=> <<t, "provider">> \in receipts
    BY DEF Undelivered, SettleUndelivered
  <2> QED
    BY <2>1, <2>2, ControlMoves DEF Paused, Inv, HeartTyped
<1>5. HostsRest /\ UNCHANGED <<leash, client>>
  BY HostsUnmoved DEF Undelivered, OnlyHanding
<1>6. handing[a].phase # "idle"
  BY DEF Undelivered
<1> QED
  BY <1>1, <1>2, <1>3, <1>4, <1>5, <1>6, HandingMoves

LEMMA RecoverKeeps ==
  ASSUME Inv, NEW c \in Clients, Recover(c) PROVE Inv' /\ HeartMoves
<1>1. PICK g : /\ HandingTo(c, g)
               /\ \/ \E b : g = [handing[c] EXCEPT !.phase = "proving", !.body = b]
                  \/ g = [handing[c] EXCEPT !.phase = "idle"]
                  \/ \E b : /\ g = [handing[c] EXCEPT !.phase = "probing", !.body = b]
                            /\ b = 0 \/ (b = Latest /\ Latest > 0 /\ Settled(Latest))
  BY DEF Recover, HandingAt
<1>2. /\ DOMAIN g = HandingFields /\ g.phase \in {"proving", "idle", "probing"}
      /\ g.phase = "probing" => g.body = 0 \/ (g.body = Latest /\ Latest > 0 /\ Settled(Latest))
  BY <1>1 DEF Inv, Tables, HandingFields
<1>3. Recovering(c, g)
  BY <1>2, BodiesAre DEF Recovering, Inv
<1>4. HeartMoves /\ Paused /\ Undisturbed
  BY HeartRests DEF Recover, Paused
<1>5. Recovering(c, g)'
  BY <1>2, <1>3, <1>4, RecoveringStays DEF HeartMoves
<1>6. HostsRest /\ UNCHANGED <<leash, client>>
  BY HostsUnmoved DEF Recover, OnlyHanding
<1>7. handing[c].phase # "idle"
  BY DEF Recover
<1> QED
  BY <1>1, <1>2, <1>4, <1>5, <1>6, <1>7, HandingMoves

LEMMA ProbeKeeps ==
  ASSUME Inv, NEW c \in Clients, Probe(c) \/ Probed(c) PROVE Inv' /\ HeartMoves
<1>1. PICK g : /\ HandingTo(c, g)
               /\ \/ g = [handing[c] EXCEPT !.phase = "idle"]
                  \/ handing[c].phase = "probing" /\ g = [handing[c] EXCEPT !.phase = "probed"] /\ leash' = c
                  \/ handing[c].phase = "probed" /\ g = [handing[c] EXCEPT !.phase = "deciding"] /\ handing[c].body # 0
  BY DEF Probe, Probed, HandingAt
<1>2. /\ DOMAIN g = HandingFields /\ g.body = handing[c].body
      /\ g.phase \in {"idle", "probed", "deciding"}
      /\ g.phase = "probed" => leash' = c
      /\ g.phase = "deciding" => g.body # 0
      /\ g.phase # "idle" => handing[c].phase \in {"probing", "probed"}
  BY <1>1 DEF Inv, Tables, HandingFields
<1>3. Recovering(c, handing[c])
  BY DEF Inv
<1>4. HeartMoves /\ Paused /\ Undisturbed
  BY HeartRests DEF Probe, Probed, Paused
<1>5. Recovering(c, g)'
  BY <1>2, <1>3, <1>4 DEF Recovering, HeartMoves, Onward, Settled
<1>6. UNCHANGED client /\ (leash' = leash \/ (leash \in {None, c} /\ leash' \in {None, c}))
  BY <1>3 DEF Probe, Probed, Recovering
<1>7. HostsRest
  BY <1>6, HostsUnmoved, BodiesAssumption DEF Probe, Probed, Hosts
<1>8. handing[c].phase # "idle"
  BY DEF Probe, Probed
<1> QED
  BY <1>1, <1>2, <1>4, <1>5, <1>6, <1>7, <1>8, HandingMoves

(* A client decides for a Body that has ended, and leaves it as it is.       *)
LEMMA DecideKeeps ==
  ASSUME Inv, NEW c \in Clients, Decide(c) PROVE Inv' /\ HeartMoves
<1>1. PICK g : \E phase \in {"proving", "idle"} : HandingTo(c, g) /\ g = [handing[c] EXCEPT !.phase = phase]
  BY DEF Decide, HandingAt
<1>2. DOMAIN g = HandingFields /\ g.phase \in {"proving", "idle"}
  BY <1>1 DEF Inv, Tables, HandingFields
<1>3. Recovering(c, g)'
  BY <1>2 DEF Recovering
<1>4. HeartMoves /\ Paused /\ Undisturbed
  <2>1. PICK b : b = handing[c].body
    OBVIOUS
  <2>2. b \in DOMAIN bodies /\ Settled(b)
    BY <2>1 DEF Decide, Inv, Recovering
  <2>3. Ended(b, "put-down") = bodies
    <3>1. bodies \in Seq(BodyRecords) /\ bodies[b] \in BodyRecords
      BY <2>2, BodiesAre DEF Inv, HeartTyped
    <3>2. [bodies[b] EXCEPT !.end = bodies[b].end] = bodies[b]
      BY <3>1 DEF BodyRecords
    <3> QED
      BY <2>2, <3>1, <3>2 DEF Ended, Settled
  <2>4. UNCHANGED <<bodies, tells, turns, delivered, receipts, pause, stop, kills>>
    BY <2>1, <2>3 DEF Decide, DecideDisposition
  <2> QED
    BY <2>4, ControlMoves DEF Paused, Inv, HeartTyped
<1>5. HostsRest /\ UNCHANGED <<leash, client>>
  BY HostsUnmoved DEF Decide, OnlyHanding
<1>6. handing[c].phase # "idle"
  BY DEF Decide
<1> QED
  BY <1>1, <1>2, <1>3, <1>4, <1>5, <1>6, HandingMoves

-----------------------------------------------------------------------------
(* Asking                                                                    *)

(* A Tell is recorded, and with it perhaps a barrier.                        *)
LEMMA TellsGrow ==
  ASSUME Inv, NEW t \in Tells, UNCHANGED <<bodies, turns, delivered, receipts, stop, kills>>,
         tells' = tells \/ tells' = Append(tells, t),
         \/ pause' = pause
         \/ pause' \in Barriers /\ pause'.body \in DOMAIN bodies /\ pause'.frontier \in Admitted'
  PROVE  /\ HeartMoves /\ Undisturbed
         /\ Admitted \subseteq Admitted' /\ (tells' = Append(tells, t) => t \in Admitted')
<1>1. tells \in Seq(Tells)
  BY DEF Inv, HeartTyped
<1>2. tells' \in Seq(Tells) /\ Admitted \subseteq Admitted' /\ (tells' = Append(tells, t) => t \in Admitted')
  BY <1>1 DEF Admitted
<1>3. HeartTyped'
  BY <1>2 DEF Inv, HeartTyped
<1>4. TurnsEnd'
  BY DEF Inv, TurnsEnd, Settled, OpenTurns
<1>5. Onward
  BY <1>2 DEF Onward, Latest
<1>6. Touched
  BY DEF Touched
<1> QED
  BY <1>2, <1>3, <1>4, <1>5, <1>6 DEF HeartMoves, Undisturbed

LEMMA TellRecorded ==
  ASSUME Inv, NEW t \in Tells, RecordTell(t)
  PROVE  HeartMoves /\ Undisturbed /\ Paused /\ (TellOutcome(t) # "busy" => t \in Admitted')
BY TellsGrow DEF RecordTell, Paused

LEMMA InterruptRecorded ==
  ASSUME Inv, NEW t \in Tells, RecordInterrupt(t), NEW barrier, barrier = BarrierOf(t)
  PROVE  /\ HeartMoves /\ Undisturbed /\ Paused
         /\ InterruptOutcome(t) = "recorded" => t \in Admitted' /\ (barrier # None => barrier = pause')
<1>1. UNCHANGED <<bodies, turns, delivered, receipts, stop, kills>>
  BY DEF RecordInterrupt
<1>2. CASE t \in Admitted \/ InterruptOutcome(t) # "recorded"
  <2>1. UNCHANGED <<tells, pause>>
    BY <1>2 DEF RecordInterrupt
  <2>2. t \in Admitted /\ barrier # None => barrier = pause'
    BY <2>1 DEF BarrierOf
  <2> QED
    BY <1>1, <1>2, <2>1, <2>2, TellsGrow DEF Paused
<1>3. CASE t \notin Admitted /\ InterruptOutcome(t) = "recorded"
  <2>1. tells' = Append(tells, t) /\ pause' = barrier
    BY <1>3 DEF RecordInterrupt
  <2>2. Latest \in DOMAIN bodies /\ Latest \in Nat
    BY <1>3, BodiesAre DEF InterruptOutcome, Inv
  <2>3. pause' = pause \/ (pause = None /\ pause' = [body |-> Latest, frontier |-> t])
    BY <1>3, <2>1 DEF BarrierOf
  <2>4. t \in Admitted'
    <3>1. tells \in Seq(Tells)
      BY DEF Inv, HeartTyped
    <3>2. Len(tells) + 1 \in DOMAIN tells' /\ tells'[Len(tells) + 1] = t
      BY <2>1, <3>1
    <3> QED
      BY <3>2 DEF Admitted
  <2>5. \/ pause' = pause
        \/ pause' \in Barriers /\ pause'.body \in DOMAIN bodies /\ pause'.frontier = t
    BY <2>2, <2>3 DEF Barriers
  <2>6. HeartMoves /\ Undisturbed
    BY <1>1, <2>1, <2>4, <2>5, TellsGrow
  <2>7. Paused
    BY <1>1, <1>3, <2>3, <2>5 DEF Paused
  <2> QED
    BY <2>1, <2>4, <2>6, <2>7
<1> QED
  BY <1>2, <1>3

(* A client's record, but for where it is and what it heard.                 *)
LEMMA ClientGoes ==
  ASSUME Inv, NEW c \in Clients, NEW r,
         \/ \E phase \in ClientPhases : r = [client[c] EXCEPT !.phase = phase]
         \/ \E result : r = [client[c] EXCEPT !.phase = "done", !.result = result]
  PROVE  /\ DOMAIN r = ClientFields /\ r.op = client[c].op /\ r.tell = client[c].tell /\ r.tell \in Tells
         /\ r.target = client[c].target /\ r.barrier = client[c].barrier /\ r.phase \in ClientPhases
         /\ r.phase = "done" \/ r.result = client[c].result
<1>1. DOMAIN client[c] = ClientFields /\ client[c].tell \in Tells
  BY DEF Inv, Asking
<1> QED
  BY <1>1 DEF ClientFields, ClientPhases

(* A client waits, gives up or is through: it hears nothing yet.             *)
LEMMA ClientHears ==
  ASSUME Inv, HeartMoves, Paused, HostsStay, NEW c \in Clients, NEW r,
         r.barrier = client[c].barrier, r.phase # "watching", r.result \notin {"told", "pursuing"}
  PROVE  Hearing(r)'
<1>1. r.barrier # None => Barred(r.barrier)
  BY DEF Inv, Hearing
<1>2. r.barrier # None => Barred(r.barrier)'
  BY <1>1, BarredStays
<1> QED
  BY <1>2 DEF Hearing

(* A step of a client that settles nothing: its barrier stays, and what it   *)
(* asked for was admitted before it waits or wakes a host.                   *)
LEMMA ClientTurns ==
  ASSUME Inv, HeartMoves, Paused, Undisturbed, HostsRest, NEW c \in Clients, client[c].phase # "done",
         NEW r, ClientTo(c, r),
         \/ \E phase \in ClientPhases : r = [client[c] EXCEPT !.phase = phase]
         \/ \E result : r = [client[c] EXCEPT !.phase = "done", !.result = result] /\ result \notin {"told", "pursuing"},
         r.phase # "watching", r.phase = "judging" => leash' = c,
         r.phase = "waking" \/ (r.phase \in {"waiting", "unheld", "judging"} /\ r.op = "interrupt") => r.tell \in Admitted',
         \/ UNCHANGED handing
         \/ r.phase = "done" /\ handing' = [handing EXCEPT ![c].phase = "recovering"],
         leash' = leash \/ (leash \in {None, c} /\ leash' \in {None, c})
  PROVE  Inv'
<1>1. /\ DOMAIN r = ClientFields /\ r.op = client[c].op /\ r.tell = client[c].tell /\ r.tell \in Tells
      /\ r.target = client[c].target /\ r.barrier = client[c].barrier /\ r.phase \in ClientPhases
      /\ r.phase = "done" \/ r.result = client[c].result
  <2>1. \/ \E phase \in ClientPhases : r = [client[c] EXCEPT !.phase = phase]
        \/ \E result : r = [client[c] EXCEPT !.phase = "done", !.result = result]
    OBVIOUS
  <2> QED
    BY <2>1, ClientGoes
<1>2. client[c].result = "none" /\ handing[c].phase = "idle" /\ DOMAIN handing[c] = HandingFields
  BY DEF Inv, Asking, Tables
<1>3. r.result \notin {"told", "pursuing"}
  BY <1>1, <1>2 DEF Inv, Asking, ClientFields
<1>4. PICK g : \/ handing' = handing /\ g = handing[c]
               \/ /\ handing' = [handing EXCEPT ![c] = g] /\ g = [handing[c] EXCEPT !.phase = "recovering"]
                  /\ r.phase = "done"
  OBVIOUS
<1>5. DOMAIN g = HandingFields /\ g.phase \in {"idle", "recovering"} /\ (g.phase = "recovering" => r.phase = "done")
  BY <1>2, <1>4 DEF HandingFields
<1>6. Asking(c, r, g)'
  BY <1>1, <1>2, <1>5 DEF Asking
<1>7. Hearing(r)'
  BY <1>1, <1>3, RestingHosts, ClientHears
<1>8. Recovering(c, g)'
  BY <1>5 DEF Recovering
<1> QED
  BY <1>4, <1>5, <1>6, <1>7, <1>8, ClientMoves

LEMMA AskTellKeeps ==
  ASSUME Inv, NEW c \in Clients, AskTell(c) PROVE Inv' /\ HeartMoves
<1>1. client[c].phase = "asked" /\ client[c].tell \in Tells
  BY DEF AskTell, Inv, Asking
<1>2. PICK r : /\ ClientTo(c, r)
               /\ \/ r = [client[c] EXCEPT !.phase = "done", !.result = "busy"]
                  \/ TellOutcome(client[c].tell) # "busy" /\ r = [client[c] EXCEPT !.phase = "waking"]
  BY DEF AskTell, Done, ClientAt
<1>3. /\ HeartMoves /\ Undisturbed /\ Paused
      /\ TellOutcome(client[c].tell) # "busy" => client[c].tell \in Admitted'
  <2>1. PICK t : t = client[c].tell
    OBVIOUS
  <2>2. HeartMoves /\ Undisturbed /\ Paused /\ (TellOutcome(t) # "busy" => t \in Admitted')
    BY <1>1, <2>1, TellRecorded DEF AskTell
  <2> QED
    BY <2>1, <2>2
<1>4. r.phase \in {"done", "waking"} /\ r.tell = client[c].tell
      /\ (r.phase = "waking" => TellOutcome(client[c].tell) # "busy")
  BY <1>2 DEF Inv, Asking, ClientFields
<1>5. UNCHANGED <<leash, host, handing>> /\ HostsRest
  BY HostsUnmoved DEF AskTell, OnlyClient
<1> QED
  BY <1>1, <1>2, <1>3, <1>4, <1>5, ClientTurns DEF ClientPhases

LEMMA AskInterruptKeeps ==
  ASSUME Inv, NEW c \in Clients, AskInterrupt(c) PROVE Inv' /\ HeartMoves
<1>1. client[c].phase = "asked" /\ client[c].tell \in Tells /\ DOMAIN client[c] = ClientFields
      /\ client[c].result = "none" /\ handing[c].phase = "idle"
  BY DEF AskInterrupt, Inv, Asking
<1>2. PICK t, barrier : t = client[c].tell /\ barrier = BarrierOf(t)
  OBVIOUS
<1>3. /\ HeartMoves /\ Undisturbed /\ Paused
      /\ InterruptOutcome(t) = "recorded" => t \in Admitted' /\ (barrier # None => barrier = pause')
  BY <1>1, <1>2, InterruptRecorded DEF AskInterrupt
<1>4. UNCHANGED <<leash, host, handing>> /\ HostsRest
  BY HostsUnmoved DEF AskInterrupt, OnlyClient
<1>5. CASE InterruptOutcome(t) = "recorded" /\ barrier # None
  <2>1. PICK r : r = [client[c] EXCEPT !.phase = "waiting", !.barrier = barrier, !.target = barrier.body]
    OBVIOUS
  <2>2. ClientTo(c, r)
    BY <1>2, <1>5, <2>1 DEF AskInterrupt
  <2>3. DOMAIN r = ClientFields /\ r.phase = "waiting" /\ r.tell = t /\ r.barrier = barrier /\ r.result = "none"
    BY <1>1, <1>2, <2>1 DEF ClientFields
  <2>4. PICK g : g = handing[c]
    OBVIOUS
  <2>5. Asking(c, r, g)'
    BY <1>1, <1>2, <1>3, <1>5, <2>3, <2>4 DEF Asking, ClientPhases
  <2>6. barrier = pause' /\ pause' # None
    BY <1>3, <1>5
  <2>7. Barred(barrier)'
    <3>1. HeartTyped' /\ Guarded(pause)'
      BY <1>3, <2>6, PauseStaysGuarded DEF HeartMoves
    <3> QED
      BY <2>6, <3>1 DEF Barred, HeartTyped, Guarded
  <2>8. Hearing(r)'
    BY <2>3, <2>7 DEF Hearing
  <2>9. Recovering(c, g)'
    BY <1>1, <2>4 DEF Recovering
  <2> QED
    BY <1>3, <1>4, <2>2, <2>4, <2>5, <2>8, <2>9, ClientMoves
<1>6. CASE ~(InterruptOutcome(t) = "recorded" /\ barrier # None)
  <2>1. PICK r : /\ ClientTo(c, r)
                 /\ \/ r = [client[c] EXCEPT !.phase = "done", !.result = "unavailable"]
                    \/ InterruptOutcome(t) = "recorded" /\ r = [client[c] EXCEPT !.phase = "waking"]
    BY <1>2, <1>6 DEF AskInterrupt, Done, ClientAt
  <2>2. r.phase \in {"done", "waking"} /\ r.tell = t /\ (r.phase = "waking" => InterruptOutcome(t) = "recorded")
    BY <1>1, <1>2, <2>1 DEF ClientFields
  <2> QED
    BY <1>1, <1>3, <1>4, <2>1, <2>2, ClientTurns DEF ClientPhases
<1> QED
  BY <1>5, <1>6

LEMMA AskKillKeeps ==
  ASSUME Inv, NEW c \in Clients, AskKill(c) PROVE Inv' /\ HeartMoves
<1>1. client[c].phase = "asked" /\ client[c].op = "kill" /\ DOMAIN client[c] = ClientFields
      /\ client[c].result = "none" /\ handing[c].phase = "idle" /\ client[c].tell \in Tells
  BY DEF AskKill, Inv, Asking
<1>2. HeartMoves /\ Undisturbed /\ Paused
  <2>1. StopOutcome \in {"witnessed", "requested"} => Latest \in DOMAIN bodies
    BY BodiesAre DEF StopOutcome, Inv
  <2>2. stop' \in DOMAIN bodies \cup {None} /\ kills' \subseteq DOMAIN bodies
    BY <2>1 DEF AskKill, RequestStop, Inv, HeartTyped
  <2> QED
    BY <2>2, ControlMoves DEF AskKill, RequestStop, Paused
<1>3. UNCHANGED <<leash, host>> /\ HostsRest
  BY HostsUnmoved DEF AskKill
<1>4. CASE StopOutcome = "requested"
  <2>1. PICK r : r = [client[c] EXCEPT !.phase = "waiting", !.target = Latest]
    OBVIOUS
  <2>2. ClientTo(c, r) /\ UNCHANGED handing
    BY <1>4, <2>1 DEF AskKill
  <2>3. /\ DOMAIN r = ClientFields /\ r.phase = "waiting" /\ r.tell = client[c].tell /\ r.op = "kill"
        /\ r.barrier = client[c].barrier /\ r.result = "none"
    BY <1>1, <2>1 DEF ClientFields
  <2>4. PICK g : g = handing[c]
    OBVIOUS
  <2>5. Asking(c, r, g)'
    BY <1>1, <2>3, <2>4 DEF Asking, ClientPhases
  <2>6. Hearing(r)'
    BY <1>2, <1>3, <2>3, RestingHosts, ClientHears
  <2>7. Recovering(c, g)'
    BY <1>1, <2>4 DEF Recovering
  <2> QED
    BY <1>2, <1>3, <2>2, <2>4, <2>5, <2>6, <2>7, ClientMoves
<1>5. CASE StopOutcome # "requested"
  <2>1. PICK result : /\ Done(c, result)
                      /\ UNCHANGED handing \/ handing' = [handing EXCEPT ![c].phase = "recovering"]
                      /\ result \notin {"told", "pursuing"}
    BY <1>5 DEF AskKill, Killed, StopOutcome
  <2>2. PICK r : r = [client[c] EXCEPT !.phase = "done", !.result = result]
    OBVIOUS
  <2>3. ClientTo(c, r) /\ r.phase = "done"
    BY <1>1, <2>1, <2>2 DEF Done, ClientFields
  <2> QED
    BY <1>1, <1>2, <1>3, <2>1, <2>2, <2>3, ClientTurns
<1> QED
  BY <1>4, <1>5

-----------------------------------------------------------------------------
(* Waiting, judging and hearing                                              *)

LEMMA WaitKeeps ==
  ASSUME Inv, NEW c \in Clients, AcquireLeash(c) \/ GiveUp(c) PROVE Inv' /\ HeartMoves
<1>1. Asking(c, client[c], handing[c]) /\ client[c].phase = "waiting"
  BY DEF AcquireLeash, GiveUp, Inv
<1>2. PICK r : /\ ClientTo(c, r)
               /\ \/ r = [client[c] EXCEPT !.phase = "judging"] /\ leash = None /\ leash' = c
                  \/ r = [client[c] EXCEPT !.phase = "unheld"] /\ leash' = leash
                  \/ r = [client[c] EXCEPT !.phase = "done", !.result = "gave-up"] /\ leash' = leash
  BY DEF AcquireLeash, GiveUp, ClientAt, Done, OnlyClient
<1>3. /\ r.phase \in {"judging", "unheld", "done"} /\ r.tell = client[c].tell /\ r.op = client[c].op
      /\ r.phase = "judging" => leash' = c
  BY <1>1, <1>2 DEF Asking, ClientFields
<1>4. HeartMoves /\ Paused /\ Undisturbed
  BY HeartRests DEF AcquireLeash, GiveUp, Paused
<1>5. leash' = leash \/ (leash \in {None, c} /\ leash' \in {None, c})
  BY <1>2
<1>6. UNCHANGED <<host, handing>> /\ HostsRest
  BY <1>2, HostsUnmoved, BodiesAssumption DEF AcquireLeash, GiveUp, OnlyClient, Hosts
<1>7. r.phase \in {"judging", "unheld"} /\ r.op = "interrupt" => r.tell \in Admitted'
  BY <1>1, <1>3, <1>4 DEF Asking, HeartMoves, Onward
<1> QED
  BY <1>1, <1>2, <1>3, <1>4, <1>5, <1>6, <1>7, ClientTurns DEF ClientPhases

(* Whoever holds the leash without being a host finds nobody inside.         *)
LEMMA NobodyWithin ==
  ASSUME Inv, NEW c \in Clients, leash = c, UNCHANGED host PROVE \A b \in DOMAIN bodies : Abandoned(b)'
BY BodiesAssumption DEF Inv, Hosting, Seat, Abandoned

(* An interrupter or killer has its answer.                                  *)
LEMMA JudgeKeeps ==
  ASSUME Inv, NEW c \in Clients, JudgeUnheld(c) \/ JudgeInterrupt(c) \/ JudgeKill(c) PROVE Inv' /\ HeartMoves
<1>1. Asking(c, client[c], handing[c]) /\ client[c].phase \in {"unheld", "judging"}
  BY DEF JudgeUnheld, JudgeInterrupt, JudgeKill, Inv
<1>2. PICK r : /\ ClientTo(c, r)
               /\ \/ /\ r = [client[c] EXCEPT !.phase = "waking"] /\ client[c].op = "interrupt"
                     /\ UNCHANGED handing
                  \/ /\ \E result : r = [client[c] EXCEPT !.phase = "done", !.result = result]
                                    /\ result \notin {"told", "pursuing"}
                     /\ UNCHANGED handing \/ handing' = [handing EXCEPT ![c].phase = "recovering"]
  <2>1. \/ ClientAt(c, "waking") /\ client[c].op = "interrupt" /\ UNCHANGED handing
        \/ Done(c, "unavailable") /\ UNCHANGED handing
        \/ \E result : Killed(c, result) /\ result \notin {"told", "pursuing"}
    <3>1. CASE JudgeUnheld(c)
      BY <3>1 DEF JudgeUnheld, Completed
    <3>2. CASE JudgeInterrupt(c)
      BY <3>2 DEF JudgeInterrupt, Completed
    <3>3. CASE JudgeKill(c)
      BY <3>3 DEF JudgeKill
    <3> QED
      BY <3>1, <3>2, <3>3
  <2>2. CASE ClientAt(c, "waking") /\ client[c].op = "interrupt" /\ UNCHANGED handing
    BY <2>2 DEF ClientAt
  <2>3. CASE \E result : /\ Done(c, result) /\ result \notin {"told", "pursuing"}
                         /\ UNCHANGED handing \/ handing' = [handing EXCEPT ![c].phase = "recovering"]
    <3>1. PICK result : /\ Done(c, result) /\ result \notin {"told", "pursuing"}
                        /\ UNCHANGED handing \/ handing' = [handing EXCEPT ![c].phase = "recovering"]
      BY <2>3
    <3>2. PICK r : r = [client[c] EXCEPT !.phase = "done", !.result = result]
      OBVIOUS
    <3>3. ClientTo(c, r)
      BY <3>1, <3>2 DEF Done
    <3> QED
      BY <3>1, <3>2, <3>3
  <2> QED
    BY <2>1, <2>2, <2>3 DEF Killed
<1>3. /\ r.phase \in {"waking", "done"} /\ r.tell = client[c].tell
      /\ r.phase = "waking" => client[c].op = "interrupt" /\ UNCHANGED handing
  BY <1>1, <1>2 DEF Asking, ClientFields
<1>4. \/ leash' = leash /\ client[c].phase = "unheld"
      \/ leash = c /\ leash' = None
  BY <1>1 DEF JudgeUnheld, JudgeInterrupt, JudgeKill, Asking
<1>5. UNCHANGED host /\ HostsRest
  BY <1>4, HostsUnmoved, BodiesAssumption DEF JudgeUnheld, JudgeInterrupt, JudgeKill
<1>6. HeartMoves /\ Paused /\ Undisturbed
  <2>1. CASE JudgeUnheld(c)
    BY <2>1, HeartRests DEF JudgeUnheld, Paused
  <2>2. CASE JudgeInterrupt(c)
    <3>1. PICK B : B = client[c].barrier
      OBVIOUS
    <3>2. CompleteInterruptBarrier(B) /\ leash = c
      BY <1>1, <2>2, <3>1 DEF JudgeInterrupt, Asking
    <3> QED
      BY <1>5, <3>2, NobodyWithin, BarrierGoes
  <2>3. CASE JudgeKill(c)
    <3>1. UNCHANGED heartVars \/ SettleStop \/ ClearStop
      BY <2>3 DEF JudgeKill
    <3> QED
      BY <3>1, HeartRests, StopSettles DEF Paused
  <2> QED
    BY <2>1, <2>2, <2>3
<1>7. r.phase = "waking" => r.tell \in Admitted'
  BY <1>1, <1>3, <1>6 DEF Asking, HeartMoves, Onward
<1> QED
  BY <1>1, <1>2, <1>3, <1>4, <1>5, <1>6, <1>7, ClientTurns DEF ClientPhases

(* The teller looks for what comes after the latest Body there is.           *)
LEMMA WakeKeeps ==
  ASSUME Inv, NEW c \in Clients, Wake(c) PROVE Inv' /\ HeartMoves
<1>1. /\ Asking(c, client[c], handing[c]) /\ client[c].phase = "waking" /\ DOMAIN client[c] = ClientFields
      /\ client[c].result = "none" /\ handing[c].phase = "idle" /\ client[c].tell \in Admitted
  BY DEF Wake, Inv, Asking
<1>2. HeartMoves /\ Paused /\ Undisturbed
  BY HeartRests DEF Wake, Paused
<1>3. UNCHANGED <<leash, handing>>
  BY DEF Wake
<1>4. HostsRest
  BY <1>3, HostsUnmoved, HostSpawned DEF Wake
<1>5. CASE Free # {}
  <2>1. PICK r : \E h : r = [client[c] EXCEPT !.phase = "watching", !.target = Latest, !.child = h] /\ ClientTo(c, r)
    BY <1>5 DEF Wake
  <2>2. /\ DOMAIN r = ClientFields /\ r.phase = "watching" /\ r.tell = client[c].tell
        /\ r.barrier = client[c].barrier /\ r.result = "none" /\ r.target = Latest
    BY <1>1, <2>1 DEF ClientFields
  <2>3. PICK g : g = handing[c]
    OBVIOUS
  <2>4. Asking(c, r, g)
    BY <1>1, <2>2, <2>3 DEF Asking, ClientPhases
  <2>5. Hearing(r)
    <3>1. Hearing(client[c]) /\ DOMAIN bodies = 1..Latest /\ Latest \in Nat
      BY BodiesAre DEF Inv
    <3> QED
      BY <2>2, <3>1 DEF Hearing, Pursued
  <2>6. Asking(c, r, g)' /\ Hearing(r)'
    BY <1>2, <1>4, <2>2, <2>4, <2>5, RestingHosts, AskingStays, HearingStays DEF HeartMoves
  <2>7. Recovering(c, g)'
    BY <1>1, <2>3 DEF Recovering
  <2> QED
    BY <1>2, <1>3, <1>4, <2>1, <2>3, <2>6, <2>7, ClientMoves
<1>6. CASE Free = {}
  <2>1. PICK r, result : r = [client[c] EXCEPT !.phase = "done", !.result = result] /\ result = "failed"
    OBVIOUS
  <2>2. ClientTo(c, r) /\ r.phase = "done"
    BY <1>1, <1>6, <2>1 DEF Wake, Done, ClientFields
  <2>3. client[c].phase # "done" /\ r.phase \notin {"watching", "judging", "waking", "waiting", "unheld"}
    BY <1>1, <2>2
  <2>4. \E e : r = [client[c] EXCEPT !.phase = "done", !.result = e] /\ e \notin {"told", "pursuing"}
    <3>1. result \notin {"told", "pursuing"}
      BY <2>1
    <3> QED
      BY <2>1, <3>1
  <2> QED
    BY <1>2, <1>3, <1>4, <2>2, <2>3, <2>4, ClientTurns
<1> QED
  BY <1>5, <1>6

LEMMA HearKeeps ==
  ASSUME Inv, NEW c \in Clients, Hear(c) PROVE Inv' /\ HeartMoves
<1>1. /\ Asking(c, client[c], handing[c]) /\ client[c].phase = "watching" /\ DOMAIN client[c] = ClientFields
      /\ handing[c].phase = "idle" /\ client[c].tell \in Admitted /\ Hearing(client[c])
  BY DEF Hear, Inv, Asking
<1>2. HeartMoves /\ Paused /\ Undisturbed
  BY HeartRests DEF Hear, Paused
<1>3. UNCHANGED <<leash, handing>> /\ HostsRest
  BY HostsUnmoved DEF Hear, OnlyClient
<1>4. PICK r : /\ ClientTo(c, r)
               /\ \/ Told(client[c].tell) /\ r = [client[c] EXCEPT !.phase = "done", !.result = "told"]
                  \/ /\ Latest > client[c].target
                     /\ r = [client[c] EXCEPT !.phase = "done", !.result = "pursuing", !.target = Latest]
                  \/ \E result \in {"held", "failed"} : r = [client[c] EXCEPT !.phase = "done", !.result = result]
  BY DEF Hear, Done, ChildEnd
<1>5. /\ DOMAIN r = ClientFields /\ r.phase = "done" /\ r.tell = client[c].tell /\ r.barrier = client[c].barrier
      /\ \/ r.result = "told" /\ Told(r.tell)
         \/ r.result = "pursuing" /\ r.target = Latest /\ Latest > client[c].target
         \/ r.result \in {"held", "failed"}
  BY <1>1, <1>4 DEF ClientFields
<1>6. PICK g : g = handing[c]
  OBVIOUS
<1>7. Asking(c, r, g)
  BY <1>1, <1>5, <1>6 DEF Asking, ClientPhases
<1>8. Hearing(r)
  <2>1. r.result = "pursuing" => r.target \in DOMAIN bodies /\ (bodies[r.target].end = "exited" => Told(r.tell))
    BY <1>1, <1>5, BodiesAre DEF Inv, Hearing, Pursued
  <2> QED
    BY <1>1, <1>5, <2>1 DEF Hearing
<1>9. Asking(c, r, g)' /\ Hearing(r)'
  BY <1>2, <1>3, <1>5, <1>7, <1>8, RestingHosts, AskingStays, HearingStays DEF HeartMoves
<1>10. Recovering(c, g)'
  BY <1>1, <1>6 DEF Recovering
<1> QED
  BY <1>2, <1>3, <1>4, <1>6, <1>9, <1>10, ClientMoves

-----------------------------------------------------------------------------
(* Crashes                                                                   *)

LEMMA CrashKeeps ==
  ASSUME Inv, NEW a \in Hosts \cup Clients, Crash(a) PROVE Inv' /\ HeartMoves
<1>1. PICK g : g = [phase |-> "idle", body |-> 0, child |-> 0]
  OBVIOUS
<1>2. handing' = [handing EXCEPT ![a] = g] /\ DOMAIN g = HandingFields /\ g.phase = "idle"
  BY <1>1 DEF Crash, HandingFields
<1>3. leash' = leash \/ (leash \in {None, a} /\ leash' \in {None, a})
  BY DEF Crash
<1>4. CASE a \in Hosts /\ HostEnds(a, "crashed", FALSE) /\ UNCHANGED client
  <2>1. HandedByHosts
    BY <1>2, <1>4, BodiesAssumption DEF HandedByHosts, Inv, Tables
  <2> QED
    BY <1>3, <1>4, <2>1, HostGoes DEF Crash
<1>5. CASE a \in Clients /\ Done(a, "crashed") /\ UNCHANGED host
  <2>1. PICK r : r = [client[a] EXCEPT !.phase = "done", !.result = "crashed"]
    OBVIOUS
  <2>2. ClientTo(a, r)
    BY <1>5, <2>1 DEF Done
  <2>3. DOMAIN r = ClientFields /\ r.phase = "done" /\ r.tell = client[a].tell /\ r.tell \in Tells
        /\ r.barrier = client[a].barrier /\ r.result = "crashed"
    BY <1>5, <2>1 DEF Inv, Asking, ClientFields
  <2>4. HeartMoves /\ Paused /\ Undisturbed
    BY HeartRests DEF Crash, Paused
  <2>5. HostsRest
    BY <1>3, <1>5, HostsUnmoved, BodiesAssumption DEF Hosts
  <2>6. Asking(a, r, g)'
    BY <2>3 DEF Asking, ClientPhases
  <2>7. Hearing(r)'
    BY <1>5, <2>3, <2>4, <2>5, RestingHosts, ClientHears
  <2>8. Recovering(a, g)'
    BY <1>2 DEF Recovering
  <2> QED
    BY <1>2, <1>3, <1>5, <2>2, <2>4, <2>5, <2>6, <2>7, <2>8, ClientMoves
<1> QED
  BY <1>4, <1>5 DEF Crash

-----------------------------------------------------------------------------
(* The invariant holds                                                       *)

LEMMA InitInv == Init => Inv
<1> SUFFICES ASSUME Init PROVE Inv
  OBVIOUS
<1> USE DEF Init, HeartInit
<1>1. Admitted = {} /\ Latest = 0 /\ DOMAIN bodies = {} /\ DOMAIN turns = {}
  BY DEF Admitted, Latest
<1>2. HeartTyped /\ TurnsEnd
  BY <1>1 DEF HeartTyped, TurnsEnd
<1>3. 1 \in Hosts
  BY BodiesAssumption DEF Hosts
<1>4. Tables
  BY <1>3 DEF Tables, HandingFields
<1>5. ASSUME NEW h \in Hosts PROVE Hosting(h, host[h])
  <2>1. PICK r : r = host[h]
    OBVIOUS
  <2>2. /\ DOMAIN r = HostFields /\ r.body = 0 /\ r.live = FALSE /\ r.pump = None /\ r.seen.pending = {} /\ r.drained = {}
        /\ r.phase = "idle" \/ (r.phase = "preparing" /\ h = 1)
    BY <2>1 DEF Spawnable, HostFields
  <2>3. Hosting(h, r)
    BY <2>2 DEF Hosting, Seat, Work, Pump, Memory, Phases, Outside, Early, Between, Within, Launching, Failing
  <2> QED
    BY <2>1, <2>3
<1>6. ASSUME NEW c \in Clients PROVE Asking(c, client[c], handing[c]) /\ Hearing(client[c]) /\ Recovering(c, handing[c])
  <2>1. PICK r, g : r = client[c] /\ g = handing[c]
    OBVIOUS
  <2>2. /\ DOMAIN r = ClientFields /\ r.phase = "asked" /\ r.barrier = None /\ r.result = "none" /\ r.tell \in Tells
        /\ g.phase = "idle"
    BY <2>1, BodiesAssumption DEF ClientFields
  <2>3. Asking(c, r, g) /\ Hearing(r) /\ Recovering(c, g)
    BY <2>2 DEF Asking, Hearing, Recovering, ClientPhases
  <2> QED
    BY <2>1, <2>3
<1> QED
  BY <1>2, <1>4, <1>5, <1>6 DEF Inv

LEMMA StutterKeeps ==
  ASSUME Inv, UNCHANGED vars PROVE Inv' /\ HeartMoves
<1>1. HeartMoves /\ Paused /\ Undisturbed
  BY HeartRests DEF vars, Paused
<1>2. HostsRest
  BY HostsUnmoved DEF vars, procVars
<1>3. Tables'
  BY DEF vars, procVars, Inv, Tables
<1>4. 1 \in Hosts /\ 1 \notin Clients
  BY BodiesAssumption DEF Hosts
<1> QED
  BY <1>1, <1>2, <1>3, <1>4, OthersRest DEF vars, procVars

LEMMA HostStepKeeps ==
  ASSUME Inv, NEW h \in Hosts, HostStep(h) PROVE Inv' /\ HeartMoves
<1>1. CASE TakeLeash(h) \/ PrepareBarrier(h) \/ PrepareStop(h) \/ PrepareWork(h) \/ RecordOwnBody(h)
  BY <1>1, LeashTaken, BarrierPrepared, StopPrepared, WorkWanted, RecordKeeps
<1>2. CASE Refresh(h) \/ Observe(h) \/ Choose(h) \/ Begin(h) \/ Bind(h) \/ Start(h) \/ Established(h)
  BY <1>2, RefreshKeeps, ObserveKeeps, ChooseKeeps, BeginKeeps, BindKeeps, StartKeeps, EstablishedKeeps
<1>3. CASE BreakOff(h) \/ Interrupted(h) \/ NoticeTell(h) \/ PumpBind(h) \/ PumpSubmit(h) \/ Receipt(h)
  BY <1>3, BreakOffKeeps, NoticeKeeps, PumpBindKeeps, PumpSubmitKeeps, ReceiptKeeps
<1>4. CASE Complete(h) \/ Retire(h) \/ Hang(h) \/ Persist(h)
  BY <1>4, CompleteKeeps, ProviderRetires, HangKeeps, PersistKeeps
<1>5. CASE FailTurns(h) \/ Break(h) \/ PutDown(h) \/ Close(h) \/ Release(h)
  BY <1>5, FailingKeeps, BreakKeeps, PutDownKeeps, ReleaseKeeps
<1> QED
  BY <1>1, <1>2, <1>3, <1>4, <1>5 DEF HostStep

LEMMA ClientStepKeeps ==
  ASSUME Inv, NEW c \in Clients, ClientStep(c) PROVE Inv' /\ HeartMoves
BY AskTellKeeps, AskInterruptKeeps, AskKillKeeps, WaitKeeps, JudgeKeeps, WakeKeeps, HearKeeps,
   RecoverKeeps, ProbeKeeps, DecideKeeps DEF ClientStep

LEMMA StepKeeps == Inv /\ [Next]_vars => Inv' /\ HeartMoves
<1> SUFFICES ASSUME Inv, [Next]_vars PROVE Inv' /\ HeartMoves
  OBVIOUS
<1>1. ASSUME NEW h \in Hosts, HostStep(h) PROVE Inv' /\ HeartMoves
  BY <1>1, HostStepKeeps
<1>2. ASSUME NEW a \in Hosts \cup Clients, HandingStep(a) \/ Crash(a) PROVE Inv' /\ HeartMoves
  BY <1>2, ProveKeeps, SuccessorKeeps, UndeliveredKeeps, CrashKeeps DEF HandingStep
<1>3. ASSUME NEW c \in Clients, ClientStep(c) PROVE Inv' /\ HeartMoves
  BY <1>3, ClientStepKeeps
<1>4. CASE Terminated \/ UNCHANGED vars
  BY <1>4, StutterKeeps DEF Terminated
<1> QED
  BY <1>1, <1>2, <1>3, <1>4 DEF Next

(* The leash keeps all but its holder out: only the latest Body has a host   *)
(* inside, and only its own Turn open (bodyRun under the leash of the heart, *)
(* insertBodyFact, runBodyTurns).                                            *)
THEOREM OnlyTheLeashHolderIsInside == Spec => []Inv
<1>1. Inv /\ [Next]_vars => Inv'
  BY StepKeeps
<1> QED
  BY <1>1, InitInv, PTL DEF Spec

(* A provider's custody is that of the latest Body, and ends with its record *)
(* unless it hung; a Body that ended has ended its Turns, whoever recorded   *)
(* the end (cancelBodyTurns, breakBody, finishBodyIfIdle, requestStop).      *)
THEOREM CustodyEndsWithItsRecord == Spec => []CustodyEnds
<1>1. ASSUME Inv PROVE CustodyEnds
  <2>1. BodiesTyped
    BY <1>1, BodiesAssumption DEF Inv, HeartTyped, Tables, BodiesTyped, BodyRecords
  <2>2. ASSUME NEW h \in Hosts, host[h].live
        PROVE  host[h].body = Latest /\ (Settled(Latest) => bodies[Latest].hung)
    BY <1>1, <2>2 DEF Inv, Hosting, Work, Settled, Within, Launching
  <2> QED
    BY <1>1, <2>1, <2>2 DEF CustodyEnds, Inv, TurnsEnd
<1> QED
  BY <1>1, OnlyTheLeashHolderIsInside, PTL

(* Whatever a Body notices late, it neither binds nor delivers the Tell that *)
(* interrupted it (isTellProtectedByPause in each transaction on Tells).     *)
THEOREM InterruptedBodyNeverReceives == Spec => []InterruptedNeverReceives
<1>1. ASSUME Inv PROVE InterruptedNeverReceives
  BY <1>1 DEF Inv, Hearing, Barred, Guarded, InterruptedNeverReceives
<1> QED
  BY <1>1, OnlyTheLeashHolderIsInside, PTL

(* A teller that hears "told" was told, and one that hears that a Body       *)
(* pursues its Tell was told if that Body exited (settledWake,               *)
(* finishBodyIfIdle).                                                        *)
THEOREM WakersHearTheTruth == Spec => []HonestWake
<1>1. ASSUME Inv PROVE HonestWake
  BY <1>1 DEF Inv, Hearing, HonestWake
<1> QED
  BY <1>1, OnlyTheLeashHolderIsInside, PTL

(* No Tell is delivered that a provider took before: not to the next Turn of *)
(* its Body, nor to the next Body (the refresh between Turns, tellStateSql). *)
THEOREM TellsAreTakenOnce == Spec => TakenOnce
<1>1. Inv /\ [Next]_vars => [\A d \in delivered' \ delivered : ~Taken(d[1])]_vars
  BY StepKeeps DEF HeartMoves, Touched
<1> QED
  BY <1>1, OnlyTheLeashHolderIsInside, PTL DEF Spec, TakenOnce

-----------------------------------------------------------------------------
(* The timeline: from every h, pruning keeps a set of rows that is Closed    *)
(* (RetainedIsClosed), and a heart that is Sound stays so when a fact is     *)
(* Appended, when something is Noted about its Tells and when it is Trimmed  *)
(* to a closed set.  Every transaction is one or two of the former and then  *)
(* the latter.                                                               *)

CONSTANTS Activities, Outcomes, Limit, Slack, TailBudget, VoiceBudget, MaxFacts, MaxBodies
VARIABLES heart, body, barrier, decided

(* The same heart with the pruning of its timeline, a model of its own.      *)
H == INSTANCE HeartTimeline WITH pause <- barrier

(* Among subsets of a finite set there is a smallest one.                    *)
LEMMA SmallestSubset ==
  ASSUME NEW S, IsFiniteSet(S), NEW T, T \subseteq SUBSET S, T # {}
  PROVE  \E X \in T : \A Y \in T : Y \subseteq X => Y = X
<1>1. T \subseteq FiniteSubsetsOf(S)
  BY FS_Subset DEF FiniteSubsetsOf
<1>2. PICK X \in T : \A Y \in T : <<Y, X>> \notin StrictSubsetOrdering(S)
  BY <1>1, FS_StrictSubsetOrderingWellFounded, WFMin
<1> QED
  BY <1>2 DEF StrictSubsetOrdering

(* An operation that shrinks has a place where it cannot shrink further.    *)
LEMMA SmallestImage ==
  ASSUME NEW S, IsFiniteSet(S), NEW f, \A s \in S : f[s] \subseteq S
  PROVE  (\E s : s \in S) => \E m \in S : \A x \in S : f[x] \subseteq f[m] => f[x] = f[m]
<1> DEFINE T == {f[s] : s \in S}
<1>1. (\E s : s \in S) => \E X \in T : \A Y \in T : Y \subseteq X => Y = X
  <2>1. T \subseteq SUBSET S
    OBVIOUS
  <2>2. (\E s : s \in S) => T # {}
    OBVIOUS
  <2> HIDE DEF T
  <2> QED
    BY <2>1, <2>2, SmallestSubset
<1> SUFFICES ASSUME \E s : s \in S PROVE \E m \in S : \A x \in S : f[x] \subseteq f[m] => f[x] = f[m]
  OBVIOUS
<1>2. PICK X \in T : \A Y \in T : Y \subseteq X => Y = X
  BY <1>1
<1>3. PICK m \in S : X = f[m]
  BY <1>2
<1>4. ASSUME NEW x \in S, f[x] \subseteq f[m] PROVE f[x] = f[m]
  <2>1. f[x] \in T
    OBVIOUS
  <2> QED
    BY <2>1, <1>2, <1>3, <1>4
<1> QED
  BY <1>4

(* A finite set of numbers has a least and a greatest element.               *)
LEMMA Least ==
  ASSUME NEW S, IsFiniteSet(S)
  PROVE  S \subseteq Int => S = {} \/ \E m \in S : \A x \in S : m <= x
<1> DEFINE f == [s \in S |-> {r \in S : r < s}]
<1>1. (\E s : s \in S) => \E m \in S : \A x \in S : f[x] \subseteq f[m] => f[x] = f[m]
  <2>1. \A s \in S : f[s] \subseteq S
    OBVIOUS
  <2> HIDE DEF f
  <2> QED
    BY <2>1, SmallestImage
<1> SUFFICES ASSUME S \subseteq Int, S # {} PROVE \E m \in S : \A x \in S : m <= x
  OBVIOUS
<1>2. PICK m \in S : \A x \in S : f[x] \subseteq f[m] => f[x] = f[m]
  <2>1. \E s : s \in S
    OBVIOUS
  <2> HIDE DEF f
  <2> QED
    BY <1>1, <2>1
<1>3. ASSUME NEW x \in S, x < m PROVE FALSE
  <2>1. x \in f[m] /\ x \notin f[x]
    <3>1. x \in Int
      BY <1>3
    <3> QED
      BY <3>1, <1>3
  <2>2. ASSUME NEW r \in S, r < x PROVE r < m
    <3>1. r \in Int /\ x \in Int /\ m \in Int
      BY <2>2
    <3> QED
      BY <3>1, <2>2, <1>3
  <2>3. f[x] \subseteq f[m]
    BY <2>2
  <2> QED
    BY <1>2, <2>1, <2>3
<1>4. ASSUME NEW x \in S PROVE m <= x
  <2>1. x \in Int /\ m \in Int
    OBVIOUS
  <2> QED
    BY <1>3, <2>1
<1> QED
  BY <1>4

LEMMA Greatest ==
  ASSUME NEW S, IsFiniteSet(S)
  PROVE  S \subseteq Int => S = {} \/ \E m \in S : \A x \in S : m >= x
<1> DEFINE f == [s \in S |-> {r \in S : r > s}]
<1>1. (\E s : s \in S) => \E m \in S : \A x \in S : f[x] \subseteq f[m] => f[x] = f[m]
  <2>1. \A s \in S : f[s] \subseteq S
    OBVIOUS
  <2> HIDE DEF f
  <2> QED
    BY <2>1, SmallestImage
<1> SUFFICES ASSUME S \subseteq Int, S # {} PROVE \E m \in S : \A x \in S : m >= x
  OBVIOUS
<1>2. PICK m \in S : \A x \in S : f[x] \subseteq f[m] => f[x] = f[m]
  <2>1. \E s : s \in S
    OBVIOUS
  <2> HIDE DEF f
  <2> QED
    BY <1>1, <2>1
<1>3. ASSUME NEW x \in S, x > m PROVE FALSE
  <2>1. x \in f[m] /\ x \notin f[x]
    <3>1. x \in Int
      BY <1>3
    <3> QED
      BY <3>1, <1>3
  <2>2. ASSUME NEW r \in S, r > x PROVE r > m
    <3>1. r \in Int /\ x \in Int /\ m \in Int
      BY <2>2
    <3> QED
      BY <3>1, <2>2, <1>3
  <2>3. f[x] \subseteq f[m]
    BY <2>2
  <2> QED
    BY <1>2, <2>1, <2>3
<1>4. ASSUME NEW x \in S PROVE m >= x
  <2>1. x \in Int /\ m \in Int
    OBVIOUS
  <2> QED
    BY <1>3, <2>1
<1> QED
  BY <1>4

(* Of many rows there are exactly so many from some row on.                  *)
LEMMA CutoffExists ==
  ASSUME NEW S, IsFiniteSet(S), NEW n \in Nat \ {0}
  PROVE  S \subseteq Int /\ Cardinality(S) >= n => \E s \in S : Cardinality({r \in S : r >= s}) = n
<1> DEFINE Upper(X) == \A x \in X : \A y \in S : y >= x => y \in X
           T == {X \in SUBSET S : Upper(X) /\ Cardinality(X) >= n}
<1>1. T # {} => \E X \in T : \A Y \in T : Y \subseteq X => Y = X
  <2>1. T \subseteq SUBSET S
    OBVIOUS
  <2> HIDE DEF T
  <2> QED
    BY <2>1, SmallestSubset
<1> SUFFICES ASSUME S \subseteq Int, Cardinality(S) >= n
             PROVE  \E s \in S : Cardinality({r \in S : r >= s}) = n
  OBVIOUS
<1>2. PICK X \in T : \A Y \in T : Y \subseteq X => Y = X
  <2>1. S \in T
    OBVIOUS
  <2>2. T # {}
    BY <2>1
  <2> HIDE DEF T
  <2> QED
    BY <1>1, <2>2
<1>3. X \subseteq S /\ Upper(X) /\ Cardinality(X) >= n
  OBVIOUS
<1>4. IsFiniteSet(X) /\ Cardinality(X) \in Nat
  BY <1>3, FS_Subset, FS_CardinalityType
<1>5. X # {}
  BY <1>3, FS_EmptySet
<1>6. PICK m \in X : \A x \in X : m <= x
  <2>1. X \subseteq Int
    BY <1>3
  <2> QED
    BY <2>1, <1>4, <1>5, Least
<1>7. m \in Int /\ m \in S
  BY <1>3
<1>8. X = {r \in S : r >= m}
  BY <1>3, <1>6, <1>7
<1>9. Upper(X \ {m})
  <2>1. ASSUME NEW x \in X \ {m}, NEW y \in S, y >= x PROVE y \in X \ {m}
    <3>1. x \in Int /\ y \in Int /\ x > m
      BY <1>3, <1>6, <1>7
    <3> QED
      BY <3>1, <2>1, <1>3, <1>7
  <2> QED
    BY <2>1
<1>10. Cardinality(X \ {m}) = Cardinality(X) - 1
  BY <1>4, FS_RemoveElement
<1>11. X \ {m} \notin T
  <2>1. X \ {m} \subseteq X /\ X \ {m} # X
    OBVIOUS
  <2> QED
    BY <1>2, <2>1
<1>12. Cardinality(X) = n
  BY <1>3, <1>4, <1>9, <1>11, <1>10
<1> QED
  BY <1>7, <1>8, <1>12

(***************************************************************************)
(* The invariant.                                                          *)
(***************************************************************************)
Kinds == {"turn-start", "call", "activity", "report", "turn-end", "tell"}
Whats == Nat \cup Activities \cup Tells \cup Outcomes \cup {None, "canceled"}
Routes == {"launch", "unavailable", "required", "fenced"}
Facts == [kind : Kinds, turn : Nat, what : Whats]
Hearts == [facts : Seq(Facts), rows : SUBSET Nat, ends : SUBSET (Nat \X Nat),
           deliveries : SUBSET [tell : Whats, turn : Nat, route : Routes],
           receipts : SUBSET Whats, members : SUBSET (Nat \X Whats), checked : Nat]

OfTurns == {"call", "activity", "report", "turn-end"}

(* A fact of a Turn comes after the start of that Turn.                    *)
Chronicle(h) ==
    \A s \in DOMAIN h.facts : h.facts[s].kind \in OfTurns =>
        LET t == h.facts[s].turn
        IN  t \in DOMAIN h.facts /\ t < s /\ h.facts[t].kind = "turn-start"

EndsAreKept(h) ==
    \A e \in h.ends :
        /\ e[1] \in h.rows /\ e[2] \in h.rows
        /\ h.facts[e[2]].kind = "turn-end" /\ h.facts[e[2]].turn = e[1]

Decodes(h) ==
    \A s \in h.rows :
        /\ h.facts[s].kind \in {"call", "activity", "report"} => h.facts[s].turn \in h.rows
        /\ h.facts[s].kind = "turn-end" => <<h.facts[s].turn, s>> \in h.ends
        /\ h.facts[s].kind = "turn-start" => \A e \in H!Ends(h.facts, s) : <<s, e>> \in h.ends

OpenIsKept(h) ==
    \A s \in H!Turns(h.facts) : H!Ends(h.facts, s) = {} =>
        /\ s \in h.rows
        /\ \A c \in H!Kind(h.facts, "call") : h.facts[c].turn = s => c \in h.rows

TellOf(h, s) == h.facts[s].kind = "tell"

(* A retained Tell is the last of its identity, and the Turn of a delivery *)
(* ends after it.                                                          *)
TellsAreKept(h) ==
    /\ h.receipts \subseteq H!TellRows(h)
    /\ H!Held(h) \subseteq H!TellRows(h)
    /\ \A s \in h.rows : \A r \in DOMAIN h.facts :
           TellOf(h, s) /\ TellOf(h, r) /\ h.facts[r].what = h.facts[s].what => r <= s
DeliveriesAreKept(h) ==
    \A d \in h.deliveries :
        /\ d.turn \in H!TurnRows(h) /\ d.tell \in H!TellRows(h)
        /\ \A s \in h.rows, e \in h.ends :
               TellOf(h, s) /\ h.facts[s].what = d.tell /\ e[1] = d.turn => s < e[2]

Sound(h) ==
    /\ h.rows \subseteq DOMAIN h.facts
    /\ Chronicle(h) /\ EndsAreKept(h) /\ Decodes(h) /\ OpenIsKept(h)
    /\ TellsAreKept(h) /\ DeliveriesAreKept(h)

Barrier(h, p, n) ==
    p # None =>
        /\ p.body = n
        /\ p.tell \in H!TellRows(h) /\ p.tell \notin h.receipts /\ p.tell \notin H!Held(h)
        /\ \A d \in h.deliveries : d.tell # p.tell

Kept == Sound(heart) /\ Barrier(heart, barrier, body.n)

(***************************************************************************)
(* The latest of some places.                                              *)
(***************************************************************************)
LEMMA LatestIs ==
  ASSUME NEW S, NEW m \in S, \A x \in S : x \in Int /\ m >= x
  PROVE  H!Latest(S) = m
<1>1. H!Max(S) \in S /\ \A y \in S : H!Max(S) >= y
  BY DEF H!Max
<1>2. H!Max(S) \in Int /\ m \in Int /\ H!Max(S) >= m /\ m >= H!Max(S)
  BY <1>1
<1>3. H!Max(S) = m
  BY <1>2
<1> QED
  BY <1>3 DEF H!Latest

LEMMA LatestIn ==
  ASSUME NEW S, IsFiniteSet(S)
  PROVE  S \subseteq Int /\ S # {} => H!Latest(S) \in S /\ \A x \in S : H!Latest(S) >= x
<1>1. S \subseteq Int => S = {} \/ \E m \in S : \A x \in S : m >= x
  BY Greatest
<1> SUFFICES ASSUME S \subseteq Int, S # {} PROVE H!Latest(S) \in S /\ \A x \in S : H!Latest(S) >= x
  OBVIOUS
<1>2. \E m \in S : \A x \in S : m >= x
  BY <1>1
<1>3. H!Max(S) \in S /\ \A y \in S : H!Max(S) >= y
  BY <1>2 DEF H!Max
<1> QED
  BY <1>3 DEF H!Latest

LEMMA FactsHaveNumbers ==
  ASSUME NEW h \in Hearts
  PROVE  /\ h.facts \in Seq(Facts) /\ Len(h.facts) \in Nat /\ DOMAIN h.facts = 1..Len(h.facts)
         /\ \A s \in DOMAIN h.facts : s \in Nat /\ h.facts[s] \in Facts
<1>1. h.facts \in Seq(Facts)
  BY DEF Hearts
<1> QED
  BY <1>1

LEMMA PlacesAreFinite ==
  ASSUME NEW h \in Hearts, NEW S
  PROVE  S \subseteq DOMAIN h.facts => IsFiniteSet(S) /\ S \subseteq Int
<1>1. Len(h.facts) \in Nat /\ DOMAIN h.facts = 1..Len(h.facts)
  BY FactsHaveNumbers
<1>2. IsFiniteSet(1..Len(h.facts))
  BY <1>1, FS_Interval
<1> QED
  BY <1>1, <1>2, FS_Subset

(* A retained Tell is where its identity is.                               *)
LEMMA PlaceOfATell ==
  ASSUME NEW h \in Hearts, Sound(h), NEW s \in h.rows, TellOf(h, s)
  PROVE  H!Place(h, h.facts[s].what) = s
<1> DEFINE P == {r \in H!Kind(h.facts, "tell") : h.facts[r].what = h.facts[s].what}
<1>1. s \in P
  BY DEF Sound, TellOf, H!Kind
<1>2. ASSUME NEW x \in P PROVE x \in Int /\ s >= x
  <2>1. x \in DOMAIN h.facts /\ x \in Nat /\ s \in Nat
    BY FactsHaveNumbers DEF H!Kind, Sound
  <2>2. x <= s
    BY <2>1 DEF Sound, TellsAreKept, TellOf, H!Kind
  <2> QED
    BY <2>1, <2>2
<1>3. H!Latest(P) = s
  <2> HIDE DEF P
  <2> QED
    BY <1>1, <1>2, LatestIs
<1> QED
  BY <1>3 DEF H!Place

LEMMA TellHasARow ==
  ASSUME NEW h \in Hearts, Sound(h), NEW t \in H!TellRows(h)
  PROVE  \E s \in h.rows : TellOf(h, s) /\ h.facts[s].what = t /\ H!Place(h, t) = s
<1>1. PICK s \in h.rows : TellOf(h, s) /\ h.facts[s].what = t
  BY DEF H!TellRows, H!RowsOf, TellOf
<1> QED
  BY <1>1, PlaceOfATell

(* The open Turn of the latest Body, when there is one.                    *)
LEMMA CurrentIsOpen ==
  ASSUME heart \in Hearts, Sound(heart), H!Current # 0
  PROVE  H!Current \in H!TurnRows(heart) /\ H!Current \notin H!TurnsEnded(heart)
<1>1. H!OpenTurns(heart) \subseteq H!TurnRows(heart) /\ H!OpenTurns(heart) \cap H!TurnsEnded(heart) = {}
  BY DEF H!OpenTurns
<1>2. H!OpenTurns(heart) \subseteq DOMAIN heart.facts
  BY <1>1 DEF H!TurnRows, H!RowsOf, Sound
<1>3. H!OpenTurns(heart) # {}
  BY DEF H!Current, H!Latest
<1>4. IsFiniteSet(H!OpenTurns(heart)) /\ H!OpenTurns(heart) \subseteq Int
  BY <1>2, PlacesAreFinite
<1>5. H!Current \in H!OpenTurns(heart)
  BY <1>3, <1>4, LatestIn DEF H!Current
<1> QED
  BY <1>1, <1>5

(***************************************************************************)
(* A fact is added.                                                        *)
(***************************************************************************)
Appended(h, h2) ==
    LET n == Len(h.facts) + 1
        fact == h2.facts[n]
    IN  /\ h2 \in Hearts /\ Len(h2.facts) = n
        /\ \A s \in DOMAIN h.facts : h2.facts[s] = h.facts[s]
        /\ h2.rows = h.rows \cup {n}
        /\ h2.ends = h.ends \cup (IF fact.kind = "turn-end" THEN {<<fact.turn, n>>} ELSE {})
        /\ h2.deliveries = h.deliveries /\ h2.receipts = h.receipts /\ h2.members = h.members
        /\ fact.kind \in OfTurns => fact.turn \in H!TurnRows(h) \ H!TurnsEnded(h)
        /\ fact.kind = "tell" => fact.what \notin H!TellRows(h)

LEMMA AppendedFacts ==
  ASSUME NEW h \in Hearts, Sound(h), NEW h2, Appended(h, h2), NEW n, n = Len(h.facts) + 1
  PROVE  /\ n \in Nat /\ n \notin DOMAIN h.facts /\ DOMAIN h2.facts = DOMAIN h.facts \cup {n}
         /\ \A s \in DOMAIN h.facts : s \in Nat /\ s < n
         /\ h2.facts[n] \in Facts
         /\ h.rows \subseteq DOMAIN h.facts
<1>1. h2 \in Hearts /\ Len(h2.facts) = n
  BY DEF Appended
<1>2. h.facts \in Seq(Facts) /\ h2.facts \in Seq(Facts)
  BY <1>1, FactsHaveNumbers
<1>3. Len(h.facts) \in Nat /\ DOMAIN h.facts = 1..Len(h.facts) /\ DOMAIN h2.facts = 1..Len(h2.facts)
  BY <1>1, FactsHaveNumbers
<1>4. h2.facts[n] \in Facts
  BY <1>1, <1>2, <1>3
<1> QED
  BY <1>1, <1>3, <1>4 DEF Sound

LEMMA AppendedChronicle ==
  ASSUME NEW h \in Hearts, Sound(h), NEW h2, Appended(h, h2)
  PROVE  Chronicle(h2)
<1> DEFINE n == Len(h.facts) + 1
<1>0. /\ n \in Nat /\ n \notin DOMAIN h.facts /\ DOMAIN h2.facts = DOMAIN h.facts \cup {n}
      /\ \A s \in DOMAIN h.facts : s \in Nat /\ s < n
      /\ h.rows \subseteq DOMAIN h.facts
  BY AppendedFacts
<1>a. /\ \A s \in DOMAIN h.facts : h2.facts[s] = h.facts[s]
      /\ h2.facts[n].kind \in OfTurns => h2.facts[n].turn \in H!TurnRows(h)
  BY DEF Appended
<1> HIDE DEF n
<1>1. ASSUME NEW s \in DOMAIN h.facts, h2.facts[s].kind \in OfTurns
      PROVE  /\ h2.facts[s].turn \in DOMAIN h2.facts /\ h2.facts[s].turn < s
             /\ h2.facts[h2.facts[s].turn].kind = "turn-start"
  BY <1>0, <1>a, <1>1 DEF Sound, Chronicle
<1>2. ASSUME h2.facts[n].kind \in OfTurns
      PROVE  /\ h2.facts[n].turn \in DOMAIN h2.facts /\ h2.facts[n].turn < n
             /\ h2.facts[h2.facts[n].turn].kind = "turn-start"
  BY <1>0, <1>a, <1>2 DEF H!TurnRows, H!RowsOf
<1> QED
  BY <1>0, <1>1, <1>2 DEF Chronicle

LEMMA AppendedEnds ==
  ASSUME NEW h \in Hearts, Sound(h), NEW h2, Appended(h, h2)
  PROVE  EndsAreKept(h2)
<1> DEFINE n == Len(h.facts) + 1
<1>0. n \notin DOMAIN h.facts /\ h.rows \subseteq DOMAIN h.facts
  BY AppendedFacts
<1>a. /\ \A s \in DOMAIN h.facts : h2.facts[s] = h.facts[s]
      /\ h2.rows = h.rows \cup {n}
      /\ h2.ends = h.ends \cup (IF h2.facts[n].kind = "turn-end" THEN {<<h2.facts[n].turn, n>>} ELSE {})
      /\ h2.facts[n].kind \in OfTurns => h2.facts[n].turn \in H!TurnRows(h)
  BY DEF Appended
<1> HIDE DEF n
<1>1. ASSUME NEW e \in h.ends
      PROVE  /\ e[1] \in h2.rows /\ e[2] \in h2.rows
             /\ h2.facts[e[2]].kind = "turn-end" /\ h2.facts[e[2]].turn = e[1]
  BY <1>0, <1>a DEF Sound, EndsAreKept
<1>2. h2.facts[n].kind = "turn-end" => h2.facts[n].turn \in h2.rows
  BY <1>a DEF OfTurns, H!TurnRows, H!RowsOf
<1> QED
  BY <1>1, <1>2, <1>a DEF EndsAreKept

LEMMA AppendedDecodes ==
  ASSUME NEW h \in Hearts, Sound(h), NEW h2, Appended(h, h2)
  PROVE  Decodes(h2)
<1> DEFINE n == Len(h.facts) + 1
<1>0. /\ n \in Nat /\ n \notin DOMAIN h.facts /\ DOMAIN h2.facts = DOMAIN h.facts \cup {n}
      /\ \A s \in DOMAIN h.facts : s \in Nat /\ s < n
      /\ h.rows \subseteq DOMAIN h.facts
  BY AppendedFacts
<1>a. /\ \A s \in DOMAIN h.facts : h2.facts[s] = h.facts[s]
      /\ h2.rows = h.rows \cup {n}
      /\ h2.ends = h.ends \cup (IF h2.facts[n].kind = "turn-end" THEN {<<h2.facts[n].turn, n>>} ELSE {})
      /\ h2.facts[n].kind \in OfTurns => h2.facts[n].turn \in H!TurnRows(h)
  BY DEF Appended
<1> HIDE DEF n
<1>1. ASSUME NEW s \in h.rows
      PROVE  /\ h2.facts[s].kind \in {"call", "activity", "report"} => h2.facts[s].turn \in h2.rows
             /\ h2.facts[s].kind = "turn-end" => <<h2.facts[s].turn, s>> \in h2.ends
  BY <1>0, <1>a DEF Sound, Decodes
<1>2. ASSUME NEW s \in h.rows, h2.facts[s].kind = "turn-start", NEW e \in H!Ends(h2.facts, s)
      PROVE  <<s, e>> \in h2.ends
  <2>1. CASE e = n
    BY <2>1, <1>a, <1>2 DEF H!Ends, H!Kind
  <2>2. CASE e # n
    <3>1. e \in H!Ends(h.facts, s) /\ h.facts[s].kind = "turn-start"
      BY <2>2, <1>0, <1>a, <1>2 DEF H!Ends, H!Kind
    <3> QED
      BY <3>1, <1>a DEF Sound, Decodes
  <2> QED
    BY <2>1, <2>2
<1>3. h2.facts[n].kind \in {"call", "activity", "report"} => h2.facts[n].turn \in h2.rows
  BY <1>a DEF OfTurns, H!TurnRows, H!RowsOf
<1>4. h2.facts[n].kind = "turn-end" => <<h2.facts[n].turn, n>> \in h2.ends
  BY <1>a
<1>5. ASSUME h2.facts[n].kind = "turn-start", NEW e \in H!Ends(h2.facts, n)
      PROVE  FALSE
  <2>1. e \in DOMAIN h.facts /\ h.facts[e].kind = "turn-end" /\ h.facts[e].turn = n
    BY <1>0, <1>a, <1>5 DEF H!Ends, H!Kind
  <2> QED
    BY <2>1, <1>0 DEF Sound, Chronicle, OfTurns
<1> QED
  BY <1>1, <1>2, <1>3, <1>4, <1>5, <1>a DEF Decodes

LEMMA AppendedOpen ==
  ASSUME NEW h \in Hearts, Sound(h), NEW h2, Appended(h, h2)
  PROVE  OpenIsKept(h2)
<1> DEFINE n == Len(h.facts) + 1
<1>0. /\ n \in Nat /\ n \notin DOMAIN h.facts /\ DOMAIN h2.facts = DOMAIN h.facts \cup {n}
      /\ \A s \in DOMAIN h.facts : s \in Nat /\ s < n
  BY AppendedFacts
<1>a. /\ \A s \in DOMAIN h.facts : h2.facts[s] = h.facts[s]
      /\ h2.rows = h.rows \cup {n}
  BY DEF Appended
<1> HIDE DEF n
<1>1. ASSUME NEW s \in H!Turns(h2.facts), H!Ends(h2.facts, s) = {}, s # n
      PROVE  /\ s \in h2.rows
             /\ \A c \in H!Kind(h2.facts, "call") : h2.facts[c].turn = s => c \in h2.rows
  <2>1. s \in H!Turns(h.facts) /\ H!Ends(h.facts, s) \subseteq H!Ends(h2.facts, s)
    BY <1>0, <1>a, <1>1 DEF H!Turns, H!Ends, H!Kind
  <2>2. s \in h.rows /\ \A c \in H!Kind(h.facts, "call") : h.facts[c].turn = s => c \in h.rows
    BY <2>1, <1>1 DEF Sound, OpenIsKept
  <2> QED
    BY <2>2, <1>0, <1>a DEF H!Kind
<1>2. ASSUME NEW c \in H!Kind(h2.facts, "call"), h2.facts[c].turn = n PROVE c \in h2.rows
  <2>1. CASE c = n
    BY <2>1, <1>a
  <2>2. CASE c # n
    <3>1. c \in DOMAIN h.facts /\ h.facts[c].kind = "call" /\ h.facts[c].turn = n
      BY <2>2, <1>0, <1>a, <1>2 DEF H!Kind
    <3> QED
      BY <3>1, <1>0 DEF Sound, Chronicle, OfTurns
  <2> QED
    BY <2>1, <2>2
<1> QED
  BY <1>1, <1>2, <1>a DEF OpenIsKept

LEMMA AppendedTells ==
  ASSUME NEW h \in Hearts, Sound(h), NEW h2, Appended(h, h2)
  PROVE  /\ H!TellRows(h) \subseteq H!TellRows(h2) /\ H!TurnRows(h) \subseteq H!TurnRows(h2)
         /\ TellsAreKept(h2) /\ DeliveriesAreKept(h2)
<1> DEFINE n == Len(h.facts) + 1
<1>0. /\ n \in Nat /\ n \notin DOMAIN h.facts /\ DOMAIN h2.facts = DOMAIN h.facts \cup {n}
      /\ \A s \in DOMAIN h.facts : s \in Nat /\ s < n
      /\ h.rows \subseteq DOMAIN h.facts
  BY AppendedFacts
<1>a. /\ \A s \in DOMAIN h.facts : h2.facts[s] = h.facts[s]
      /\ h2.rows = h.rows \cup {n}
      /\ h2.ends = h.ends \cup (IF h2.facts[n].kind = "turn-end" THEN {<<h2.facts[n].turn, n>>} ELSE {})
      /\ h2.deliveries = h.deliveries /\ h2.receipts = h.receipts /\ h2.members = h.members
      /\ h2.facts[n].kind = "tell" => h2.facts[n].what \notin H!TellRows(h)
  BY DEF Appended
<1> HIDE DEF n
<1>1. H!TellRows(h) \subseteq H!TellRows(h2) /\ H!TurnRows(h) \subseteq H!TurnRows(h2)
  BY <1>0, <1>a DEF H!TellRows, H!TurnRows, H!RowsOf
<1>2. h2.receipts \subseteq H!TellRows(h2) /\ H!Held(h2) \subseteq H!TellRows(h2)
  BY <1>1, <1>a DEF Sound, TellsAreKept, H!Held
<1>3. ASSUME NEW s \in h2.rows, NEW r \in DOMAIN h2.facts,
             TellOf(h2, s), TellOf(h2, r), h2.facts[r].what = h2.facts[s].what
      PROVE  r <= s
  <2>1. CASE s = n
    BY <2>1, <1>0, <1>a
  <2>2. CASE s # n
    <3>1. s \in h.rows /\ TellOf(h, s) /\ h2.facts[s] = h.facts[s]
      BY <2>2, <1>0, <1>a, <1>3 DEF TellOf
    <3>2. h.facts[s].what \in H!TellRows(h)
      BY <3>1 DEF H!TellRows, H!RowsOf, TellOf
    <3>3. r \in DOMAIN h.facts /\ TellOf(h, r) /\ h2.facts[r] = h.facts[r]
      BY <3>1, <3>2, <1>0, <1>a, <1>3 DEF TellOf
    <3> QED
      BY <3>1, <3>3, <1>3 DEF Sound, TellsAreKept
  <2> QED
    BY <2>1, <2>2
<1>4. ASSUME NEW d \in h2.deliveries
      PROVE  /\ d.turn \in H!TurnRows(h2) /\ d.tell \in H!TellRows(h2)
             /\ \A s \in h2.rows, e \in h2.ends :
                    TellOf(h2, s) /\ h2.facts[s].what = d.tell /\ e[1] = d.turn => s < e[2]
  <2>1. d \in h.deliveries /\ d.turn \in H!TurnRows(h) /\ d.tell \in H!TellRows(h)
    BY <1>a DEF Sound, DeliveriesAreKept
  <2>2. ASSUME NEW s \in h2.rows, NEW e \in h2.ends, TellOf(h2, s), h2.facts[s].what = d.tell, e[1] = d.turn
        PROVE  s < e[2]
    <3>1. s \in h.rows /\ TellOf(h, s) /\ h2.facts[s] = h.facts[s]
      BY <2>1, <2>2, <1>0, <1>a DEF TellOf
    <3>2. CASE e \in h.ends
      BY <3>1, <3>2, <2>1, <2>2 DEF Sound, DeliveriesAreKept
    <3>3. CASE e \notin h.ends
      <4>1. e[2] = n
        BY <3>3, <2>2, <1>a
      <4> QED
        BY <4>1, <3>1, <1>0
    <3> QED
      BY <3>2, <3>3
  <2> QED
    BY <2>1, <2>2, <1>1
<1> QED
  BY <1>1, <1>2, <1>3, <1>4 DEF TellsAreKept, DeliveriesAreKept

LEMMA AppendedSound ==
  ASSUME NEW h \in Hearts, Sound(h), NEW h2, Appended(h, h2)
  PROVE  h2 \in Hearts /\ Sound(h2)
<1>1. h2.rows \subseteq DOMAIN h2.facts
  BY AppendedFacts DEF Appended
<1>2. h2 \in Hearts
  BY DEF Appended
<1> QED
  BY <1>1, <1>2, AppendedChronicle, AppendedEnds, AppendedDecodes, AppendedOpen, AppendedTells DEF Sound

(***************************************************************************)
(* What pruning keeps.                                                     *)
(***************************************************************************)
Waiting(h) == H!Pending(h) \cup H!Held(h)
Retained(h, c) == {s \in h.rows : s >= c \/ s \in H!Protected(h, c)}

LEMMA SameCardinality == \A S : H!Cardinality(S) = Cardinality(S)
BY DEF H!Cardinality, Cardinality

LEMMA CutoffIsARow ==
  ASSUME NEW h \in Hearts, Sound(h), H!TimelineAssumption, ~(Cardinality(h.rows) < Limit)
  PROVE  H!Cutoff(h) \in h.rows /\ H!Cutoff(h) \in Nat
<1>1. IsFiniteSet(h.rows) /\ h.rows \subseteq Int
  BY PlacesAreFinite DEF Sound
<1>2. Cardinality(h.rows) \in Nat /\ Limit \in Nat \ {0}
  BY <1>1, FS_CardinalityType DEF H!TimelineAssumption
<1>3. Cardinality(h.rows) >= Limit
  BY <1>2
<1>4. \E s \in h.rows : Cardinality({r \in h.rows : r >= s}) = Limit
  BY <1>1, <1>2, <1>3, CutoffExists
<1>5. H!Cutoff(h) \in h.rows
  BY <1>4, SameCardinality DEF H!Cutoff
<1> QED
  BY <1>5 DEF Hearts

LEMMA KeptTurns ==
  ASSUME NEW h \in Hearts, Sound(h), NEW c
  PROVE  /\ H!ProtectedTurns(h, c) \subseteq H!TurnRows(h)
         /\ H!TurnRows(h) \ H!TurnsEnded(h) \subseteq H!ProtectedTurns(h, c)
         /\ \A s \in H!RowsOf(h, {"call", "activity", "report"}) : s >= c => h.facts[s].turn \in H!ProtectedTurns(h, c)
         /\ \A e \in h.ends : e[2] >= c => e[1] \in H!ProtectedTurns(h, c)
         /\ \A d \in h.deliveries : d.tell \in Waiting(h) => d.turn \in H!ProtectedTurns(h, c)
<1>1. ASSUME NEW s \in H!RowsOf(h, {"call", "activity", "report"}) PROVE h.facts[s].turn \in H!TurnRows(h)
  BY DEF H!RowsOf, Sound, Decodes, Chronicle, OfTurns, H!TurnRows
<1>2. ASSUME NEW e \in h.ends PROVE e[1] \in H!TurnRows(h)
  BY DEF H!RowsOf, Sound, EndsAreKept, Chronicle, OfTurns, H!TurnRows
<1>3. \A d \in h.deliveries : d.turn \in H!TurnRows(h)
  BY DEF Sound, DeliveriesAreKept
<1> QED
  BY <1>1, <1>2, <1>3 DEF H!ProtectedTurns, Waiting

LEMMA ProtectedRows ==
  ASSUME NEW h \in Hearts, Sound(h), NEW c, NEW s \in H!Protected(h, c)
  PROVE  /\ h.facts[s].kind = "turn-start" => s \in H!ProtectedTurns(h, c)
         /\ h.facts[s].kind \in {"call", "turn-end"} => h.facts[s].turn \in H!ProtectedTurns(h, c)
         /\ h.facts[s].kind = "tell" => h.facts[s].what \in Waiting(h)
         /\ h.facts[s].kind \notin {"activity", "report"}
<1>1. CASE s \in H!ProtectedTurns(h, c)
  <2>1. h.facts[s].kind = "turn-start"
    BY <1>1, KeptTurns DEF H!TurnRows, H!RowsOf
  <2> QED
    BY <1>1, <2>1
<1>2. CASE s \in {r \in H!RowsOf(h, {"call"}) : h.facts[r].turn \in H!ProtectedTurns(h, c)}
  BY <1>2 DEF H!RowsOf
<1>3. CASE s \in {e[2] : e \in {e \in h.ends : e[1] \in H!ProtectedTurns(h, c)}}
  BY <1>3 DEF Sound, EndsAreKept
<1>4. CASE s \in {H!Place(h, t) : t \in H!Pending(h) \cup H!Held(h)}
  <2>1. PICK t \in H!Pending(h) \cup H!Held(h) : s = H!Place(h, t)
    BY <1>4
  <2>2. t \in H!TellRows(h)
    BY <2>1 DEF H!Pending, Sound, TellsAreKept
  <2>3. h.facts[s].kind = "tell" /\ h.facts[s].what = t
    BY <2>1, <2>2, TellHasARow DEF TellOf
  <2> QED
    BY <2>1, <2>3 DEF Waiting
<1> QED
  BY <1>1, <1>2, <1>3, <1>4 DEF H!Protected

LEMMA RowsProtected ==
  ASSUME NEW h \in Hearts, Sound(h), NEW c
  PROVE  /\ H!ProtectedTurns(h, c) \subseteq H!Protected(h, c)
         /\ \A s \in H!RowsOf(h, {"call"}) : h.facts[s].turn \in H!ProtectedTurns(h, c) => s \in H!Protected(h, c)
         /\ \A e \in h.ends : e[1] \in H!ProtectedTurns(h, c) => e[2] \in H!Protected(h, c)
         /\ \A t \in Waiting(h) : H!Place(h, t) \in H!Protected(h, c)
BY DEF H!Protected, Waiting

(* What is kept is closed: open Turns with their calls, the Turn of every  *)
(* fact, the ends of every Turn, the Tells that something waits for and    *)
(* the proofs of every Tell; and of the activities the last ones.          *)
Closed(h, R) ==
    /\ R \subseteq h.rows
    /\ H!TurnRows(h) \ H!TurnsEnded(h) \subseteq R
    /\ \A s \in R : h.facts[s].kind \in {"call", "activity", "report"} => h.facts[s].turn \in R
    /\ \A e \in h.ends : e[1] \in R <=> e[2] \in R
    /\ \A s \in h.rows : h.facts[s].kind = "call" /\ h.facts[s].turn \notin H!TurnsEnded(h) => s \in R
    /\ \A s \in h.rows : TellOf(h, s) /\ h.facts[s].what \in Waiting(h) => s \in R
    /\ \A s \in R, d \in h.deliveries : TellOf(h, s) /\ h.facts[s].what = d.tell => d.turn \in R
    /\ \A s \in R, r \in h.rows :
           h.facts[s].kind = "activity" /\ h.facts[r].kind = "activity" /\ s < r => r \in R

LEMMA RetainedIsClosed ==
  ASSUME NEW h \in Hearts, Sound(h), NEW c \in Nat
  PROVE  Closed(h, Retained(h, c))
<1> DEFINE R == Retained(h, c)
           K == H!ProtectedTurns(h, c)
<1>0. \A s \in h.rows : s \in Nat /\ s \in DOMAIN h.facts
  BY FactsHaveNumbers DEF Sound
<1>k. K \subseteq R
  BY KeptTurns, RowsProtected DEF Retained, H!TurnRows, H!RowsOf
<1>1. H!TurnRows(h) \ H!TurnsEnded(h) \subseteq R
  BY <1>k, KeptTurns
<1>2. ASSUME NEW s \in R, h.facts[s].kind \in {"call", "activity", "report"}
      PROVE  h.facts[s].turn \in R
  <2>1. CASE s >= c
    BY <1>2, <2>1, <1>k, KeptTurns DEF Retained, H!RowsOf
  <2>2. CASE s \in H!Protected(h, c)
    BY <1>2, <2>2, <1>k, ProtectedRows DEF Retained
  <2> QED
    BY <2>1, <2>2, <1>2 DEF Retained
<1>3. ASSUME NEW e \in h.ends, e[2] \in R PROVE e[1] \in R
  <2>1. h.facts[e[2]].kind = "turn-end" /\ h.facts[e[2]].turn = e[1]
    BY DEF Sound, EndsAreKept
  <2>2. CASE e[2] >= c
    BY <2>2, <1>k, KeptTurns
  <2>3. CASE e[2] \in H!Protected(h, c)
    BY <2>1, <2>3, <1>k, ProtectedRows
  <2> QED
    BY <2>2, <2>3, <1>3 DEF Retained
<1>4. ASSUME NEW e \in h.ends, e[1] \in R PROVE e[2] \in R
  <2>1. e[1] \in h.rows /\ e[2] \in h.rows /\ h.facts[e[2]].kind = "turn-end" /\ h.facts[e[2]].turn = e[1]
    BY DEF Sound, EndsAreKept
  <2>2. e[1] < e[2] /\ h.facts[e[1]].kind = "turn-start"
    BY <2>1, <1>0 DEF Sound, Chronicle, OfTurns
  <2>3. CASE e[1] >= c
    <3>1. e[2] >= c
      BY <2>1, <2>2, <2>3, <1>0
    <3> QED
      BY <3>1, <2>1 DEF Retained
  <2>4. CASE e[1] \in H!Protected(h, c)
    <3>1. e[1] \in K
      BY <2>2, <2>4, ProtectedRows
    <3>2. e[2] \in H!Protected(h, c)
      BY <3>1, RowsProtected
    <3> QED
      BY <3>2, <2>1 DEF Retained
  <2> QED
    BY <2>3, <2>4, <1>4 DEF Retained
<1>5. ASSUME NEW s \in h.rows, h.facts[s].kind = "call", h.facts[s].turn \notin H!TurnsEnded(h)
      PROVE  s \in R
  <2>1. h.facts[s].turn \in H!TurnRows(h)
    BY <1>5, <1>0 DEF H!TurnRows, H!RowsOf, Sound, Decodes, Chronicle, OfTurns
  <2>2. h.facts[s].turn \in K
    BY <2>1, <1>5, KeptTurns
  <2> QED
    BY <2>2, <1>5, RowsProtected DEF Retained, H!RowsOf
<1>6. ASSUME NEW s \in h.rows, TellOf(h, s), h.facts[s].what \in Waiting(h) PROVE s \in R
  BY <1>6, PlaceOfATell, RowsProtected DEF Retained
<1>7. ASSUME NEW s \in R, NEW d \in h.deliveries, TellOf(h, s), h.facts[s].what = d.tell
      PROVE  d.turn \in R
  <2>1. s \in h.rows /\ d.turn \in H!TurnRows(h)
    BY DEF Retained, Sound, DeliveriesAreKept
  <2>2. CASE d.turn \notin H!TurnsEnded(h)
    BY <2>1, <2>2, <1>1
  <2>3. CASE d.turn \in H!TurnsEnded(h) /\ s >= c
    <3>1. PICK e \in h.ends : e[1] = d.turn
      BY <2>3 DEF H!TurnsEnded
    <3>2. s < e[2] /\ e[2] \in h.rows
      BY <3>1, <2>1, <1>7 DEF Sound, DeliveriesAreKept, EndsAreKept
    <3>3. e[2] >= c
      BY <3>2, <2>1, <2>3, <1>0
    <3> QED
      BY <3>1, <3>3, <1>k, KeptTurns
  <2>4. CASE s \in H!Protected(h, c)
    <3>1. d.tell \in Waiting(h)
      BY <2>4, <1>7, ProtectedRows DEF TellOf
    <3> QED
      BY <3>1, <1>k, KeptTurns
  <2> QED
    BY <2>2, <2>3, <2>4, <1>7 DEF Retained
<1>8. ASSUME NEW s \in R, NEW r \in h.rows,
             h.facts[s].kind = "activity", h.facts[r].kind = "activity", s < r
      PROVE  r \in R
  <2>1. s \in h.rows /\ s >= c
    BY <1>8, ProtectedRows DEF Retained
  <2>2. r >= c
    BY <2>1, <1>8, <1>0
  <2> QED
    BY <2>2 DEF Retained
<1>9. R \subseteq h.rows
  BY DEF Retained
<1>10. \A e \in h.ends : e[1] \in R <=> e[2] \in R
  BY <1>3, <1>4
<1> QED
  BY <1>1, <1>2, <1>5, <1>6, <1>7, <1>8, <1>9, <1>10 DEF Closed

(***************************************************************************)
(* What pruning leaves.                                                    *)
(***************************************************************************)
Trimmed(h, h2) ==
    /\ h2 \in Hearts
    /\ h2.facts = h.facts /\ h2.members = h.members
    /\ Closed(h, h2.rows)
    /\ h2.ends = {e \in h.ends : e[1] \in h2.rows /\ e[2] \in h2.rows}
    /\ h2.deliveries = {d \in h.deliveries : d.turn \in h2.rows /\ H!Place(h, d.tell) \in h2.rows}
    /\ h2.receipts = {t \in h.receipts : H!Place(h, t) \in h2.rows}

LEMMA AllIsClosed ==
  ASSUME NEW h \in Hearts, Sound(h)
  PROVE  Closed(h, h.rows)
<1>1. H!TurnRows(h) \ H!TurnsEnded(h) \subseteq h.rows
  BY DEF H!TurnRows, H!RowsOf
<1>2. \A s \in h.rows : h.facts[s].kind \in {"call", "activity", "report"} => h.facts[s].turn \in h.rows
  BY DEF Sound, Decodes
<1>3. \A e \in h.ends : e[1] \in h.rows <=> e[2] \in h.rows
  BY DEF Sound, EndsAreKept
<1>4. \A d \in h.deliveries : d.turn \in h.rows
  BY DEF Sound, DeliveriesAreKept, H!TurnRows, H!RowsOf
<1> QED
  BY <1>1, <1>2, <1>3, <1>4 DEF Closed

LEMMA PruneTrims ==
  ASSUME NEW h \in Hearts, Sound(h), H!TimelineAssumption, NEW released \in BOOLEAN
  PROVE  Trimmed(h, H!Prune(h, released))
<1> DEFINE checked == [h EXCEPT !.checked = Len(h.facts)]
<1>1. \A d \in h.deliveries : d.turn \in h.rows /\ d.tell \in H!TellRows(h)
  BY DEF Sound, DeliveriesAreKept, H!TurnRows, H!RowsOf
<1>2. \A t \in H!TellRows(h) : H!Place(h, t) \in h.rows
  BY TellHasARow
<1>3. \A t \in h.receipts : t \in H!TellRows(h)
  BY DEF Sound, TellsAreKept
<1>4. \A e \in h.ends : e[1] \in h.rows /\ e[2] \in h.rows
  BY DEF Sound, EndsAreKept
<1>5. Trimmed(h, h)
  BY <1>1, <1>2, <1>3, <1>4, AllIsClosed DEF Trimmed
<1>6. /\ checked \in Hearts /\ checked.facts = h.facts /\ checked.rows = h.rows /\ checked.ends = h.ends
      /\ checked.deliveries = h.deliveries /\ checked.receipts = h.receipts /\ checked.members = h.members
  BY FactsHaveNumbers DEF Hearts
<1>7. Trimmed(h, checked)
  <2> HIDE DEF checked
  <2> QED
    BY <1>5, <1>6 DEF Trimmed
<1>8. ASSUME ~(Cardinality(h.rows) < Limit)
      PROVE  Trimmed(h, H!Cascade(checked, {s \in h.rows : s >= H!Cutoff(h) \/ s \in H!Protected(h, H!Cutoff(h))}))
  <2> DEFINE R == Retained(h, H!Cutoff(h))
             h2 == H!Cascade(checked, R)
  <2>1. Closed(h, R)
    BY <1>8, CutoffIsARow, RetainedIsClosed
  <2>2. R \subseteq h.rows
    BY DEF Retained
  <2>3. \A t : H!Place(checked, t) = H!Place(h, t)
    BY <1>6 DEF H!Place
  <2>4. /\ h2.facts = h.facts /\ h2.members = h.members /\ h2.rows = R
        /\ h2.ends = {e \in h.ends : e[1] \in R /\ e[2] \in R}
        /\ h2.deliveries = {d \in h.deliveries : d.turn \in R /\ H!Place(checked, d.tell) \in R}
        /\ h2.receipts = {t \in h.receipts : H!Place(checked, t) \in R}
        /\ h2 \in Hearts
    <3> HIDE DEF checked, R
    <3> QED
      BY <1>6, <2>2 DEF H!Cascade, Hearts
  <2>5. Trimmed(h, h2)
    <3> HIDE DEF checked, R, h2
    <3> QED
      BY <2>1, <2>3, <2>4 DEF Trimmed
  <2> QED
    BY <2>5 DEF Retained
<1> HIDE DEF checked
<1>9. H!Prune(h, released) \in {h, checked, H!Cascade(checked, {s \in h.rows : s >= H!Cutoff(h) \/ s \in H!Protected(h, H!Cutoff(h))})}
  BY DEF H!Prune, checked
<1>10. H!Prune(h, released) \notin {h, checked} => ~(Cardinality(h.rows) < Limit)
  BY SameCardinality DEF H!Prune, checked
<1> QED
  BY <1>5, <1>7, <1>8, <1>9, <1>10

LEMMA TrimmedTells ==
  ASSUME NEW h \in Hearts, Sound(h), NEW h2, Trimmed(h, h2)
  PROVE  /\ H!TellRows(h2) \subseteq H!TellRows(h)
         /\ \A t \in H!TellRows(h2) : H!Told(h2, t) <=> H!Told(h, t)
         /\ Waiting(h) \subseteq H!TellRows(h2)
         /\ H!Held(h2) = H!Held(h)
         /\ h2.receipts \subseteq H!TellRows(h2)
         /\ \A d \in h2.deliveries : d.tell \in H!TellRows(h2)
<1>1. h2.facts = h.facts /\ h2.rows \subseteq h.rows /\ H!Held(h2) = H!Held(h)
  BY DEF Trimmed, Closed, H!Held
<1>2. H!TellRows(h2) \subseteq H!TellRows(h)
  BY <1>1 DEF H!TellRows, H!RowsOf
<1>3. ASSUME NEW t \in H!TellRows(h), H!Place(h, t) \in h2.rows PROVE t \in H!TellRows(h2)
  BY <1>1, <1>3, TellHasARow DEF H!TellRows, H!RowsOf, TellOf
<1>4. ASSUME NEW t \in Waiting(h) PROVE t \in H!TellRows(h2)
  <2>1. t \in H!TellRows(h)
    BY DEF Waiting, H!Pending, Sound, TellsAreKept
  <2>2. PICK s \in h.rows : TellOf(h, s) /\ h.facts[s].what = t /\ H!Place(h, t) = s
    BY <2>1, TellHasARow
  <2>3. s \in h2.rows
    BY <2>2 DEF Trimmed, Closed
  <2> QED
    BY <1>3, <2>1, <2>2, <2>3
<1>5. ASSUME NEW t \in H!TellRows(h2), H!Told(h, t) PROVE H!Told(h2, t)
  <2>1. PICK s \in h2.rows : h2.facts[s].kind = "tell" /\ h2.facts[s].what = t
    BY DEF H!TellRows, H!RowsOf
  <2>2. s \in h.rows /\ TellOf(h, s) /\ h.facts[s].what = t
    BY <1>1, <2>1 DEF TellOf
  <2>3. H!Place(h, t) = s
    BY <2>2, PlaceOfATell
  <2>4. CASE t \in h.receipts
    BY <2>1, <2>3, <2>4 DEF H!Told, Trimmed
  <2>5. CASE t \notin h.receipts
    <3>1. PICK d \in h.deliveries : d.tell = t /\ d.route \in {"launch", "unavailable", "fenced"}
      BY <1>5, <2>5 DEF H!Told
    <3>2. d.turn \in h2.rows
      BY <3>1, <2>1, <2>2 DEF Trimmed, Closed
    <3>3. d \in h2.deliveries
      BY <3>1, <3>2, <2>1, <2>3 DEF Trimmed
    <3> QED
      BY <3>1, <3>3 DEF H!Told
  <2> QED
    BY <2>4, <2>5
<1>6. \A t : H!Told(h2, t) => H!Told(h, t)
  BY DEF H!Told, Trimmed
<1>7. h2.receipts \subseteq H!TellRows(h2)
  BY <1>3 DEF Trimmed, Sound, TellsAreKept
<1>8. \A d \in h2.deliveries : d.tell \in H!TellRows(h2)
  BY <1>3 DEF Trimmed, Sound, DeliveriesAreKept
<1> QED
  BY <1>1, <1>2, <1>4, <1>5, <1>6, <1>7, <1>8

LEMMA TrimmedSound ==
  ASSUME NEW h \in Hearts, Sound(h), NEW h2, Trimmed(h, h2)
  PROVE  h2 \in Hearts /\ Sound(h2)
<1>a. /\ h2 \in Hearts /\ h2.facts = h.facts /\ h2.rows \subseteq h.rows
      /\ Closed(h, h2.rows)
      /\ h2.ends = {e \in h.ends : e[1] \in h2.rows /\ e[2] \in h2.rows}
      /\ h2.deliveries \subseteq h.deliveries /\ \A d \in h2.deliveries : d.turn \in h2.rows
  BY DEF Trimmed, Closed
<1>1. h2.rows \subseteq DOMAIN h2.facts /\ Chronicle(h2)
  BY <1>a DEF Sound, Chronicle
<1>2. EndsAreKept(h2)
  BY <1>a DEF Sound, EndsAreKept
<1>3. Decodes(h2)
  <2>1. ASSUME NEW s \in h2.rows, h2.facts[s].kind \in {"call", "activity", "report"}
        PROVE  h2.facts[s].turn \in h2.rows
    BY <1>a, <2>1 DEF Closed
  <2>2. ASSUME NEW s \in h2.rows, h2.facts[s].kind = "turn-end" PROVE <<h2.facts[s].turn, s>> \in h2.ends
    <3>1. <<h.facts[s].turn, s>> \in h.ends
      BY <1>a, <2>2 DEF Sound, Decodes
    <3>2. \A e \in h.ends : e[1] \in h2.rows <=> e[2] \in h2.rows
      BY <1>a DEF Closed
    <3> QED
      BY <3>1, <3>2, <1>a
  <2>3. ASSUME NEW s \in h2.rows, h2.facts[s].kind = "turn-start", NEW e \in H!Ends(h2.facts, s)
        PROVE  <<s, e>> \in h2.ends
    <3>1. <<s, e>> \in h.ends
      BY <1>a, <2>3 DEF Sound, Decodes
    <3>2. \A x \in h.ends : x[1] \in h2.rows <=> x[2] \in h2.rows
      BY <1>a DEF Closed
    <3> QED
      BY <3>1, <3>2, <1>a
  <2> QED
    BY <2>1, <2>2, <2>3 DEF Decodes
<1>4. OpenIsKept(h2)
  <2>1. ASSUME NEW s \in H!Turns(h2.facts), H!Ends(h2.facts, s) = {}
        PROVE  /\ s \in h2.rows
               /\ \A c \in H!Kind(h2.facts, "call") : h2.facts[c].turn = s => c \in h2.rows
    <3>1. s \in H!Turns(h.facts) /\ H!Ends(h.facts, s) = {}
      BY <1>a, <2>1
    <3>2. s \in h.rows /\ \A c \in H!Kind(h.facts, "call") : h.facts[c].turn = s => c \in h.rows
      BY <3>1 DEF Sound, OpenIsKept
    <3>3. s \notin H!TurnsEnded(h)
      BY <3>1 DEF H!TurnsEnded, Sound, EndsAreKept, H!Ends, H!Kind
    <3>4. s \in H!TurnRows(h)
      BY <3>1, <3>2 DEF H!Turns, H!Kind, H!TurnRows, H!RowsOf
    <3> QED
      BY <3>2, <3>3, <3>4, <1>a DEF Closed, H!Kind
  <2> QED
    BY <2>1 DEF OpenIsKept
<1>5. TellsAreKept(h2)
  <2>1. h2.receipts \subseteq H!TellRows(h2) /\ H!Held(h2) \subseteq H!TellRows(h2)
    BY TrimmedTells DEF Waiting
  <2>2. ASSUME NEW s \in h2.rows, NEW r \in DOMAIN h2.facts,
               TellOf(h2, s), TellOf(h2, r), h2.facts[r].what = h2.facts[s].what
        PROVE  r <= s
    BY <1>a, <2>2 DEF Sound, TellsAreKept, TellOf
  <2> QED
    BY <2>1, <2>2 DEF TellsAreKept
<1>6. DeliveriesAreKept(h2)
  <2>1. ASSUME NEW d \in h2.deliveries PROVE d.turn \in H!TurnRows(h2) /\ d.tell \in H!TellRows(h2)
    <3>1. d.turn \in H!TurnRows(h)
      BY <1>a DEF Sound, DeliveriesAreKept
    <3> QED
      BY <3>1, <1>a, TrimmedTells DEF H!TurnRows, H!RowsOf
  <2>2. ASSUME NEW d \in h2.deliveries, NEW s \in h2.rows, NEW e \in h2.ends,
               TellOf(h2, s), h2.facts[s].what = d.tell, e[1] = d.turn
        PROVE  s < e[2]
    BY <1>a, <2>2 DEF Sound, DeliveriesAreKept, TellOf
  <2> QED
    BY <2>1, <2>2 DEF DeliveriesAreKept
<1> QED
  BY <1>a, <1>1, <1>2, <1>3, <1>4, <1>5, <1>6 DEF Sound

(***************************************************************************)
(* What is known of Tells is written down.                                 *)
(***************************************************************************)
Noted(h, h2) ==
    /\ h2 \in Hearts
    /\ h2.facts = h.facts /\ h2.rows = h.rows /\ h2.ends = h.ends
    /\ h2.receipts \subseteq H!TellRows(h) /\ H!Held(h2) \subseteq H!TellRows(h)
    /\ \A d \in h2.deliveries :
          \/ d.turn \in H!TurnRows(h) \ H!TurnsEnded(h) /\ d.tell \in H!TellRows(h)
          \/ \E old \in h.deliveries : old.tell = d.tell /\ old.turn = d.turn

LEMMA NotedSound ==
  ASSUME NEW h \in Hearts, Sound(h), NEW h2, Noted(h, h2)
  PROVE  /\ h2 \in Hearts /\ Sound(h2)
         /\ H!TellRows(h2) = H!TellRows(h) /\ H!TurnRows(h2) = H!TurnRows(h) /\ H!TurnsEnded(h2) = H!TurnsEnded(h)
<1>1. /\ h2 \in Hearts /\ h2.facts = h.facts /\ h2.rows = h.rows /\ h2.ends = h.ends
      /\ h2.receipts \subseteq H!TellRows(h) /\ H!Held(h2) \subseteq H!TellRows(h)
  BY DEF Noted
<1>2. H!TellRows(h2) = H!TellRows(h) /\ H!TurnRows(h2) = H!TurnRows(h) /\ H!TurnsEnded(h2) = H!TurnsEnded(h)
  BY <1>1 DEF H!TellRows, H!TurnRows, H!RowsOf, H!TurnsEnded
<1>3. h2.rows \subseteq DOMAIN h2.facts /\ Chronicle(h2) /\ EndsAreKept(h2) /\ Decodes(h2) /\ OpenIsKept(h2)
  BY <1>1 DEF Sound, Chronicle, EndsAreKept, Decodes, OpenIsKept
<1>4. TellsAreKept(h2)
  BY <1>1, <1>2 DEF Sound, TellsAreKept, TellOf
<1>5. DeliveriesAreKept(h2)
  <2>1. ASSUME NEW d \in h2.deliveries
        PROVE  /\ d.turn \in H!TurnRows(h) /\ d.tell \in H!TellRows(h)
               /\ \A s \in h.rows, e \in h.ends :
                      TellOf(h, s) /\ h.facts[s].what = d.tell /\ e[1] = d.turn => s < e[2]
    <3>1. CASE d.turn \in H!TurnRows(h) \ H!TurnsEnded(h) /\ d.tell \in H!TellRows(h)
      BY <3>1 DEF H!TurnsEnded
    <3>2. CASE \E old \in h.deliveries : old.tell = d.tell /\ old.turn = d.turn
      BY <3>2 DEF Sound, DeliveriesAreKept
    <3> QED
      BY <3>1, <3>2 DEF Noted
  <2> QED
    BY <2>1, <1>1, <1>2 DEF DeliveriesAreKept, TellOf
<1> QED
  BY <1>1, <1>2, <1>3, <1>4, <1>5 DEF Sound

LEMMA AppendedTold ==
  ASSUME NEW h \in Hearts, Sound(h), NEW h2, Appended(h, h2)
  PROVE  \A t : H!Told(h2, t) <=> H!Told(h, t)
BY DEF H!Told, Appended

LEMMA AppendedBarrier ==
  ASSUME NEW h \in Hearts, Sound(h), NEW h2, Appended(h, h2), NEW p, NEW n, Barrier(h, p, n)
  PROVE  Barrier(h2, p, n)
<1>1. h2.deliveries = h.deliveries /\ h2.receipts = h.receipts /\ H!Held(h2) = H!Held(h)
  BY DEF Appended, H!Held
<1> QED
  BY <1>1, AppendedTells DEF Barrier

LEMMA TrimmedBarrier ==
  ASSUME NEW h \in Hearts, Sound(h), NEW h2, Trimmed(h, h2), NEW p, NEW n, Barrier(h, p, n)
  PROVE  Barrier(h2, p, n)
<1> SUFFICES ASSUME p # None PROVE Barrier(h2, p, n)
  BY DEF Barrier
<1>1. p.tell \in H!TellRows(h) /\ ~H!Told(h, p.tell)
  BY DEF Barrier, H!Told
<1>2. p.tell \in H!TellRows(h2) /\ H!Held(h2) = H!Held(h)
  BY <1>1, TrimmedTells DEF Waiting, H!Pending
<1> QED
  BY <1>2 DEF Barrier, Trimmed

(* A row is followed by none that is older.                                *)
Later(h, m) ==
    /\ \A s \in DOMAIN h.facts : s \in DOMAIN m.facts /\ m.facts[s] = h.facts[s]
    /\ m.rows = h.rows \cup (DOMAIN m.facts \ DOMAIN h.facts)
    /\ \A s \in DOMAIN m.facts \ DOMAIN h.facts :
          s > Len(h.facts) /\ (m.facts[s].kind \in OfTurns => m.facts[s].turn \notin H!TurnsEnded(h))

LEMMA AppendedIsLater ==
  ASSUME NEW h \in Hearts, Sound(h), NEW h2, Appended(h, h2)
  PROVE  Later(h, h2)
<1> DEFINE n == Len(h.facts) + 1
<1>0. /\ n \in Nat /\ n \notin DOMAIN h.facts /\ DOMAIN h2.facts = DOMAIN h.facts \cup {n}
      /\ n > Len(h.facts)
  BY AppendedFacts, FactsHaveNumbers
<1>a. /\ \A s \in DOMAIN h.facts : h2.facts[s] = h.facts[s]
      /\ h2.rows = h.rows \cup {n}
      /\ h2.facts[n].kind \in OfTurns => h2.facts[n].turn \notin H!TurnsEnded(h)
  BY DEF Appended
<1> HIDE DEF n
<1> QED
  BY <1>0, <1>a DEF Later

LEMMA NotedIsLater ==
  ASSUME NEW h, NEW h2, Noted(h, h2)
  PROVE  Later(h, h2)
BY DEF Noted, Later

LEMMA AppendedTwiceIsLater ==
  ASSUME NEW h \in Hearts, Sound(h), NEW h1, Appended(h, h1), NEW h2, Appended(h1, h2)
  PROVE  Later(h, h2)
<1>1. h1 \in Hearts /\ Sound(h1)
  BY AppendedSound
<1>2. Later(h, h1) /\ Later(h1, h2)
  BY <1>1, AppendedIsLater
<1>3. Len(h1.facts) = Len(h.facts) + 1 /\ Len(h.facts) \in Nat /\ h.ends \subseteq h1.ends
  BY FactsHaveNumbers DEF Appended
<1>4. H!TurnsEnded(h) \subseteq H!TurnsEnded(h1)
  BY <1>3 DEF H!TurnsEnded
<1>5. \A s \in DOMAIN h2.facts : s \in Nat
  <2>1. h2 \in Hearts
    BY DEF Appended
  <2> QED
    BY <2>1, FactsHaveNumbers
<1>6. ASSUME NEW s \in DOMAIN h2.facts \ DOMAIN h.facts
      PROVE  s > Len(h.facts) /\ (h2.facts[s].kind \in OfTurns => h2.facts[s].turn \notin H!TurnsEnded(h))
  <2>1. CASE s \in DOMAIN h1.facts
    BY <2>1, <1>2 DEF Later
  <2>2. CASE s \notin DOMAIN h1.facts
    <3>1. s > Len(h1.facts) /\ (h2.facts[s].kind \in OfTurns => h2.facts[s].turn \notin H!TurnsEnded(h1))
      BY <2>2, <1>2 DEF Later
    <3> QED
      BY <3>1, <1>3, <1>4, <1>5
  <2> QED
    BY <2>1, <2>2
<1>7. /\ \A s \in DOMAIN h.facts : s \in DOMAIN h2.facts /\ h2.facts[s] = h.facts[s]
      /\ h2.rows = h.rows \cup (DOMAIN h2.facts \ DOMAIN h.facts)
  BY <1>2 DEF Later
<1> QED
  BY <1>6, <1>7 DEF Later

(***************************************************************************)
(* Rows are only added at the end.                                         *)
(***************************************************************************)
LEMMA TimelineFacts ==
  ASSUME NEW h \in Hearts, Sound(h)
  PROVE  /\ DOMAIN H!Timeline(h) = h.rows
         /\ \A s \in h.rows : /\ H!Timeline(h)[s].kind = h.facts[s].kind
                              /\ H!Timeline(h)[s].turn = h.facts[s].turn
                              /\ H!Timeline(h)[s].what = h.facts[s].what
                              /\ s \in DOMAIN h.facts /\ s \in Nat /\ s # 0 /\ s <= Len(h.facts)
<1>1. \A s \in h.rows : s \in DOMAIN h.facts /\ s \in Nat /\ s # 0 /\ s <= Len(h.facts)
  BY FactsHaveNumbers DEF Sound
<1> QED
  BY <1>1 DEF H!Timeline, H!Slice, H!Decoded

(* The steps between two timelines: facts are added, then some are pruned. *)
Grown(h, m, h2) ==
    /\ h \in Hearts /\ Sound(h) /\ m \in Hearts /\ Sound(m) /\ h2 \in Hearts /\ Sound(h2)
    /\ Later(h, m) /\ Trimmed(m, h2)

LEMMA GrownFacts ==
  ASSUME NEW h, NEW m, NEW h2, Grown(h, m, h2)
  PROVE  /\ \A s \in h2.rows : s \in DOMAIN h.facts => s \in h.rows
         /\ \A s \in DOMAIN h.facts : s \in DOMAIN h2.facts /\ h2.facts[s] = h.facts[s]
         /\ h.rows \subseteq m.rows /\ h2.rows \subseteq m.rows /\ h2.facts = m.facts
         /\ \A s \in h2.rows : s \notin DOMAIN h.facts =>
               s > Len(h.facts) /\ (h2.facts[s].kind \in OfTurns => h2.facts[s].turn \notin H!TurnsEnded(h))
<1>1. h2.rows \subseteq m.rows /\ h2.facts = m.facts /\ m.rows \subseteq DOMAIN m.facts
  BY DEF Grown, Trimmed, Closed, Sound
<1> QED
  BY <1>1 DEF Grown, Later

LEMMA FoldedStays ==
  ASSUME NEW h, NEW m, NEW h2, Grown(h, m, h2), NEW s \in h2.rows, s \in DOMAIN h.facts,
         h.facts[s].kind = "activity", H!Folded(H!Timeline(h), h.facts[s].turn) = s
  PROVE  H!Folded(H!Timeline(h2), h.facts[s].turn) = s
<1> DEFINE f == H!Timeline(h)
           f2 == H!Timeline(h2)
           t == h.facts[s].turn
           E == H!Events(f, t, H!Said)
           E2 == H!Events(f2, t, H!Said)
<1>0. h \in Hearts /\ Sound(h) /\ h2 \in Hearts /\ Sound(h2)
  BY DEF Grown
<1>1. /\ DOMAIN f = h.rows /\ DOMAIN f2 = h2.rows
      /\ \A x \in h.rows : f[x].kind = h.facts[x].kind /\ f[x].turn = h.facts[x].turn /\ f[x].what = h.facts[x].what
      /\ \A x \in h2.rows : f2[x].kind = h2.facts[x].kind /\ f2[x].turn = h2.facts[x].turn /\ f2[x].what = h2.facts[x].what
      /\ \A x \in h.rows : x \in DOMAIN h.facts /\ x \in Nat /\ x # 0
      /\ \A x \in h2.rows : x \in DOMAIN h2.facts /\ x \in Nat /\ x # 0
  BY <1>0, TimelineFacts
<1>2. /\ \A x \in h2.rows : x \in DOMAIN h.facts => x \in h.rows
      /\ \A x \in DOMAIN h.facts : x \in DOMAIN h2.facts /\ h2.facts[x] = h.facts[x]
      /\ \A x \in h2.rows : x \notin DOMAIN h.facts =>
            (h2.facts[x].kind \in OfTurns => h2.facts[x].turn \notin H!TurnsEnded(h))
  BY GrownFacts
<1> HIDE DEF f, f2, E, E2
<1>3. t \in H!Turns(f) /\ H!Answered(f, t) /\ H!Latest(E) = s /\ f[s].what = "answer"
  BY <1>1 DEF H!Folded, f, E
<1>4. s \in E /\ \A x \in E : x <= s
  <2>1. E \subseteq DOMAIN h.facts
    BY <1>1 DEF E, H!Events, H!Kind
  <2>2. IsFiniteSet(E) /\ E \subseteq Int
    BY <2>1, <1>0, PlacesAreFinite
  <2>3. E # {}
    BY <1>1, <1>3 DEF H!Latest
  <2>4. H!Latest(E) \in E /\ \A x \in E : H!Latest(E) >= x
    BY <2>2, <2>3, LatestIn
  <2> QED
    BY <2>2, <2>4, <1>3
<1>5. PICK e \in H!Ends(f, t) : f[e].what = "answered"
  BY <1>3 DEF H!Answered
<1>6. e \in h.rows /\ h.facts[e].kind = "turn-end" /\ h.facts[e].turn = t /\ h.facts[e].what = "answered"
  BY <1>1, <1>5 DEF H!Ends, H!Kind
<1>7. t \in H!TurnsEnded(h)
  <2>1. <<t, e>> \in h.ends
    BY <1>0, <1>6 DEF Sound, Decodes
  <2> QED
    BY <2>1 DEF H!TurnsEnded
<1>8. s \in E2
  BY <1>1, <1>2, <1>4 DEF E, E2, H!Events, H!Kind
<1>9. ASSUME NEW x \in E2 PROVE x \in Int /\ s >= x
  <2>1. x \in h2.rows /\ h2.facts[x].kind = "activity" /\ h2.facts[x].turn = t /\ h2.facts[x].what \in H!Said
    BY <1>1 DEF E2, H!Events, H!Kind
  <2>2. x \in DOMAIN h.facts
    BY <2>1, <1>2, <1>7 DEF OfTurns
  <2>3. x \in E
    BY <2>1, <2>2, <1>1, <1>2 DEF E, H!Events, H!Kind
  <2> QED
    BY <2>1, <2>3, <1>1, <1>4
<1>10. H!Latest(E2) = s
  BY <1>8, <1>9, LatestIs
<1>11. t \in h.rows /\ h.facts[t].kind = "turn-start"
  BY <1>1, <1>3 DEF H!Turns, H!Kind
<1>12. t \in h2.rows /\ h2.facts[t].kind = "turn-start"
  BY <1>0, <1>1, <1>2, <1>11 DEF Sound, Decodes
<1>13. e \in h2.rows
  <2>1. e \in H!Ends(h2.facts, t)
    BY <1>1, <1>2, <1>6 DEF H!Ends, H!Kind
  <2>2. <<t, e>> \in h2.ends
    BY <2>1, <1>0, <1>12 DEF Sound, Decodes
  <2> QED
    BY <2>2, <1>0 DEF Sound, EndsAreKept
<1>14. t \in H!Turns(f2)
  BY <1>1, <1>12 DEF H!Turns, H!Kind
<1>15. H!Answered(f2, t)
  BY <1>1, <1>2, <1>6, <1>13 DEF H!Answered, H!Ends, H!Kind
<1>16. f2[s].what = "answer"
  BY <1>1, <1>2, <1>3
<1>17. s # 0
  BY <1>1
<1>18. H!Folded(f2, t) = s
  BY <1>10, <1>14, <1>15, <1>16, <1>17 DEF H!Folded, E2
<1> QED
  BY <1>18 DEF f2

LEMMA FinishedStays ==
  ASSUME NEW h, NEW m, NEW h2, Grown(h, m, h2), NEW s \in h2.rows, s \in DOMAIN h.facts,
         h.facts[s].kind = "activity", H!Finished(H!Timeline(h), s)
  PROVE  H!Finished(H!Timeline(h2), s)
<1> DEFINE f == H!Timeline(h)
           f2 == H!Timeline(h2)
           t == h.facts[s].turn
<1>0. h \in Hearts /\ Sound(h) /\ h2 \in Hearts /\ Sound(h2)
  BY DEF Grown
<1>1. /\ DOMAIN f = h.rows /\ DOMAIN f2 = h2.rows
      /\ \A x \in h.rows : f[x].kind = h.facts[x].kind /\ f[x].turn = h.facts[x].turn /\ f[x].what = h.facts[x].what
      /\ \A x \in h2.rows : f2[x].kind = h2.facts[x].kind /\ f2[x].turn = h2.facts[x].turn /\ f2[x].what = h2.facts[x].what
      /\ \A x \in h.rows : x \in DOMAIN h.facts /\ x \in Nat /\ x # 0 /\ x <= Len(h.facts)
      /\ \A x \in h2.rows : x \in DOMAIN h2.facts /\ x \in Nat /\ x # 0
  BY <1>0, TimelineFacts
<1>2. /\ \A x \in h2.rows : x \in DOMAIN h.facts => x \in h.rows
      /\ \A x \in DOMAIN h.facts : x \in DOMAIN h2.facts /\ h2.facts[x] = h.facts[x]
      /\ \A x \in h2.rows : x \notin DOMAIN h.facts => x > Len(h.facts)
      /\ h.rows \subseteq m.rows /\ h2.rows \subseteq m.rows /\ h2.facts = m.facts
      /\ Len(h.facts) \in Nat
  BY <1>0, GrownFacts, FactsHaveNumbers
<1> HIDE DEF f, f2
<1>3. s \in h.rows /\ f[s].turn = t /\ f2[s].turn = t /\ f[s].kind = "activity" /\ h2.facts[s].kind = "activity"
  BY <1>1, <1>2
<1>4. PICK r \in H!Events(f, t, {"finish"}) : H!StartOf(f, r) = s
  BY <1>3 DEF H!Finished, f
<1>5. r \in h.rows /\ f[r].kind = "activity" /\ f[r].turn = t /\ f[r].what = "finish"
  BY <1>1, <1>4 DEF H!Events, H!Kind
<1> DEFINE S == {x \in H!Events(f, t, {"start"}) : x < r}
           S2 == {x \in H!Events(f2, t, {"start"}) : x < r}
           Amid(g, p) == \E x \in H!Events(g, t, {"finish"}) : p < x /\ x < r
<1>6. H!Latest(S) = s /\ ~Amid(f, s)
  <2>1. H!StartOf(f, r) = IF Amid(f, H!Latest(S)) THEN 0 ELSE H!Latest(S)
    BY <1>5 DEF H!StartOf
  <2>2. s # 0
    BY <1>1, <1>3
  <2> HIDE DEF S, Amid
  <2> QED
    BY <2>1, <2>2, <1>4
<1>7. s \in S /\ \A x \in S : x <= s
  <2>1. S \subseteq DOMAIN h.facts
    BY <1>1 DEF H!Events, H!Kind
  <2> HIDE DEF S
  <2>2. IsFiniteSet(S) /\ S \subseteq Int
    BY <2>1, <1>0, PlacesAreFinite
  <2>3. S # {}
    BY <1>1, <1>3, <1>6 DEF H!Latest
  <2>4. H!Latest(S) \in S /\ \A x \in S : H!Latest(S) >= x
    BY <2>2, <2>3, LatestIn
  <2> QED
    BY <2>2, <2>4, <1>6
<1>8. s < r /\ f[s].what = "start"
  BY <1>7 DEF H!Events
<1>9. r \in h2.rows
  <2>1. Closed(m, h2.rows)
    BY DEF Grown, Trimmed
  <2>2. m.facts[s].kind = "activity" /\ m.facts[r].kind = "activity" /\ r \in m.rows
    BY <1>1, <1>2, <1>3, <1>5
  <2> QED
    BY <2>1, <2>2, <1>8 DEF Closed
<1>10. ASSUME NEW names, NEW x \in H!Events(f2, t, names), x < r PROVE x \in H!Events(f, t, names)
  <2>1. x \in h2.rows /\ h2.facts[x].kind = "activity" /\ h2.facts[x].turn = t /\ h2.facts[x].what \in names
    BY <1>1 DEF H!Events, H!Kind
  <2>2. x \in Nat /\ r \in Nat /\ r <= Len(h.facts)
    BY <2>1, <1>1, <1>5
  <2>3. x \in DOMAIN h.facts
    BY <2>1, <2>2, <1>2, <1>10
  <2> QED
    BY <2>1, <2>3, <1>1, <1>2 DEF H!Events, H!Kind
<1>11. H!Latest(S2) = s
  <2>1. s \in S2
    BY <1>1, <1>2, <1>3, <1>8 DEF H!Events, H!Kind
  <2>2. ASSUME NEW x \in S2 PROVE x \in Int /\ s >= x
    <3>1. x \in S
      BY <1>10
    <3>2. x \in Nat /\ s \in Nat
      BY <1>1, <1>3 DEF H!Events, H!Kind
    <3> HIDE DEF S, S2
    <3> QED
      BY <3>1, <3>2, <1>7
  <2> HIDE DEF S2
  <2> QED
    BY <2>1, <2>2, LatestIs
<1>12. ~Amid(f2, s)
  BY <1>6, <1>10
<1>13. r \in H!Events(f2, t, {"finish"})
  BY <1>1, <1>2, <1>5, <1>9 DEF H!Events, H!Kind
<1>14. H!StartOf(f2, r) = s
  <2>1. f2[r].turn = t
    BY <1>13 DEF H!Events
  <2>2. H!StartOf(f2, r) = IF Amid(f2, H!Latest(S2)) THEN 0 ELSE H!Latest(S2)
    BY <2>1 DEF H!StartOf
  <2> HIDE DEF S2, Amid
  <2> QED
    BY <2>2, <1>11, <1>12
<1>15. H!Finished(f2, s)
  BY <1>3, <1>13, <1>14 DEF H!Finished
<1> QED
  BY <1>15 DEF f2

LEMMA RowsStay ==
  ASSUME NEW h, NEW m, NEW h2, Grown(h, m, h2), NEW s \in h2.rows, s \in DOMAIN h.facts,
         H!RowOf(H!Timeline(h2), s) # {}
  PROVE  H!RowOf(H!Timeline(h), s) # {}
<1> DEFINE f == H!Timeline(h)
           f2 == H!Timeline(h2)
<1>0. h \in Hearts /\ Sound(h) /\ h2 \in Hearts /\ Sound(h2)
  BY DEF Grown
<1>1. s \in h.rows /\ h2.facts[s] = h.facts[s]
  BY GrownFacts
<1>2. /\ f[s].kind = h.facts[s].kind /\ f[s].turn = h.facts[s].turn /\ f[s].what = h.facts[s].what
      /\ f2[s].kind = h.facts[s].kind /\ f2[s].turn = h.facts[s].turn /\ f2[s].what = h.facts[s].what
  BY <1>0, <1>1, TimelineFacts
<1> HIDE DEF f, f2
<1>3. CASE f[s].kind # "activity"
  BY <1>3 DEF H!RowOf, f
<1>4. CASE f[s].kind = "activity"
  <2>1. H!RowOf(f, s) = H!ActivityRow(f, s) /\ H!RowOf(f2, s) = H!ActivityRow(f2, s)
    BY <1>2, <1>4 DEF H!RowOf
  <2>2. CASE f[s].what \in H!Said
    <3>1. H!Folded(f2, f[s].turn) # s
      BY <2>1, <2>2, <1>2 DEF H!ActivityRow, f2, H!Said
    <3>2. H!Folded(f, f[s].turn) # s
      BY <3>1, <1>2, <1>4, FoldedStays DEF f, f2
    <3> QED
      BY <3>2, <2>1, <2>2 DEF H!ActivityRow, f, H!Said
  <2>3. CASE f[s].what = "thought"
    BY <2>1, <2>3 DEF H!ActivityRow, H!Said, f
  <2>4. CASE f[s].what = "finish"
    BY <2>1, <2>4 DEF H!ActivityRow, H!Said, f
  <2>5. CASE f[s].what = "start"
    <3>1. ~H!Finished(f2, s)
      BY <2>1, <2>5, <1>2 DEF H!ActivityRow, H!Said, f2
    <3>2. ~H!Finished(f, s)
      BY <3>1, <1>2, <1>4, FinishedStays DEF f, f2
    <3> QED
      BY <3>2, <2>1, <2>5 DEF H!ActivityRow, H!Said, f
  <2>6. CASE f[s].what \notin H!Said \cup {"thought", "finish", "start"}
    BY <2>1, <2>6, <1>2 DEF H!ActivityRow, f2
  <2> QED
    BY <2>2, <2>3, <2>4, <2>5, <2>6
<1> QED
  BY <1>3, <1>4

LEMMA RowsHaveSequences ==
  ASSUME NEW f, NEW s \in DOMAIN f
  PROVE  \A row \in H!RowOf(f, s) : row.sequence = s
<1>1. \A kind, state : H!Row(f, s, kind, state).sequence = s
  BY DEF H!Row
<1>2. \A row \in H!ActivityRow(f, s) : row.sequence = s
  BY <1>1 DEF H!ActivityRow
<1> QED
  BY <1>1, <1>2 DEF H!RowOf

LEMMA RowsAreLater ==
  ASSUME NEW h, NEW m, NEW h2, Grown(h, m, h2), NEW row \in H!Rows(H!Timeline(h2))
  PROVE  \/ row.sequence > Len(h.facts)
         \/ \E old \in H!Rows(H!Timeline(h)) : old.sequence = row.sequence
<1>0. h \in Hearts /\ Sound(h) /\ h2 \in Hearts /\ Sound(h2)
  BY DEF Grown
<1>1. DOMAIN H!Timeline(h) = h.rows /\ DOMAIN H!Timeline(h2) = h2.rows
  BY <1>0, TimelineFacts
<1>2. PICK s \in h2.rows : row \in H!RowOf(H!Timeline(h2), s)
  BY <1>1 DEF H!Rows
<1>3. row.sequence = s
  BY <1>1, <1>2, RowsHaveSequences
<1>4. CASE s \notin DOMAIN h.facts
  BY <1>3, <1>4, GrownFacts
<1>5. CASE s \in DOMAIN h.facts
  <2>1. s \in h.rows
    BY <1>5, GrownFacts
  <2>2. H!RowOf(H!Timeline(h), s) # {}
    BY <1>2, <1>5, RowsStay
  <2>3. PICK old \in H!RowOf(H!Timeline(h), s) : TRUE
    BY <2>2
  <2>4. old.sequence = s
    BY <2>1, <2>3, <1>1, RowsHaveSequences
  <2>5. old \in H!Rows(H!Timeline(h))
    BY <2>1, <2>3, <1>1 DEF H!Rows
  <2> QED
    BY <2>4, <2>5, <1>3
<1> QED
  BY <1>4, <1>5

(***************************************************************************)
(* The steps.                                                              *)
(***************************************************************************)
Bodies == [n : Nat, end : {"open", "exited", "put-down"}]
TimelineInv == heart \in Hearts /\ body \in Bodies /\ Kept

TellsAreSafe ==
    \A t \in H!TellRows(heart) :
        IF H!Told(heart, t) THEN t \in H!TellRows(heart') => H!Told(heart', t)
        ELSE t \notin H!TellRows(heart') => H!Settles(t)
RowsAreSafe ==
    \A row \in H!Rows(H!Timeline(heart')) :
        \/ row.sequence > Len(heart.facts)
        \/ \E old \in H!Rows(H!Timeline(heart)) : old.sequence = row.sequence
SafeStep == (heart \in Hearts /\ Kept)' /\ TellsAreSafe /\ RowsAreSafe

(* What a transaction does before it prunes.                               *)
LEMMA PrunedStepIsSafe ==
  ASSUME H!TimelineAssumption, TimelineInv, NEW m, m \in Hearts, Sound(m), Later(heart, m),
         NEW released \in BOOLEAN, heart' = H!Prune(m, released),
         Barrier(m, barrier', body'.n), H!TellRows(heart) \subseteq H!TellRows(m),
         \A t \in H!TellRows(heart) : H!Told(heart, t) => H!Told(m, t),
         \A t \in H!TellRows(heart) : H!Told(m, t) /\ ~H!Told(heart, t) => H!Settles(t)
  PROVE  SafeStep
<1>1. Trimmed(m, heart')
  BY PruneTrims
<1>2. heart' \in Hearts /\ Sound(heart')
  BY <1>1, TrimmedSound
<1>3. Barrier(heart', barrier', body'.n)
  BY <1>1, TrimmedBarrier
<1>4. /\ \A t \in H!TellRows(heart') : H!Told(heart', t) <=> H!Told(m, t)
      /\ Waiting(m) \subseteq H!TellRows(heart')
  BY <1>1, TrimmedTells
<1>5. TellsAreSafe
  <2>1. ASSUME NEW t \in H!TellRows(heart), H!Told(heart, t), t \in H!TellRows(heart') PROVE H!Told(heart', t)
    BY <2>1, <1>4
  <2>2. ASSUME NEW t \in H!TellRows(heart), ~H!Told(heart, t), t \notin H!TellRows(heart') PROVE H!Settles(t)
    <3>1. t \notin Waiting(m)
      BY <2>2, <1>4
    <3>2. H!Told(m, t)
      BY <3>1, <2>2 DEF Waiting, H!Pending
    <3> QED
      BY <3>2, <2>2
  <2> QED
    BY <2>1, <2>2 DEF TellsAreSafe
<1>6. RowsAreSafe
  <2>1. Grown(heart, m, heart')
    BY <1>1, <1>2 DEF Grown, TimelineInv, Kept
  <2> QED
    BY <2>1, RowsAreLater DEF RowsAreSafe
<1> QED
  BY <1>2, <1>3, <1>5, <1>6 DEF SafeStep, Kept

LEMMA AppendingStepIsSafe ==
  ASSUME H!TimelineAssumption, TimelineInv, NEW m, Appended(heart, m),
         NEW released \in BOOLEAN, heart' = H!Prune(m, released), Barrier(m, barrier', body'.n)
  PROVE  SafeStep
<1>1. heart \in Hearts /\ Sound(heart)
  BY DEF TimelineInv, Kept
<1>2. m \in Hearts /\ Sound(m)
  BY <1>1, AppendedSound
<1>3. Later(heart, m)
  BY <1>1, AppendedIsLater
<1>4. H!TellRows(heart) \subseteq H!TellRows(m)
  BY <1>1, AppendedTells
<1>5. \A t : H!Told(m, t) <=> H!Told(heart, t)
  BY <1>1, AppendedTold
<1> QED
  BY <1>2, <1>3, <1>4, <1>5, PrunedStepIsSafe

LEMMA NotingStepIsSafe ==
  ASSUME H!TimelineAssumption, TimelineInv, NEW m, Noted(heart, m),
         NEW released \in BOOLEAN, heart' = H!Prune(m, released), Barrier(m, barrier', body'.n),
         \A t \in H!TellRows(heart) : H!Told(heart, t) => H!Told(m, t),
         \A t \in H!TellRows(heart) : H!Told(m, t) /\ ~H!Told(heart, t) => H!Settles(t)
  PROVE  SafeStep
<1>1. heart \in Hearts /\ Sound(heart)
  BY DEF TimelineInv, Kept
<1>2. m \in Hearts /\ Sound(m) /\ H!TellRows(m) = H!TellRows(heart)
  BY <1>1, NotedSound
<1>3. Later(heart, m)
  BY NotedIsLater
<1> QED
  BY <1>2, <1>3, PrunedStepIsSafe

LEMMA RestingStepIsSafe ==
  ASSUME TimelineInv, heart' = heart, barrier' = None \/ (barrier' = barrier /\ body'.n = body.n)
  PROVE  SafeStep
<1>1. heart' \in Hearts /\ Sound(heart')
  BY DEF TimelineInv, Kept
<1>2. Barrier(heart', barrier', body'.n)
  BY DEF TimelineInv, Kept, Barrier
<1>3. TellsAreSafe
  BY DEF TellsAreSafe
<1>4. RowsAreSafe
  BY DEF RowsAreSafe
<1> QED
  BY <1>1, <1>2, <1>3, <1>4 DEF SafeStep, Kept

(* What is appended.                                                       *)
LEMMA HeartsWith ==
  ASSUME NEW h \in Hearts, NEW A, A \in Seq(Facts), NEW R, R \subseteq Nat, NEW E, E \subseteq Nat \X Nat
  PROVE  /\ [h EXCEPT !.facts = A, !.rows = R] \in Hearts
         /\ [[h EXCEPT !.facts = A, !.rows = R] EXCEPT !.ends = E] \in Hearts
BY DEF Hearts

LEMMA InsertAppends ==
  ASSUME NEW h \in Hearts, Sound(h), NEW fact \in Facts, fact.kind # "turn-end",
         fact.kind \in OfTurns => fact.turn \in H!TurnRows(h) \ H!TurnsEnded(h),
         fact.kind = "tell" => fact.what \notin H!TellRows(h)
  PROVE  Appended(h, H!Insert(h, fact)) /\ H!Insert(h, fact).facts[Len(h.facts) + 1] = fact
<1> DEFINE h2 == H!Insert(h, fact)
           n == Len(h.facts) + 1
<1>1. h.facts \in Seq(Facts) /\ Len(h.facts) \in Nat /\ DOMAIN h.facts = 1..Len(h.facts)
  BY FactsHaveNumbers
<1>2. /\ Append(h.facts, fact) \in Seq(Facts) /\ Len(Append(h.facts, fact)) = n
      /\ \A s \in DOMAIN h.facts : Append(h.facts, fact)[s] = h.facts[s]
      /\ Append(h.facts, fact)[n] = fact
  BY <1>1
<1>3. /\ h2.facts = Append(h.facts, fact) /\ h2.rows = h.rows \cup {n} /\ h2.ends = h.ends
      /\ h2.deliveries = h.deliveries /\ h2.receipts = h.receipts /\ h2.members = h.members
  BY DEF H!Insert, Hearts, H!NextSequence
<1>4. h2 \in Hearts
  <2>1. h2 = [h EXCEPT !.facts = Append(h.facts, fact), !.rows = h.rows \cup {n}]
    BY DEF H!Insert, H!NextSequence
  <2>2. h.rows \cup {n} \subseteq Nat
    BY <1>1 DEF Hearts
  <2> HIDE DEF h2, n
  <2> QED
    BY <2>1, <2>2, <1>2, HeartsWith
<1>5. h2.facts[n] = fact
  BY <1>2, <1>3
<1> HIDE DEF h2, n
<1>6. Appended(h, h2)
  BY <1>2, <1>3, <1>4, <1>5 DEF Appended, n
<1> QED
  BY <1>5, <1>6 DEF h2, n

LEMMA TurnEndedAppends ==
  ASSUME NEW h \in Hearts, Sound(h), NEW t \in H!TurnRows(h) \ H!TurnsEnded(h),
         NEW outcome \in Outcomes \cup {"canceled"}
  PROVE  Appended(h, H!TurnEnded(h, t, outcome))
<1> DEFINE fact == H!Fact("turn-end", t, outcome)
           h2 == H!TurnEnded(h, t, outcome)
           n == Len(h.facts) + 1
<1>0. t \in Nat
  BY FactsHaveNumbers DEF H!TurnRows, H!RowsOf, Sound
<1>1. h.facts \in Seq(Facts) /\ Len(h.facts) \in Nat /\ DOMAIN h.facts = 1..Len(h.facts)
  BY FactsHaveNumbers
<1>f. fact \in Facts /\ fact.kind = "turn-end" /\ fact.turn = t
  BY <1>0 DEF H!Fact, Facts, Kinds, Whats
<1> HIDE DEF fact
<1>2. /\ Append(h.facts, fact) \in Seq(Facts) /\ Len(Append(h.facts, fact)) = n
      /\ \A s \in DOMAIN h.facts : Append(h.facts, fact)[s] = h.facts[s]
      /\ Append(h.facts, fact)[n] = fact
  BY <1>1, <1>f
<1>3. /\ h2.facts = Append(h.facts, fact) /\ h2.rows = h.rows \cup {n} /\ h2.ends = h.ends \cup {<<t, n>>}
      /\ h2.deliveries = h.deliveries /\ h2.receipts = h.receipts /\ h2.members = h.members
  BY DEF H!TurnEnded, H!Insert, Hearts, H!NextSequence, fact
<1>4. h2 \in Hearts
  <2>1. h2 = [[h EXCEPT !.facts = Append(h.facts, fact), !.rows = h.rows \cup {n}]
                EXCEPT !.ends = h.ends \cup {<<t, n>>}]
    BY DEF H!TurnEnded, H!Insert, Hearts, H!NextSequence, fact
  <2>2. h.rows \cup {n} \subseteq Nat /\ h.ends \cup {<<t, n>>} \subseteq Nat \X Nat
    BY <1>0, <1>1 DEF Hearts
  <2> HIDE DEF h2, n
  <2> QED
    BY <2>1, <2>2, <1>2, HeartsWith
<1>5. h2.facts[n] = fact
  BY <1>2, <1>3
<1> HIDE DEF h2, n
<1>6. Appended(h, h2)
  BY <1>2, <1>3, <1>4, <1>5, <1>f DEF Appended, n, OfTurns
<1> QED
  BY <1>6 DEF h2

LEMMA CalmAppendingStep ==
  ASSUME H!TimelineAssumption, TimelineInv, NEW m, Appended(heart, m),
         NEW released \in BOOLEAN, heart' = H!Prune(m, released), barrier' = barrier, body'.n = body.n
  PROVE  SafeStep
<1>1. heart \in Hearts /\ Sound(heart) /\ Barrier(heart, barrier, body.n)
  BY DEF TimelineInv, Kept
<1>2. Barrier(m, barrier, body.n)
  BY <1>1, AppendedBarrier
<1> QED
  BY <1>2, AppendingStepIsSafe

LEMMA TurnIsANumber ==
  ASSUME TimelineInv, H!Current # 0
  PROVE  H!Current \in H!TurnRows(heart) \ H!TurnsEnded(heart) /\ H!Current \in Nat
<1>1. heart \in Hearts /\ Sound(heart)
  BY DEF TimelineInv, Kept
<1>2. H!Current \in H!TurnRows(heart) \ H!TurnsEnded(heart)
  BY <1>1, CurrentIsOpen
<1> QED
  BY <1>1, <1>2 DEF H!TurnRows, H!RowsOf, Hearts

LEMMA RecordBodyIsSafe ==
  ASSUME TimelineInv, H!RecordBody
  PROVE  SafeStep
BY RestingStepIsSafe DEF H!RecordBody

LEMMA FinishBodyIsSafe ==
  ASSUME TimelineInv, H!FinishBodyIfIdle
  PROVE  SafeStep
<1>1. heart' = heart /\ barrier' = barrier /\ body'.n = body.n
  BY DEF H!FinishBodyIfIdle, TimelineInv, Bodies
<1> QED
  BY <1>1, RestingStepIsSafe

LEMMA StartedTurn ==
  ASSUME TimelineInv
  PROVE  LET n == H!NextSequence(heart)
             h1 == H!Insert(heart, H!Fact("turn-start", n, body.n))
             h2 == H!Insert(h1, H!Fact("call", n, None))
         IN  Appended(heart, h1) /\ Appended(h1, h2)
<1> DEFINE n == H!NextSequence(heart)
           fact == H!Fact("turn-start", n, body.n)
           h1 == H!Insert(heart, fact)
           call == H!Fact("call", n, None)
<1>0. heart \in Hearts /\ Sound(heart) /\ n = Len(heart.facts) + 1 /\ n \in Nat /\ body.n \in Nat
  BY FactsHaveNumbers DEF TimelineInv, Kept, H!NextSequence, Bodies
<1>1. fact \in Facts /\ fact.kind = "turn-start"
  BY <1>0 DEF H!Fact, Facts, Kinds, Whats
<1>2. call \in Facts /\ call.kind = "call" /\ call.turn = n
  BY <1>0 DEF H!Fact, Facts, Kinds, Whats
<1> HIDE DEF n, fact, call
<1>3. Appended(heart, h1) /\ h1.facts[n] = fact
  BY <1>0, <1>1, InsertAppends DEF OfTurns
<1> HIDE DEF h1
<1>4. h1 \in Hearts /\ Sound(h1)
  BY <1>0, <1>3, AppendedSound
<1>5. n \in H!TurnRows(h1)
  BY <1>0, <1>1, <1>3 DEF Appended, H!TurnRows, H!RowsOf
<1>6. n \notin H!TurnsEnded(h1)
  <2>1. h1.ends = heart.ends
    BY <1>0, <1>1, <1>3 DEF Appended
  <2>2. n \notin heart.rows
    BY <1>0, <1>3, AppendedFacts
  <2> QED
    BY <2>1, <2>2, <1>0 DEF H!TurnsEnded, Sound, EndsAreKept
<1>7. Appended(h1, H!Insert(h1, call))
  BY <1>2, <1>4, <1>5, <1>6, InsertAppends DEF OfTurns
<1> QED
  BY <1>3, <1>7 DEF n, fact, h1, call

LEMMA BeginTurnIsSafe ==
  ASSUME H!TimelineAssumption, TimelineInv, NEW withCall \in BOOLEAN, H!BeginTurn(withCall)
  PROVE  SafeStep
<1> DEFINE n == H!NextSequence(heart)
           h1 == H!Insert(heart, H!Fact("turn-start", n, body.n))
           h2 == H!Insert(h1, H!Fact("call", n, None))
<1>1. Appended(heart, h1) /\ Appended(h1, h2)
  BY StartedTurn
<1>2. heart' = H!Prune(IF withCall THEN h2 ELSE h1, FALSE) /\ barrier' = barrier /\ body' = body
  BY DEF H!BeginTurn, H!TurnStarted
<1> HIDE DEF h1, h2
<1>3. CASE ~withCall
  BY <1>1, <1>2, <1>3, CalmAppendingStep
<1>4. CASE withCall
  <2>1. heart \in Hearts /\ Sound(heart) /\ Barrier(heart, barrier, body.n)
    BY DEF TimelineInv, Kept
  <2>2. h1 \in Hearts /\ Sound(h1) /\ Barrier(h1, barrier, body.n)
    BY <2>1, <1>1, AppendedSound, AppendedBarrier
  <2>3. h2 \in Hearts /\ Sound(h2) /\ Barrier(h2, barrier, body.n)
    BY <2>2, <1>1, AppendedSound, AppendedBarrier
  <2>4. Later(heart, h2)
    BY <2>1, <1>1, AppendedTwiceIsLater
  <2>5. H!TellRows(heart) \subseteq H!TellRows(h1) /\ H!TellRows(h1) \subseteq H!TellRows(h2)
    BY <2>1, <2>2, <1>1, AppendedTells
  <2>6. \A t : H!Told(h2, t) <=> H!Told(heart, t)
    BY <2>1, <2>2, <1>1, AppendedTold
  <2>7. heart' = H!Prune(h2, FALSE) /\ Barrier(h2, barrier', body'.n)
    BY <2>3, <1>2, <1>4
  <2>8. H!TellRows(heart) \subseteq H!TellRows(h2)
    BY <2>5
  <2> QED
    BY <2>3, <2>4, <2>6, <2>7, <2>8, PrunedStepIsSafe
<1> QED
  BY <1>3, <1>4

LEMMA OfCurrentAppends ==
  ASSUME TimelineInv, H!Current # 0, NEW kind \in {"activity", "report"}, NEW what \in Whats
  PROVE  Appended(heart, H!Insert(heart, H!Fact(kind, H!Current, what)))
<1> DEFINE fact == H!Fact(kind, H!Current, what)
<1>1. H!Current \in H!TurnRows(heart) \ H!TurnsEnded(heart) /\ H!Current \in Nat
  BY TurnIsANumber
<1>2. fact \in Facts /\ fact.kind \in {"activity", "report"} /\ fact.turn = H!Current
  BY <1>1 DEF H!Fact, Facts, Kinds
<1>3. heart \in Hearts /\ Sound(heart)
  BY DEF TimelineInv, Kept
<1> HIDE DEF fact
<1>4. Appended(heart, H!Insert(heart, fact))
  BY <1>1, <1>2, <1>3, InsertAppends DEF OfTurns
<1> QED
  BY <1>4 DEF fact

LEMMA ActivityIsSafe ==
  ASSUME H!TimelineAssumption, TimelineInv, NEW event \in Activities, H!AppendActivity(event)
  PROVE  SafeStep
<1>1. event \in Whats
  BY DEF Whats
<1>2. Appended(heart, H!Insert(heart, H!Fact("activity", H!Current, event)))
  BY <1>1, OfCurrentAppends DEF H!AppendActivity
<1>3. heart' = H!Prune(H!Insert(heart, H!Fact("activity", H!Current, event)), FALSE) /\ barrier' = barrier /\ body' = body
  BY DEF H!AppendActivity
<1> QED
  BY <1>2, <1>3, CalmAppendingStep

LEMMA ReportIsSafe ==
  ASSUME H!TimelineAssumption, TimelineInv, H!RecordReport
  PROVE  SafeStep
<1>1. None \in Whats
  BY DEF Whats
<1>2. Appended(heart, H!Insert(heart, H!Fact("report", H!Current, None)))
  BY <1>1, OfCurrentAppends DEF H!RecordReport
<1>3. heart' = H!Prune(H!Insert(heart, H!Fact("report", H!Current, None)), FALSE) /\ barrier' = barrier /\ body' = body
  BY DEF H!RecordReport
<1> QED
  BY <1>2, <1>3, CalmAppendingStep

LEMMA TellAppends ==
  ASSUME TimelineInv, NEW t \in Tells, t \notin H!TellRows(heart)
  PROVE  LET m == H!Insert(heart, H!Fact("tell", 0, t)) IN Appended(heart, m) /\ t \in H!TellRows(m)
<1> DEFINE fact == H!Fact("tell", 0, t)
           m == H!Insert(heart, fact)
           n == Len(heart.facts) + 1
<1>1. fact \in Facts /\ fact.kind = "tell" /\ fact.what = t
  BY DEF H!Fact, Facts, Kinds, Whats
<1>2. heart \in Hearts /\ Sound(heart)
  BY DEF TimelineInv, Kept
<1> HIDE DEF fact
<1>3. Appended(heart, m) /\ m.facts[n] = fact
  BY <1>1, <1>2, InsertAppends DEF OfTurns
<1> HIDE DEF m
<1>4. t \in H!TellRows(m)
  BY <1>1, <1>3 DEF Appended, H!TellRows, H!RowsOf
<1> QED
  BY <1>3, <1>4 DEF m, fact

LEMMA TellIsSafe ==
  ASSUME H!TimelineAssumption, TimelineInv, NEW t \in Tells, H!RecordTell(t)
  PROVE  SafeStep
<1>1. Appended(heart, H!Insert(heart, H!Fact("tell", 0, t)))
  BY TellAppends DEF H!RecordTell
<1>2. heart' = H!Prune(H!Insert(heart, H!Fact("tell", 0, t)), FALSE) /\ barrier' = barrier /\ body' = body
  BY DEF H!RecordTell, H!RecordPendingTell
<1> QED
  BY <1>1, <1>2, CalmAppendingStep

LEMMA InterruptIsSafe ==
  ASSUME H!TimelineAssumption, TimelineInv, NEW t \in Tells, H!RecordInterrupt(t)
  PROVE  SafeStep
<1> DEFINE m == H!Insert(heart, H!Fact("tell", 0, t))
<1>0. heart \in Hearts /\ Sound(heart) /\ t \notin H!TellRows(heart)
  BY DEF TimelineInv, Kept, H!RecordInterrupt
<1>1. Appended(heart, m) /\ t \in H!TellRows(m)
  BY <1>0, TellAppends
<1>2. heart' = H!Prune(m, FALSE) /\ body' = body
  BY DEF H!RecordInterrupt, H!RecordPendingTell
<1> HIDE DEF m
<1>3. CASE barrier # None
  <2>1. barrier' = barrier
    BY <1>3 DEF H!RecordInterrupt
  <2> QED
    BY <2>1, <1>1, <1>2, CalmAppendingStep
<1>4. CASE barrier = None
  <2>1. barrier' = [body |-> body.n, tell |-> t]
    BY <1>4 DEF H!RecordInterrupt
  <2>2. barrier'.body = body.n /\ barrier'.tell = t
    BY <2>1
  <2>3. m.receipts = heart.receipts /\ m.deliveries = heart.deliveries /\ H!Held(m) = H!Held(heart)
    BY <1>1 DEF Appended, H!Held
  <2>4. t \notin m.receipts /\ t \notin H!Held(m) /\ \A d \in m.deliveries : d.tell # t
    BY <2>3, <1>0 DEF Sound, TellsAreKept, DeliveriesAreKept
  <2>5. Barrier(m, barrier', body'.n)
    BY <2>2, <2>4, <1>1, <1>2 DEF Barrier
  <2> QED
    BY <2>5, <1>1, <1>2, AppendingStepIsSafe
<1> QED
  BY <1>3, <1>4

LEMMA EndTurnIsSafe ==
  ASSUME H!TimelineAssumption, TimelineInv, NEW outcome \in Outcomes, H!EndTurn(outcome)
  PROVE  SafeStep
<1>1. H!Current \in H!TurnRows(heart) \ H!TurnsEnded(heart) /\ heart \in Hearts /\ Sound(heart)
  BY TurnIsANumber DEF H!EndTurn, TimelineInv, Kept
<1>2. Appended(heart, H!TurnEnded(heart, H!Current, outcome))
  BY <1>1, TurnEndedAppends
<1>3. heart' = H!Prune(H!TurnEnded(heart, H!Current, outcome), TRUE) /\ barrier' = barrier /\ body' = body
  BY DEF H!EndTurn
<1> QED
  BY <1>2, <1>3, CalmAppendingStep

(* What may be told is not what an interrupt is held at.                   *)
LEMMA TheBarrierHolds ==
  ASSUME TimelineInv, NEW t \in H!Pending(heart), ~H!ProtectedByPause(t), barrier # None
  PROVE  barrier.tell # t
<1>1. heart \in Hearts /\ Sound(heart) /\ barrier.body = body.n /\ barrier.tell \in H!TellRows(heart)
  BY DEF TimelineInv, Kept, Barrier
<1>2. H!Place(heart, barrier.tell) \in Int
  <2>1. PICK s \in heart.rows : H!Place(heart, barrier.tell) = s
    BY <1>1, TellHasARow
  <2> QED
    BY <2>1, <1>1 DEF Hearts
<1>3. ASSUME barrier.tell = t PROVE FALSE
  <2>1. H!Place(heart, t) >= H!Place(heart, barrier.tell)
    BY <1>2, <1>3
  <2> QED
    BY <2>1, <1>1 DEF H!ProtectedByPause, H!Controlled
<1> QED
  BY <1>3

LEMMA DeliveryIsSafe ==
  ASSUME H!TimelineAssumption, TimelineInv, NEW t \in Tells, NEW route \in {"launch", "unavailable", "required"},
         H!RecordTellDelivery(t, route)
  PROVE  SafeStep
<1> DEFINE new == [tell |-> t, turn |-> H!Current, route |-> route]
           m == [heart EXCEPT !.deliveries = heart.deliveries \cup {new}]
<1>0. heart \in Hearts /\ Sound(heart) /\ Barrier(heart, barrier, body.n)
  BY DEF TimelineInv, Kept
<1>1. H!Current \in H!TurnRows(heart) \ H!TurnsEnded(heart) /\ H!Current \in Nat
  BY TurnIsANumber DEF H!RecordTellDelivery
<1>2. t \in H!Pending(heart) /\ t \in H!TellRows(heart) /\ ~H!Told(heart, t)
  BY DEF H!RecordTellDelivery, H!Pending
<1>3. new \in [tell : Whats, turn : Nat, route : Routes] /\ new.tell = t /\ new.turn = H!Current /\ new.route = route
  BY <1>1 DEF Routes, Whats
<1>4. heart' = H!Prune(m, TRUE) /\ barrier' = barrier /\ body' = body
  BY DEF H!RecordTellDelivery
<1> HIDE DEF new
<1>5. /\ m \in Hearts /\ m.facts = heart.facts /\ m.rows = heart.rows /\ m.ends = heart.ends
      /\ m.receipts = heart.receipts /\ m.members = heart.members
      /\ m.deliveries = heart.deliveries \cup {new}
  BY <1>0, <1>3 DEF Hearts
<1> HIDE DEF m
<1>6. Noted(heart, m)
  BY <1>0, <1>1, <1>2, <1>3, <1>5 DEF Noted, H!Held, Sound, TellsAreKept
<1>7. Barrier(m, barrier', body'.n)
  <2> SUFFICES ASSUME barrier # None PROVE Barrier(m, barrier, body.n)
    BY <1>4 DEF Barrier
  <2>1. barrier.tell # t
    BY <1>2, TheBarrierHolds DEF H!RecordTellDelivery
  <2>2. H!TellRows(m) = H!TellRows(heart) /\ H!Held(m) = H!Held(heart)
    BY <1>5 DEF H!TellRows, H!RowsOf, H!Held
  <2> QED
    BY <2>1, <2>2, <1>0, <1>3, <1>5 DEF Barrier
<1>8. \A u : H!Told(heart, u) => H!Told(m, u)
  BY <1>5 DEF H!Told
<1>9. ASSUME NEW u \in H!TellRows(heart), H!Told(m, u), ~H!Told(heart, u) PROVE H!Settles(u)
  <2>1. u = t /\ route \in {"launch", "unavailable", "fenced"}
    BY <1>3, <1>5, <1>9 DEF H!Told
  <2> QED
    BY <2>1 DEF H!Settles
<1> QED
  BY <1>4, <1>6, <1>7, <1>8, <1>9, NotingStepIsSafe

LEMMA ReceiptNotes ==
  ASSUME TimelineInv, NEW t \in Tells, NEW evidence \in {"exact", "fence"}, H!RecordTellReceipt(t, evidence)
  PROVE  LET m == H!Receipted(heart, t, evidence)
         IN  /\ m \in Hearts /\ m.facts = heart.facts /\ m.rows = heart.rows /\ m.ends = heart.ends
             /\ m.members = heart.members
             /\ heart.receipts \subseteq m.receipts /\ m.receipts \subseteq heart.receipts \cup {t}
             /\ \A d \in m.deliveries : \E old \in heart.deliveries :
                    /\ old.tell = d.tell /\ old.turn = d.turn
                    /\ d.route = old.route \/ (d.tell = t /\ d.route = "fenced")
             /\ \A old \in heart.deliveries : \E d \in m.deliveries :
                    d.tell = old.tell /\ (d.route = old.route \/ d.route = "fenced")
<1>0. heart \in Hearts
  BY DEF TimelineInv
<1>1. CASE evidence = "exact"
  BY <1>0, <1>1 DEF H!Receipted, Hearts, Whats
<1>2. CASE evidence = "fence"
  <2> DEFINE F(d) == IF d.tell = t /\ d.turn = H!Current THEN [d EXCEPT !.route = "fenced"] ELSE d
             D == {F(d) : d \in heart.deliveries}
             m == H!Receipted(heart, t, evidence)
  <2>1. \A d \in heart.deliveries : d \in [tell : Whats, turn : Nat, route : Routes]
    BY <1>0 DEF Hearts
  <2>2. \A d \in heart.deliveries :
           /\ F(d) \in [tell : Whats, turn : Nat, route : Routes]
           /\ F(d).tell = d.tell /\ F(d).turn = d.turn
           /\ F(d).route = d.route \/ (F(d).tell = t /\ F(d).route = "fenced")
    BY <2>1 DEF Routes
  <2>3. m = [heart EXCEPT !.deliveries = D]
    BY <1>2 DEF H!Receipted
  <2> HIDE DEF F
  <2>4. D \subseteq [tell : Whats, turn : Nat, route : Routes]
    BY <2>2
  <2>5. /\ \A d \in D : \E old \in heart.deliveries :
              /\ old.tell = d.tell /\ old.turn = d.turn
              /\ d.route = old.route \/ (d.tell = t /\ d.route = "fenced")
        /\ \A old \in heart.deliveries : \E d \in D :
              d.tell = old.tell /\ (d.route = old.route \/ d.route = "fenced")
    BY <2>2
  <2> HIDE DEF D, m
  <2>6. /\ m \in Hearts /\ m.facts = heart.facts /\ m.rows = heart.rows /\ m.ends = heart.ends
        /\ m.members = heart.members /\ m.receipts = heart.receipts /\ m.deliveries = D
    BY <1>0, <2>3, <2>4 DEF Hearts
  <2> QED
    BY <2>5, <2>6 DEF m
<1> QED
  BY <1>1, <1>2

LEMMA ReceiptIsSafe ==
  ASSUME H!TimelineAssumption, TimelineInv, NEW t \in Tells, NEW evidence \in {"exact", "fence"},
         H!RecordTellReceipt(t, evidence)
  PROVE  SafeStep
<1> DEFINE m == H!Receipted(heart, t, evidence)
<1>0. heart \in Hearts /\ Sound(heart) /\ Barrier(heart, barrier, body.n)
  BY DEF TimelineInv, Kept
<1>1. t \in H!Pending(heart) /\ t \in H!TellRows(heart) /\ ~H!Told(heart, t)
  BY DEF H!RecordTellReceipt, H!Pending
<1>2. heart' = H!Prune(m, TRUE) /\ barrier' = barrier /\ body' = body
  BY DEF H!RecordTellReceipt
<1>3. /\ m \in Hearts /\ m.facts = heart.facts /\ m.rows = heart.rows /\ m.ends = heart.ends
      /\ m.members = heart.members
      /\ heart.receipts \subseteq m.receipts /\ m.receipts \subseteq heart.receipts \cup {t}
      /\ \A d \in m.deliveries : \E old \in heart.deliveries :
             /\ old.tell = d.tell /\ old.turn = d.turn
             /\ d.route = old.route \/ (d.tell = t /\ d.route = "fenced")
      /\ \A old \in heart.deliveries : \E d \in m.deliveries :
             d.tell = old.tell /\ (d.route = old.route \/ d.route = "fenced")
  BY ReceiptNotes
<1> HIDE DEF m
<1>4. H!Held(m) = H!Held(heart) /\ H!TellRows(m) = H!TellRows(heart)
  BY <1>3 DEF H!Held, H!TellRows, H!RowsOf
<1>5. Noted(heart, m)
  <2>1. m.receipts \subseteq H!TellRows(heart) /\ H!Held(m) \subseteq H!TellRows(heart)
    BY <1>0, <1>1, <1>3, <1>4 DEF Sound, TellsAreKept
  <2>2. \A d \in m.deliveries : \E old \in heart.deliveries : old.tell = d.tell /\ old.turn = d.turn
    BY <1>3
  <2> QED
    BY <2>1, <2>2, <1>3 DEF Noted
<1>6. Barrier(m, barrier', body'.n)
  <2> SUFFICES ASSUME barrier # None PROVE Barrier(m, barrier, body.n)
    BY <1>2 DEF Barrier
  <2>1. barrier.tell # t
    BY <1>1, TheBarrierHolds DEF H!RecordTellReceipt
  <2>2. \A d \in m.deliveries : d.tell # barrier.tell
    BY <1>0, <1>3 DEF Barrier
  <2> QED
    BY <2>1, <2>2, <1>0, <1>3, <1>4 DEF Barrier
<1>7. ASSUME NEW u \in H!TellRows(heart), H!Told(heart, u) PROVE H!Told(m, u)
  BY <1>3, <1>7 DEF H!Told
<1>8. ASSUME NEW u \in H!TellRows(heart), H!Told(m, u), ~H!Told(heart, u) PROVE H!Settles(u)
  <2>1. u = t
    BY <1>3, <1>8 DEF H!Told
  <2> QED
    BY <2>1 DEF H!Settles
<1> QED
  BY <1>2, <1>5, <1>6, <1>7, <1>8, NotingStepIsSafe

LEMMA NothingNoted ==
  ASSUME NEW h \in Hearts, Sound(h)
  PROVE  Noted(h, h)
BY DEF Noted, Sound, TellsAreKept

LEMMA DecidedNotes ==
  ASSUME NEW h \in Hearts, Sound(h), body \in Bodies
  PROVE  /\ Noted(h, H!DecidedOn(h))
         /\ \A u : H!Told(H!DecidedOn(h), u) <=> H!Told(h, u)
<1> DEFINE M == h.members \cup {<<body.n, t>> : t \in H!Pending(h)}
           m == H!DecidedOn(h)
<1>1. ASSUME NEW t \in H!Pending(h) PROVE t \in H!TellRows(h) /\ t \in Whats
  <2>1. t \in H!TellRows(h)
    BY DEF H!Pending
  <2>2. PICK s \in h.rows : h.facts[s].what = t
    BY <2>1 DEF H!TellRows, H!RowsOf
  <2>3. h.facts[s] \in Facts
    BY FactsHaveNumbers DEF Sound
  <2> QED
    BY <2>1, <2>2, <2>3 DEF Facts
<1>2. body.n \in Nat /\ M \subseteq Nat \X Whats
  BY <1>1 DEF Bodies, Hearts
<1>3. m = [h EXCEPT !.members = M]
  BY DEF H!DecidedOn
<1>4. \A x \in M : x[2] \in H!TellRows(h)
  BY <1>1 DEF Sound, TellsAreKept, H!Held
<1> HIDE DEF M, m
<1>5. /\ m \in Hearts /\ m.facts = h.facts /\ m.rows = h.rows /\ m.ends = h.ends
      /\ m.receipts = h.receipts /\ m.deliveries = h.deliveries /\ m.members = M
  BY <1>2, <1>3 DEF Hearts
<1>6. Noted(h, m)
  BY <1>4, <1>5 DEF Noted, H!Held, Sound, TellsAreKept
<1>7. \A u : H!Told(m, u) <=> H!Told(h, u)
  BY <1>5 DEF H!Told
<1> QED
  BY <1>6, <1>7 DEF m

LEMMA DecidingIsUncontrolled ==
  ASSUME TimelineInv, NEW handoff \in BOOLEAN, H!Deciding(handoff)
  PROVE  barrier = None
BY DEF TimelineInv, Kept, Barrier, H!Deciding, H!Controlled

LEMMA DecideIsSafe ==
  ASSUME H!TimelineAssumption, TimelineInv, NEW handoff \in BOOLEAN, H!DecidePendingTells(handoff)
  PROVE  SafeStep
<1>0. heart \in Hearts /\ Sound(heart) /\ Barrier(heart, barrier, body.n) /\ body \in Bodies
  BY DEF TimelineInv, Kept
<1>1. barrier' = barrier /\ body'.n = body.n
  BY <1>0 DEF H!DecidePendingTells, Bodies
<1>2. CASE H!Deciding(handoff)
  <2>1. heart' = H!Prune(H!DecidedOn(heart), FALSE)
    BY <1>2 DEF H!DecidePendingTells
  <2>2. Barrier(H!DecidedOn(heart), barrier', body'.n)
    BY <1>1, <1>2, DecidingIsUncontrolled DEF Barrier
  <2>3. Noted(heart, H!DecidedOn(heart)) /\ \A u : H!Told(H!DecidedOn(heart), u) <=> H!Told(heart, u)
    BY <1>0, DecidedNotes
  <2> QED
    BY <2>1, <2>2, <2>3, NotingStepIsSafe
<1>3. CASE ~H!Deciding(handoff)
  <2>1. heart' = H!Prune(heart, FALSE)
    BY <1>3 DEF H!DecidePendingTells
  <2>2. Barrier(heart, barrier', body'.n)
    BY <1>0, <1>1
  <2>3. Noted(heart, heart)
    BY <1>0, NothingNoted
  <2> QED
    BY <2>1, <2>2, <2>3, NotingStepIsSafe
<1> QED
  BY <1>2, <1>3

LEMMA CancelIsSafe ==
  ASSUME H!TimelineAssumption, TimelineInv, NEW handoff \in BOOLEAN, H!CancelBodyTurns(handoff)
  PROVE  SafeStep
<1> DEFINE canceled == IF H!Current = 0 THEN heart ELSE H!TurnEnded(heart, H!Current, "canceled")
           decides == handoff /\ H!Deciding(handoff)
           m == IF decides THEN H!DecidedOn(canceled) ELSE canceled
           released == H!Current # 0
<1>0. heart \in Hearts /\ Sound(heart) /\ Barrier(heart, barrier, body.n) /\ body \in Bodies
  BY DEF TimelineInv, Kept
<1>1. barrier' = barrier /\ body'.n = body.n
  BY <1>0 DEF H!CancelBodyTurns, Bodies
<1>2. heart' = H!Prune(m, released) /\ released \in BOOLEAN
  BY DEF H!CancelBodyTurns
<1>3. /\ canceled \in Hearts /\ Sound(canceled) /\ Later(heart, canceled) /\ Barrier(canceled, barrier, body.n)
      /\ H!TellRows(heart) \subseteq H!TellRows(canceled)
      /\ \A u : H!Told(canceled, u) <=> H!Told(heart, u)
  <2>1. CASE H!Current = 0
    <3>1. canceled = heart
      BY <2>1
    <3>2. Later(heart, heart)
      BY <1>0, NothingNoted, NotedIsLater
    <3> HIDE DEF canceled
    <3> QED
      BY <3>1, <3>2, <1>0
  <2>2. CASE H!Current # 0
    <3>1. canceled = H!TurnEnded(heart, H!Current, "canceled")
      BY <2>2
    <3>2. H!Current \in H!TurnRows(heart) \ H!TurnsEnded(heart)
      BY <2>2, TurnIsANumber
    <3>3. Appended(heart, H!TurnEnded(heart, H!Current, "canceled"))
      BY <1>0, <3>2, TurnEndedAppends
    <3> HIDE DEF canceled
    <3>4. Appended(heart, canceled)
      BY <3>1, <3>3
    <3> QED
      BY <3>4, <1>0, AppendedSound, AppendedIsLater, AppendedBarrier, AppendedTells, AppendedTold
  <2> QED
    BY <2>1, <2>2
<1> HIDE DEF canceled, released
<1>4. CASE ~decides
  <2>1. m = canceled
    BY <1>4
  <2> HIDE DEF m, decides
  <2>2. heart' = H!Prune(canceled, released) /\ Barrier(canceled, barrier', body'.n)
    BY <2>1, <1>1, <1>2, <1>3
  <2> QED
    BY <2>2, <1>2, <1>3, PrunedStepIsSafe
<1>5. CASE decides
  <2>1. m = H!DecidedOn(canceled) /\ barrier = None
    BY <1>5, DecidingIsUncontrolled
  <2> HIDE DEF m, decides
  <2>2. Noted(canceled, m) /\ \A u : H!Told(m, u) <=> H!Told(canceled, u)
    BY <2>1, <1>0, <1>3, DecidedNotes
  <2>3. m \in Hearts /\ Sound(m) /\ H!TellRows(m) = H!TellRows(canceled)
    BY <2>2, <1>3, NotedSound
  <2>4. Later(heart, m)
    BY <2>2, <1>3 DEF Noted, Later
  <2>5. Barrier(m, barrier', body'.n)
    BY <2>1, <1>1 DEF Barrier
  <2>6. H!TellRows(heart) \subseteq H!TellRows(m) /\ \A u : H!Told(m, u) <=> H!Told(heart, u)
    BY <2>2, <2>3, <1>3
  <2> QED
    BY <2>3, <2>4, <2>5, <2>6, <1>2, PrunedStepIsSafe
<1> QED
  BY <1>4, <1>5

LEMMA MembersAreHeld ==
  ASSUME NEW b
  PROVE  H!MembersOf(b) \subseteq H!Held(heart)
BY DEF H!MembersOf, H!Held

(* A decision is let go of, with some of its Tells given up.               *)
LEMMA ReleaseIsSafe ==
  ASSUME H!TimelineAssumption, TimelineInv, NEW b, NEW G, G \subseteq H!MembersOf(b) \cap H!Pending(heart),
         NEW h, h.members = heart.members, h = [heart EXCEPT !.receipts = heart.receipts \cup G],
         H!Release(b, h), \A t \in G : H!Settles(t)
  PROVE  SafeStep
<1> DEFINE M == {x \in h.members : x[1] # b}
           m == [h EXCEPT !.members = M]
<1>0. heart \in Hearts /\ Sound(heart) /\ Barrier(heart, barrier, body.n)
  BY DEF TimelineInv, Kept
<1>1. heart' = H!Prune(m, TRUE) /\ barrier' = barrier /\ body' = body
  BY DEF H!Release
<1>2. ASSUME NEW t \in G PROVE t \in H!TellRows(heart) /\ t \in H!Held(heart) /\ t \in Whats
  <2>1. t \in H!Held(heart)
    BY MembersAreHeld
  <2> QED
    BY <2>1, <1>0 DEF Sound, TellsAreKept, H!Held, Hearts
<1>3. M \subseteq heart.members
  OBVIOUS
<1> HIDE DEF M
<1>4. /\ h \in Hearts /\ h.facts = heart.facts /\ h.rows = heart.rows /\ h.ends = heart.ends
      /\ h.receipts = heart.receipts \cup G /\ h.deliveries = heart.deliveries
  BY <1>0, <1>2 DEF Hearts
<1>5. /\ m \in Hearts /\ m.facts = heart.facts /\ m.rows = heart.rows /\ m.ends = heart.ends
      /\ m.receipts = heart.receipts \cup G /\ m.deliveries = heart.deliveries /\ m.members = M
  BY <1>0, <1>3, <1>4 DEF Hearts
<1> HIDE DEF m
<1>6. H!Held(m) \subseteq H!Held(heart) /\ H!TellRows(m) = H!TellRows(heart)
  BY <1>3, <1>5 DEF H!Held, H!TellRows, H!RowsOf
<1>7. Noted(heart, m)
  BY <1>0, <1>2, <1>5, <1>6 DEF Noted, Sound, TellsAreKept
<1>8. Barrier(m, barrier', body'.n)
  BY <1>0, <1>1, <1>2, <1>5, <1>6 DEF Barrier
<1>9. \A t : H!Told(heart, t) => H!Told(m, t)
  BY <1>5 DEF H!Told
<1>10. ASSUME NEW t \in H!TellRows(heart), H!Told(m, t), ~H!Told(heart, t) PROVE H!Settles(t)
  BY <1>5, <1>10 DEF H!Told
<1> QED
  BY <1>1, <1>7, <1>8, <1>9, <1>10, NotingStepIsSafe

LEMMA ResolveIsSafe ==
  ASSUME H!TimelineAssumption, TimelineInv, NEW b \in 1..MaxBodies, NEW undelivered \in BOOLEAN,
         H!ResolveDisposition(b, undelivered)
  PROVE  SafeStep
<1>0. heart \in Hearts
  BY DEF TimelineInv
<1> DEFINE given == undelivered /\ ~H!Controlled(b)
           G == IF given THEN H!MembersOf(b) \cap H!Pending(heart) ELSE {}
           h == [heart EXCEPT !.receipts = heart.receipts \cup G]
<1>1. h.members = heart.members /\ G \subseteq H!MembersOf(b) \cap H!Pending(heart)
  BY <1>0 DEF Hearts
<1>2. ~given => h = heart
  BY <1>0 DEF Hearts
<1>3. H!Release(b, h)
  <2>1. CASE given
    BY <2>1 DEF H!ResolveDisposition
  <2>2. CASE ~given
    <3>1. H!Release(b, heart)
      BY <2>2 DEF H!ResolveDisposition
    <3> QED
      BY <3>1, <2>2, <1>2
  <2> QED
    BY <2>1, <2>2
<1>4. ASSUME NEW t \in G PROVE H!Settles(t)
  <2>1. undelivered = TRUE /\ t \in H!MembersOf(b)
    BY <1>4
  <2>2. H!ResolveDisposition(b, TRUE)
    BY <2>1
  <2> QED
    BY <2>1, <2>2 DEF H!Settles
<1> HIDE DEF G, given
<1> QED
  BY <1>1, <1>3, <1>4, ReleaseIsSafe

LEMMA KillIsSafe ==
  ASSUME H!TimelineAssumption, TimelineInv, H!WitnessKill
  PROVE  SafeStep
<1> DEFINE G == {}
           h == [heart EXCEPT !.receipts = heart.receipts \cup G]
<1>1. h = heart
  BY DEF TimelineInv, Hearts
<1>2. H!Release(body.n, h)
  BY <1>1 DEF H!WitnessKill
<1>3. h.members = heart.members
  BY <1>1
<1>4. G \subseteq H!MembersOf(body.n) \cap H!Pending(heart) /\ \A t \in G : H!Settles(t)
  OBVIOUS
<1> HIDE DEF G
<1> QED
  BY <1>2, <1>3, <1>4, ReleaseIsSafe

LEMMA BodyStaysTyped ==
  ASSUME TimelineInv, [H!Next]_(H!vars)
  PROVE  body' \in Bodies
<1>1. body \in Bodies
  BY DEF TimelineInv
<1>2. CASE H!RecordBody
  BY <1>1, <1>2 DEF H!RecordBody, Bodies
<1>3. CASE H!FinishBodyIfIdle
  BY <1>1, <1>3 DEF H!FinishBodyIfIdle, Bodies
<1>4. ASSUME NEW handoff \in BOOLEAN, H!DecidePendingTells(handoff) PROVE body' \in Bodies
  BY <1>1, <1>4 DEF H!DecidePendingTells, Bodies
<1>5. ASSUME NEW handoff \in BOOLEAN, H!CancelBodyTurns(handoff) PROVE body' \in Bodies
  BY <1>1, <1>5 DEF H!CancelBodyTurns, Bodies
<1>6. CASE \/ \E withCall \in BOOLEAN : H!BeginTurn(withCall)
           \/ \E event \in Activities : H!AppendActivity(event)
           \/ H!RecordReport
           \/ \E t \in Tells : H!RecordTell(t) \/ H!RecordInterrupt(t)
           \/ \E t \in Tells : \E route \in {"launch", "unavailable", "required"} : H!RecordTellDelivery(t, route)
           \/ \E t \in Tells : \E evidence \in {"exact", "fence"} : H!RecordTellReceipt(t, evidence)
           \/ \E outcome \in Outcomes : H!EndTurn(outcome)
           \/ \E b \in 1..MaxBodies, undelivered \in BOOLEAN : H!ResolveDisposition(b, undelivered)
           \/ H!WitnessKill
           \/ UNCHANGED H!vars
  <2>1. body' = body
    BY <1>6 DEF H!BeginTurn, H!AppendActivity, H!RecordReport, H!RecordTell, H!RecordInterrupt, H!RecordTellDelivery,
                H!RecordTellReceipt, H!EndTurn, H!ResolveDisposition, H!WitnessKill, H!Release, H!vars
  <2> QED
    BY <1>1, <2>1
<1> QED
  BY <1>2, <1>3, <1>4, <1>5, <1>6 DEF H!Next

LEMMA StepsAreSafe ==
  ASSUME H!TimelineAssumption, TimelineInv, [H!Next]_(H!vars)
  PROVE  TimelineInv' /\ TellsAreSafe /\ RowsAreSafe
<1>1. SafeStep
  <2>1. CASE H!RecordBody
    BY <2>1, RecordBodyIsSafe
  <2>2. CASE \E withCall \in BOOLEAN : H!BeginTurn(withCall)
    BY <2>2, BeginTurnIsSafe
  <2>3. CASE \E event \in Activities : H!AppendActivity(event)
    BY <2>3, ActivityIsSafe
  <2>4. CASE H!RecordReport
    BY <2>4, ReportIsSafe
  <2>5. CASE \E t \in Tells : H!RecordTell(t)
    BY <2>5, TellIsSafe
  <2>6. CASE \E t \in Tells : H!RecordInterrupt(t)
    BY <2>6, InterruptIsSafe
  <2>7. CASE \E t \in Tells : \E route \in {"launch", "unavailable", "required"} : H!RecordTellDelivery(t, route)
    BY <2>7, DeliveryIsSafe
  <2>8. CASE \E t \in Tells : \E evidence \in {"exact", "fence"} : H!RecordTellReceipt(t, evidence)
    BY <2>8, ReceiptIsSafe
  <2>9. CASE \E outcome \in Outcomes : H!EndTurn(outcome)
    BY <2>9, EndTurnIsSafe
  <2>10. CASE H!FinishBodyIfIdle
    BY <2>10, FinishBodyIsSafe
  <2>11. CASE \E handoff \in BOOLEAN : H!DecidePendingTells(handoff)
    BY <2>11, DecideIsSafe
  <2>12. CASE \E handoff \in BOOLEAN : H!CancelBodyTurns(handoff)
    BY <2>12, CancelIsSafe
  <2>13. CASE \E b \in 1..MaxBodies, undelivered \in BOOLEAN : H!ResolveDisposition(b, undelivered)
    BY <2>13, ResolveIsSafe
  <2>14. CASE H!WitnessKill
    BY <2>14, KillIsSafe
  <2>15. CASE UNCHANGED H!vars
    <3>1. heart' = heart /\ barrier' = barrier /\ body' = body
      BY <2>15 DEF H!vars
    <3> QED
      BY <3>1, RestingStepIsSafe
  <2> QED
    BY <2>1, <2>2, <2>3, <2>4, <2>5, <2>6, <2>7, <2>8, <2>9, <2>10, <2>11, <2>12, <2>13, <2>14, <2>15 DEF H!Next
<1>2. body' \in Bodies
  BY BodyStaysTyped
<1> QED
  BY <1>1, <1>2 DEF SafeStep, TimelineInv, Kept

LEMMA InvStarts ==
  ASSUME H!Init
  PROVE  TimelineInv
<1>1. heart \in Hearts
  BY DEF H!Init, Hearts
<1>2. body \in Bodies
  BY DEF H!Init, Bodies
<1>3. heart.facts = <<>> /\ heart.rows = {} /\ heart.ends = {} /\ heart.deliveries = {} /\ heart.receipts = {}
      /\ heart.members = {} /\ barrier = None
  BY DEF H!Init
<1>4. Sound(heart)
  BY <1>3 DEF Sound, Chronicle, EndsAreKept, Decodes, OpenIsKept, TellsAreKept, DeliveriesAreKept, H!Turns, H!Kind, H!Held
<1> QED
  BY <1>1, <1>2, <1>3, <1>4 DEF TimelineInv, Kept, Barrier

LEMMA KeptDecodes ==
  ASSUME TimelineInv
  PROVE  H!TimelineDecodes /\ H!HeldFactsKept
<1>1. H!TimelineDecodes
  BY DEF TimelineInv, Kept, Sound, Decodes, H!TimelineDecodes
<1>2. H!HeldFactsKept
  BY DEF TimelineInv, Kept, Sound, OpenIsKept, TellsAreKept, Barrier, H!HeldFactsKept
<1> QED
  BY <1>1, <1>2

(* The invariant of the timeline, whatever is inserted and pruned.         *)
LEMMA TimelineInvariant == H!TimelineAssumption => (H!Spec => []TimelineInv)
<1> SUFFICES ASSUME H!TimelineAssumption PROVE H!Spec => []TimelineInv
  OBVIOUS
<1>1. H!Init => TimelineInv
  BY InvStarts
<1>2. TimelineInv /\ [H!Next]_(H!vars) => TimelineInv'
  BY StepsAreSafe
<1> QED
  BY <1>1, <1>2, PTL DEF H!Spec

(* Pruning is safe, for any limit, any slack and any number of facts: what *)
(* is left can be decoded, every open Turn, its call, the Tells of an open *)
(* decision and the Tell of an interrupt are there, a pending Tell is lost *)
(* only in the step that tells it, and none turns pending again.           *)
THEOREM PruningTakesNothingThatIsAwaited == H!TimelineAssumption => (H!Spec => H!PruningIsSafe)
<1> SUFFICES ASSUME H!TimelineAssumption PROVE H!Spec => H!PruningIsSafe
  OBVIOUS
<1>1. TimelineInv => H!TimelineDecodes /\ H!HeldFactsKept
  BY KeptDecodes
<1>2. TimelineInv /\ [H!Next]_(H!vars) => TimelineInv' /\ TellsAreSafe
  BY StepsAreSafe
<1>3. H!Spec => []TimelineInv
  BY TimelineInvariant
<1>4. TimelineInv' => H!TimelineDecodes' /\ H!HeldFactsKept'
  BY <1>1, PTL
<1>5. TimelineInv /\ [H!Next]_(H!vars) =>
        [/\ H!TimelineDecodes' /\ H!HeldFactsKept'
         /\ \A t \in H!TellRows(heart) :
              IF H!Told(heart, t) THEN t \in H!TellRows(heart') => H!Told(heart', t)
              ELSE t \notin H!TellRows(heart') => H!Settles(t)]_(H!vars)
  BY <1>2, <1>4 DEF TellsAreSafe
<1> QED
  BY <1>3, <1>5, PTL DEF H!Spec, H!PruningIsSafe

(* No row of the history appears before the end that a reader has passed.  *)
THEOREM ReadersAreNeverOvertaken == H!TimelineAssumption => (H!Spec => H!RowsOnlyAppend)
<1> SUFFICES ASSUME H!TimelineAssumption PROVE H!Spec => H!RowsOnlyAppend
  OBVIOUS
<1>1. TimelineInv /\ [H!Next]_(H!vars) =>
        [\A row \in H!Rows(H!Timeline(heart')) :
           \/ row.sequence > Len(heart.facts)
           \/ \E old \in H!Rows(H!Timeline(heart)) : old.sequence = row.sequence]_(H!vars)
  BY StepsAreSafe DEF RowsAreSafe
<1>2. H!Spec => []TimelineInv
  BY TimelineInvariant
<1> QED
  BY <1>1, <1>2, PTL DEF H!Spec, H!RowsOnlyAppend
=============================================================================
