------------------------------ MODULE AkumaCalls ------------------------------
(* How an Akuma comes into being, gets its Contract and its name, and how an  *)
(* old one is retired. A caller reserves a directory, launches a Body and     *)
(* waits for the proof of birth: a Soul that the Body writes under the        *)
(* Akuma's leash, or a Seal that whoever gets the leash first writes instead. *)
(* What comes after the birth never takes it back. A call that returned ends  *)
(* with one sweep over the entries that nobody has used for long.             *)
(*                                                                            *)
(* Sources: library/akuma-creation, library/akuma-retention, akuma/publication,*)
(* akuma/retention, akuma/custody, akuma/call-initial-tell, alias, dispatch.  *)
EXTENDS Naturals, FiniteSets

CONSTANTS
    Callers,    \* processes that call or fork; each makes one Akuma
    Elders,     \* Akumas that were there before
    Names,      \* aliases
    Contracts,
    None,
    Scenarios   \* what is asked, how things stand, and what may go wrong

(* A new Akuma is known by its caller.                                       *)
Akumas == Callers \cup Elders
Locks == Akumas \cup {"seat", "alias"}

ASSUME CallsAssumption ==
    /\ None \notin Akumas \cup Contracts \cup {"host", "peek"}
    /\ {"seat", "alias"} \cap Akumas = {}
    /\ {"host", "peek"} \cap Callers = {}
    /\ Callers \cap Elders = {}

(* A scene says where callers begin, what they ask, how often each kind of   *)
(* trouble comes and what may grow old. Where a caller may die, its own child *)
(* does not grow old while it is at work.                                    *)
Kinds == {"abort", "failure", "death", "peek", "tell", "wake", "end"}
Asks == [kind : {"call", "fork", "none"}, tell : BOOLEAN, contract : Contracts \cup {None},
         name : Names \cup {None}, parent : Akumas]
Scenes == [from : [Callers -> {"idle", "born"}], asks : [Callers -> Asks], left : [Kinds -> Nat],
           aging : SUBSET Akumas, dispatched : Contracts \cup {None}, alias : [Names -> Akumas \cup {None}]]

ASSUME ScenariosAssumption ==
    /\ Scenarios \subseteq Scenes
    /\ \A s \in Scenarios : s.left["death"] = 0 \/ s.aging \cap Callers = {}

VARIABLES
    scene,      \* how often each kind of trouble may still happen, who may grow old
    entry,      \* per Akuma: its directory, Soul, Seal, latest Body, pending input
    holder,     \* who holds each leash, the publication seat and the alias lock
    host,       \* the process or task that runs an Akuma's Body
    call,       \* per caller: where it is and what it knows
    root,       \* how many commits the private ref has
    dispatch,   \* Akuma -> the Contract it was sent for
    orphans,    \* ref transactions whose keiyaku process is dead
    alias,      \* name -> Akuma
    terminal    \* Contracts that are claimed or abandoned

vars == <<scene, entry, holder, host, call, root, dispatch, orphans, alias, terminal>>
git == <<root, dispatch, orphans, terminal>>

NewCall(at, ask) ==
    [at |-> at, ask |-> ask, aborted |-> FALSE, cause |-> "none",
     failure |-> FALSE, yielded |-> FALSE, receipt |-> FALSE, result |-> "none",
     stage |-> "none", contract |-> ask.contract, named |-> "none",
     seen |-> None, todo |-> {}, victim |-> None]

Entry(place, old) ==
    [place |-> place, soul |-> old, seal |-> FALSE, body |-> IF old THEN "exited" ELSE "none",
     pending |-> FALSE, aged |-> FALSE, late |-> FALSE]

(* A caller is idle at first, or has just had its child confirmed ("born"),  *)
(* which is at rest then as an elder is.                                     *)
Init == \E s \in Scenarios :
    /\ scene = [left |-> s.left, aging |-> s.aging]
    /\ entry = [a \in Akumas |-> IF a \in Elders \/ s.from[a] = "born" THEN Entry("ready", TRUE)
                                ELSE Entry("none", FALSE)]
    /\ holder = [l \in Locks |-> None]
    /\ host = [a \in Akumas |-> [at |-> "none", wake |-> FALSE, canceled |-> FALSE]]
    /\ call = [p \in Callers |-> NewCall(s.from[p], s.asks[p])]
    /\ root = 0 /\ orphans = {}
    /\ dispatch = [a \in Akumas |-> IF a \in Elders THEN s.dispatched ELSE None]
    /\ alias = s.alias
    /\ terminal = {}

-----------------------------------------------------------------------------
(* What can be seen of an entry                                              *)

Takable(a) == entry[a].place = "ready" /\ holder[a] = None
Taken(a) == entry[a].place = "ready" /\ holder[a] # None
Over(a) == host[a].at \in {"gone", "failed"}
Quiet(a) == host[a].at \in {"none", "gone", "failed"}
Settled(a) == entry[a].body \in {"exited", "broken"}

Stopped(a) == entry[a].soul /\ Settled(a) /\ ~entry[a].pending

(* The heart's own judgment of an entry that may be retired.                 *)
Eligible(a) == Stopped(a) /\ entry[a].aged

(* A Dispatch that need not keep its Akuma.                                  *)
Detached(a) == dispatch[a] = None \/ dispatch[a] \in terminal
Unnamed(a) == \A n \in Names : alias[n] # a

Spend(kind) ==
    /\ scene.left[kind] > 0
    /\ scene' = [scene EXCEPT !.left[kind] = @ - 1]
Goto(p, at) == call' = [call EXCEPT ![p].at = at]
Take(l, p) == holder[l] = None /\ holder' = [holder EXCEPT ![l] = p]
Sealed(a) == entry' = [entry EXCEPT ![a].seal = TRUE]

(* The Seal lies in the leash's database and the Soul in the heart's: that   *)
(* nobody bears a child between the look and the Seal is the leash's doing.  *)
Undecided(a) == ~entry[a].soul /\ ~entry[a].seal

-----------------------------------------------------------------------------
(* The host of a Body                                                        *)

HostAt(a, at) == host' = [host EXCEPT ![a].at = at]
Leave(a, at) ==
    /\ HostAt(a, at)
    /\ holder' = IF holder[a] = "host" THEN [holder EXCEPT ![a] = None] ELSE holder

(* A birth waits for the leash, a wake does not; a leash file that is gone   *)
(* or a launch that is canceled ends the host.                               *)
HostTakes(a) ==
    /\ host[a].at = "starting"
    /\ \/ Takable(a) /\ ~host[a].canceled /\ Take(a, "host") /\ HostAt(a, "seated")
       \/ /\ host[a].canceled \/ entry[a].place # "ready" \/ (Taken(a) /\ host[a].wake)
          /\ Leave(a, "gone")
    /\ UNCHANGED <<scene, entry, call, alias, git>>

(* Mutation: a Seal does not keep a Body from being born.                    *)
LookPastSeal(a) ==
    /\ host[a].at = "seated" /\ ~host[a].wake /\ ~host[a].canceled
    /\ HostAt(a, "bearing")
    /\ UNCHANGED <<scene, entry, holder, call, alias, git>>
(* Under the leash a Seal is looked for, and then the Soul is written.       *)
HostLooks(a) ==
    /\ host[a].at = "seated" /\ ~host[a].wake /\ ~host[a].canceled
    /\ IF entry[a].seal THEN Leave(a, "gone") ELSE HostAt(a, "bearing") /\ UNCHANGED holder
    /\ UNCHANGED <<scene, entry, call, alias, git>>
HostBears(a) ==
    /\ host[a].at = "bearing"
    /\ entry' = [entry EXCEPT ![a].soul = TRUE]
    /\ HostAt(a, "souled")
    /\ UNCHANGED <<scene, holder, call, alias, git>>

(* A wake has work only while a Tell is pending.                             *)
HostWakes(a) ==
    /\ host[a].at = "seated" /\ host[a].wake
    /\ IF entry[a].pending THEN HostAt(a, "souled") /\ UNCHANGED holder ELSE Leave(a, "gone")
    /\ UNCHANGED <<scene, entry, call, alias, git>>

HostRecords(a) ==
    /\ host[a].at = "souled" /\ ~host[a].canceled
    /\ entry' = [entry EXCEPT ![a].body = "open", ![a].aged = FALSE]
    /\ HostAt(a, "driving")
    /\ UNCHANGED <<scene, holder, call, alias, git>>

(* The Body's end: it takes what is pending and exits, or it breaks off or,  *)
(* canceled, is put down.                                                    *)
HostDrives(a) ==
    /\ host[a].at = "driving"
    /\ \/ /\ entry' = [entry EXCEPT ![a].body = "exited", ![a].pending = FALSE, ![a].late = FALSE]
          /\ UNCHANGED scene
       \/ /\ IF host[a].canceled THEN UNCHANGED scene ELSE Spend("failure")
          /\ entry' = [entry EXCEPT ![a].body = "broken"]
    /\ HostAt(a, "settled")
    /\ UNCHANGED <<holder, call, alias, git>>

(* A second host would find the leash held and leave.                        *)
Wake(a) ==
    host' = IF Quiet(a) THEN [host EXCEPT ![a] = [at |-> "starting", wake |-> TRUE, canceled |-> FALSE]]
            ELSE host

HostReleases(a) ==
    /\ host[a].at = "settled"
    /\ Leave(a, "gone")
    /\ UNCHANGED <<scene, entry, call, alias, git>>

(* A failure before the Body is recorded, or a cancellation that the host    *)
(* notices by itself: an unborn child is sealed before the leash is released. *)
HostFails(a) ==
    /\ host[a].at \in {"seated", "bearing", "souled"}
    /\ IF host[a].canceled THEN HostAt(a, "aborting") /\ UNCHANGED scene
                           ELSE HostAt(a, "failing") /\ Spend("failure")
    /\ UNCHANGED <<entry, holder, call, alias, git>>
HostSeals(a) ==
    /\ host[a].at \in {"failing", "aborting"}
    /\ IF Undecided(a) THEN Sealed(a) ELSE UNCHANGED entry
    /\ Leave(a, IF host[a].at = "failing" THEN "failed" ELSE "gone")
    /\ UNCHANGED <<scene, call, alias, git>>

(* A detached host that is canceled is killed; any host may die.             *)
HostDies(a) ==
    /\ ~Quiet(a)
    /\ IF host[a].canceled THEN UNCHANGED scene ELSE Spend("death")
    /\ Leave(a, "gone")
    /\ UNCHANGED <<entry, call, alias, git>>

HostStep(a) ==
    \/ HostTakes(a) \/ HostLooks(a) \/ HostBears(a) \/ HostWakes(a) \/ HostRecords(a)
    \/ HostDrives(a) \/ HostReleases(a) \/ HostFails(a) \/ HostSeals(a)

-----------------------------------------------------------------------------
(* Publication of a child                                                    *)

Fork(p) == call[p].ask.kind = "fork"

Allocate(p) ==
    /\ call[p].at = "idle" /\ call[p].ask.kind # "none"
    /\ entry' = [entry EXCEPT ![p].place = "allocated"]
    /\ Goto(p, "allocated")
    /\ UNCHANGED <<scene, holder, host, alias, git>>

(* The heart's file and then the leash's. A caller that was aborted, or whose *)
(* observer could not be set up, still owes the coordinate a seal.           *)
InitializeHeart(p) ==
    /\ call[p].at = "allocated"
    /\ entry' = [entry EXCEPT ![p].place = "leashless"]
    /\ Goto(p, "initializing")
    /\ UNCHANGED <<scene, holder, host, alias, git>>
InitializeLeash(p) ==
    /\ call[p].at = "initializing"
    /\ entry' = [entry EXCEPT ![p].place = "ready"]
    /\ \/ Goto(p, IF call[p].aborted THEN "sealing" ELSE "launching") /\ UNCHANGED scene
       \/ Spend("failure") /\ Goto(p, "sealing")
    /\ UNCHANGED <<holder, host, alias, git>>

Launch(p) ==
    /\ call[p].at = "launching"
    /\ \/ /\ ~call[p].aborted
          /\ host' = [host EXCEPT ![p] = [at |-> "starting", wake |-> FALSE, canceled |-> FALSE]]
          /\ Goto(p, "awaiting")
          /\ UNCHANGED scene
       \/ call[p].aborted /\ Goto(p, "sealing") /\ UNCHANGED <<scene, host>>
       \/ Spend("failure") /\ Goto(p, "sealing") /\ UNCHANGED host
    /\ UNCHANGED <<entry, holder, alias, git>>

(* Mutation: the look needs no leash.                                        *)
GraspLoosely(p) ==
    /\ holder[p] # p /\ holder' = [holder EXCEPT ![p] = p]
    /\ call' = [call EXCEPT ![p].seen = Undecided(p)]
(* Who wants to seal takes the leash and looks, and seals what it saw        *)
(* undecided before it lets go. Whoever else holds the leash decides.        *)
Grasp(p) ==
    /\ Takable(p) /\ Take(p, p)
    /\ call' = [call EXCEPT ![p].seen = Undecided(p)]
Conclude(p) ==
    /\ holder[p] = p /\ holder' = [holder EXCEPT ![p] = None]
    /\ IF call[p].seen THEN Sealed(p) ELSE UNCHANGED entry
Beaten(p) == ~Takable(p) /\ holder[p] # p

(* Nothing was launched: the seal is written if the leash can be had.        *)
SealLocal(p) ==
    /\ call[p].at = "sealing"
    /\ \/ Grasp(p) /\ UNCHANGED entry
       \/ Conclude(p) /\ call' = [call EXCEPT ![p].at = "judging", ![p].seen = None]
       \/ Beaten(p) /\ call' = [call EXCEPT ![p].at = "judging", ![p].yielded = TRUE]
          /\ UNCHANGED <<entry, holder>>
    /\ UNCHANGED <<scene, host, alias, git>>

Confirmed(p) == IF Fork(p) THEN "resting" ELSE "born"
Trouble(p, cause) == call' = [call EXCEPT ![p].at = "settling", ![p].cause = cause]

(* One look of the wait for birth: an abort, the Soul, the Seal, the host's end. *)
AwaitBirth(p) ==
    /\ call[p].at = "awaiting"
    /\ holder[p] # p
    /\ \/ call[p].aborted /\ Trouble(p, "abort")
       \/ ~call[p].aborted /\ entry[p].soul /\ Goto(p, Confirmed(p))
       \/ /\ ~call[p].aborted /\ ~entry[p].soul
          /\ (Takable(p) /\ entry[p].seal) \/ Over(p)
          /\ Trouble(p, "failure")
    /\ UNCHANGED <<scene, entry, holder, host, alias, git>>

(* Thirty seconds without a Soul: under the leash the child is born or sealed; *)
(* a held leash makes the caller force the host down.                        *)
TimeOut(p) ==
    /\ call[p].at = "awaiting"
    /\ \/ ~call[p].aborted /\ Grasp(p) /\ UNCHANGED <<entry, host>>
       \/ /\ Conclude(p)
          /\ call' = IF entry[p].soul
                       THEN [call EXCEPT ![p].at = Confirmed(p), ![p].seen = None]
                       ELSE [call EXCEPT ![p].at = "settling", ![p].cause = "failure", ![p].seen = None]
          /\ UNCHANGED host
       \/ /\ ~call[p].aborted /\ Beaten(p)
          /\ host' = IF Over(p) THEN host ELSE [host EXCEPT ![p].canceled = TRUE]
          /\ Trouble(p, "failure")
          /\ UNCHANGED <<entry, holder>>
    /\ UNCHANGED <<scene, alias, git>>

(* A fork is confirmed only when its first Body has exited cleanly.          *)
AwaitAsleep(p) ==
    /\ call[p].at = "resting"
    /\ \/ Takable(p) /\ entry[p].body = "exited" /\ Goto(p, "born")
       \/ (Takable(p) => entry[p].body # "exited") /\ Trouble(p, "failure")
    /\ UNCHANGED <<scene, entry, holder, host, alias, git>>

(* What settling a launch comes to: an abort that meets a born child is no   *)
(* failure; every other cause goes on to be judged by the child's own evidence. *)
Outcome(p, born) == IF born /\ call[p].cause = "abort" THEN "born" ELSE "judging"

(* A Soul settles it at once, after a second for the host to leave. Without  *)
(* one the host is told to end.                                              *)
Settle(p) ==
    /\ call[p].at = "settling"
    /\ IF entry[p].soul
         THEN /\ Goto(p, Outcome(p, host[p].at = "gone" \/ (~Over(p) /\ Takable(p))))
              /\ UNCHANGED host
         ELSE /\ host' = IF Over(p) THEN host ELSE [host EXCEPT ![p].canceled = TRUE]
              /\ Goto(p, "closing")
    /\ UNCHANGED <<scene, entry, holder, alias, git>>

(* A last look at the Soul, then the judgment under the leash.               *)
CloseBirth(p) ==
    /\ call[p].at = "closing"
    /\ \/ ~entry[p].soul /\ Grasp(p) /\ UNCHANGED entry
       \/ /\ Conclude(p)
          /\ call' = [call EXCEPT ![p].at = Outcome(p, entry[p].soul), ![p].seen = None]
       \/ /\ Beaten(p) \/ (entry[p].soul /\ holder[p] # p)
          /\ call' = [call EXCEPT ![p].at = Outcome(p, entry[p].soul), ![p].yielded = ~entry[p].soul]
          /\ UNCHANGED <<entry, holder>>
    /\ UNCHANGED <<scene, host, alias, git>>

(* Mutation: the caught failure is reported, whatever the child's evidence.  *)
JudgeByError(p) ==
    /\ call[p].at = "judging"
    /\ call' = [call EXCEPT ![p].at = "ended", ![p].result = IF Fork(p) THEN "upstream" ELSE "failed"]
    /\ UNCHANGED <<scene, entry, holder, host, alias, git>>
(* A call looks once more whether its child was born; a fork does not.       *)
Judge(p) ==
    /\ call[p].at = "judging"
    /\ call' = IF Fork(p) THEN [call EXCEPT ![p].at = "ended", ![p].result = "upstream"]
               ELSE IF entry[p].soul THEN [call EXCEPT ![p].at = "dispatching", ![p].failure = TRUE]
               ELSE [call EXCEPT ![p].at = "ended", ![p].result = "failed"]
    /\ UNCHANGED <<scene, entry, holder, host, alias, git>>

(* The first Tell waits for the birth's Body to be asleep, is recorded, and  *)
(* wakes a host; anything else is a failure beside a born child.             *)
FirstTell(p) ==
    /\ call[p].at = "born"
    /\ \/ ~call[p].ask.tell /\ Goto(p, "dispatching") /\ UNCHANGED entry
       \/ /\ call[p].ask.tell /\ ~call[p].aborted
          /\ entry[p].body = "exited" /\ Takable(p)
          /\ entry' = [entry EXCEPT ![p].pending = TRUE, ![p].aged = FALSE]
          /\ Goto(p, "waking")
       \/ /\ call[p].ask.tell
          /\ call[p].aborted \/ Taken(p) \/ entry[p].body # "exited" \/ entry[p].place # "ready"
          /\ call' = [call EXCEPT ![p].at = "dispatching", ![p].failure = TRUE]
          /\ UNCHANGED entry
    /\ UNCHANGED <<scene, holder, host, alias, git>>
FirstWake(p) ==
    /\ call[p].at = "waking"
    /\ \/ ~call[p].aborted /\ Wake(p) /\ Goto(p, "watching")
       \/ /\ call[p].aborted
          /\ call' = [call EXCEPT ![p].at = "dispatching", ![p].failure = TRUE]
          /\ UNCHANGED host
    /\ UNCHANGED <<scene, entry, holder, alias, git>>
Watch(p) ==
    /\ call[p].at = "watching"
    /\ \/ /\ ~entry[p].pending \/ Quiet(p) \/ host[p].at = "driving"
          /\ call' = [call EXCEPT ![p].at = "dispatching", ![p].receipt = TRUE]
       \/ /\ call[p].aborted
          /\ call' = [call EXCEPT ![p].at = "dispatching", ![p].failure = TRUE]
    /\ UNCHANGED <<scene, entry, holder, host, alias, git>>

-----------------------------------------------------------------------------
(* The Contract it was sent for                                              *)

(* What becomes of it is a stage of the answer: "dispatched", "failed" (not   *)
(* published, by what was read) or "thrown" (an exception on the way).       *)
(* A fork carries its parent's Contract to the child, if there is one.       *)
Associate(p) ==
    /\ call[p].at = "dispatching"
    /\ \/ /\ LET contract == IF Fork(p) THEN dispatch[call[p].ask.parent] ELSE call[p].ask.contract IN
               call' = [call EXCEPT ![p].at = IF contract = None THEN "naming" ELSE "seating",
                                    ![p].contract = contract]
          /\ UNCHANGED scene
       \/ /\ Fork(p) /\ Spend("failure")
          /\ call' = [call EXCEPT ![p].at = "naming", ![p].stage = "thrown"]
    /\ UNCHANGED <<entry, holder, host, alias, git>>

TakeSeat(p) ==
    /\ call[p].at = "seating"
    /\ \/ /\ Take("seat", p)
          /\ call' = [call EXCEPT ![p].at = "publishing", ![p].seen = root]
       \/ /\ holder["seat"] # None
          /\ call' = [call EXCEPT ![p].at = "naming", ![p].stage = "thrown"]
          /\ UNCHANGED holder
    /\ UNCHANGED <<scene, entry, host, alias, git>>

Commit(a, contract) == root' = root + 1 /\ dispatch' = [dispatch EXCEPT ![a] = contract]

(* The one ref transaction: compared with what was read under the seat, and  *)
(* lost or not when Git is killed.                                           *)
Publish(p) ==
    /\ call[p].at = "publishing"
    /\ \/ /\ root = call[p].seen /\ Commit(p, call[p].contract)
          /\ Goto(p, "reading back") /\ UNCHANGED scene
       \/ /\ root # call[p].seen
          /\ Goto(p, "reading back") /\ UNCHANGED <<scene, root, dispatch>>
       \/ /\ Spend("failure")
          /\ \/ root = call[p].seen /\ Commit(p, call[p].contract)
             \/ UNCHANGED <<root, dispatch>>
          /\ call' = [call EXCEPT ![p].at = "reading back", ![p].cause = "killed"]
    /\ UNCHANGED <<entry, holder, host, alias, orphans, terminal>>

(* Mutation: a publication whose outcome is unknown counts as none.          *)
AssumeLost(p) ==
    /\ call[p].at = "reading back"
    /\ holder' = [holder EXCEPT !["seat"] = None]
    /\ call' = [call EXCEPT ![p].at = "naming", ![p].seen = None,
                            ![p].stage = IF call[p].cause # "killed" /\ dispatch[p] = call[p].contract
                                         THEN "dispatched" ELSE "failed"]
    /\ UNCHANGED <<scene, entry, host, alias, git>>
(* Git's success is believed; whatever else it said, what is durably there is *)
(* the outcome. That read, or the release of the seat, may throw.            *)
Readings(p) ==
    IF dispatch[p] = call[p].contract
      THEN {"dispatched"} \cup (IF call[p].cause = "killed" THEN {"thrown"} ELSE {})
      ELSE {"failed", "thrown"}
ReadBack(p) ==
    /\ call[p].at = "reading back"
    /\ holder' = [holder EXCEPT !["seat"] = None]
    /\ \E stage \in Readings(p) :
         call' = [call EXCEPT ![p].at = "naming", ![p].seen = None, ![p].stage = stage]
    /\ UNCHANGED <<scene, entry, host, alias, git>>

-----------------------------------------------------------------------------
(* Its name                                                                  *)

Wanted(p) == ~Fork(p) /\ call[p].ask.name # None

(* No name is moved after a Dispatch that failed.                            *)
Skipped(p) == call[p].stage \in {"failed", "thrown"}

(* Mutation: the alias file is rewritten without its lock.                   *)
TakeNoAliases(p) ==
    /\ call[p].at = "naming"
    /\ call' = [call EXCEPT ![p].at = IF Wanted(p) THEN "moving" ELSE "answering", ![p].seen = alias]
    /\ UNCHANGED <<scene, entry, holder, host, alias, git>>
(* The lock is waited for.                                                   *)
TakeAliases(p) ==
    /\ call[p].at = "naming"
    /\ \/ /\ Wanted(p) /\ ~Skipped(p)
          /\ Take("alias", p)
          /\ call' = [call EXCEPT ![p].at = "moving", ![p].seen = alias]
       \/ /\ ~Wanted(p) \/ Skipped(p)
          /\ Goto(p, "answering")
          /\ UNCHANGED holder
    /\ UNCHANGED <<scene, entry, host, alias, git>>

(* The file is replaced by what was read under the lock and the one change.  *)
(* A failure before the rename leaves the names as they are; the directory's *)
(* sync and the lock's close may still fail when the name has moved.         *)
MoveAlias(p) ==
    /\ call[p].at = "moving"
    /\ holder' = [holder EXCEPT !["alias"] = None]
    /\ \/ /\ alias' = [call[p].seen EXCEPT ![call[p].ask.name] = p]
          /\ call' = [call EXCEPT ![p].at = "answering", ![p].seen = None, ![p].named = "aliased"]
          /\ UNCHANGED scene
       \/ /\ Spend("failure")
          /\ call' = [call EXCEPT ![p].at = "answering", ![p].seen = None, ![p].named = "failed"]
          /\ UNCHANGED alias \/ alias' = [call[p].seen EXCEPT ![call[p].ask.name] = p]
    /\ UNCHANGED <<entry, host, git>>

(* A failure beside a born child is thrown with the child's name when there  *)
(* was no Tell, or an abort came before it; else it is part of the answer.   *)
Answer(p) ==
    /\ call[p].at = "answering"
    /\ IF call[p].failure /\ (~call[p].ask.tell \/ call[p].aborted)
         THEN call' = [call EXCEPT ![p].at = "ended", ![p].result = "named"]
         ELSE call' = [call EXCEPT ![p].at = "sweeping", ![p].result = "called"]
    /\ UNCHANGED <<scene, entry, holder, host, alias, git>>

-----------------------------------------------------------------------------
(* The sweep that follows a call or a fork that returned its child           *)

(* The first look needs no lock: it finds the candidates.                    *)
LookForIdle(p) ==
    /\ call[p].at = "sweeping"
    /\ call' = [call EXCEPT ![p].at = "retiring",
                            ![p].todo = {a \in Akumas : Takable(a) /\ Eligible(a) /\ Unnamed(a) /\ Detached(a)}]
    /\ UNCHANGED <<scene, entry, holder, host, alias, git>>

(* The candidate's leash and the heart's own judgment; a leash that somebody *)
(* holds, or a changed heart, keeps the entry.                               *)
TakeCandidate(p) ==
    /\ call[p].at = "retiring"
    /\ \/ /\ call[p].todo = {}
          /\ Goto(p, "ended")
          /\ UNCHANGED holder
       \/ \E a \in call[p].todo :
            IF Takable(a) /\ Eligible(a)
              THEN /\ Take(a, p)
                   /\ call' = [call EXCEPT ![p].at = "guarding", ![p].todo = @ \ {a}, ![p].victim = a]
              ELSE /\ call' = [call EXCEPT ![p].todo = @ \ {a}]
                   /\ UNCHANGED holder
    /\ UNCHANGED <<scene, entry, host, alias, git>>

(* Mutation: the lock on the names is not released with the others.          *)
KeepAliases(p) ==
    /\ holder' = [l \in Locks |-> IF holder[l] = p /\ l # "alias" THEN None ELSE holder[l]]
    /\ call' = [call EXCEPT ![p].at = "retiring", ![p].victim = None]
(* Whatever a judgment came to, its locks are released.                      *)
LetGo(p) ==
    /\ holder' = [l \in Locks |-> IF holder[l] = p THEN None ELSE holder[l]]
    /\ call' = [call EXCEPT ![p].at = "retiring", ![p].victim = None]

(* The names are judged under their lock, tried once and kept.               *)
GuardNames(p) ==
    /\ call[p].at = "guarding"
    /\ IF holder["alias"] = None /\ Unnamed(call[p].victim)
         THEN Take("alias", p) /\ Goto(p, "guarded")
         ELSE LetGo(p)
    /\ UNCHANGED <<scene, entry, host, alias, git>>

(* Mutation: the Dispatch seen by the first look is taken for granted.       *)
TrustDispatch(p) ==
    /\ call[p].at = "guarded"
    /\ IF holder["seat"] = None THEN Take("seat", p) /\ Goto(p, "judged") ELSE LetGo(p)
    /\ UNCHANGED <<scene, entry, host, alias, git>>
(* So is the Dispatch under the publication seat.                            *)
GuardDispatch(p) ==
    /\ call[p].at = "guarded"
    /\ IF holder["seat"] = None /\ Detached(call[p].victim)
         THEN Take("seat", p) /\ Goto(p, "judged")
         ELSE LetGo(p)
    /\ UNCHANGED <<scene, entry, host, alias, git>>

(* Mutation: the entry is removed without a last look at its heart.          *)
RemoveUnseen(p) ==
    /\ call[p].at = "judged"
    /\ Goto(p, "removing")
    /\ UNCHANGED <<scene, entry, holder, host, alias, git>>
(* The last look at the heart.                                               *)
LastLook(p) ==
    /\ call[p].at = "judged"
    /\ IF Eligible(call[p].victim) THEN Goto(p, "removing") /\ UNCHANGED holder ELSE LetGo(p)
    /\ UNCHANGED <<scene, entry, host, alias, git>>

(* The leash's file goes, then the heart's and the directory.                *)
RemoveLeash(p) ==
    /\ call[p].at = "removing"
    /\ entry' = [entry EXCEPT ![call[p].victim].place = "leashless"]
    /\ Goto(p, "removing heart")
    /\ UNCHANGED <<scene, holder, host, alias, git>>
RemoveHeart(p) ==
    /\ call[p].at = "removing heart"
    /\ entry' = [entry EXCEPT ![call[p].victim].place = "gone"]
    /\ LetGo(p)
    /\ UNCHANGED <<scene, host, alias, git>>

CallStep(p) ==
    \/ InitializeHeart(p) \/ InitializeLeash(p) \/ Launch(p) \/ SealLocal(p)
    \/ AwaitBirth(p) \/ TimeOut(p) \/ AwaitAsleep(p) \/ Settle(p) \/ CloseBirth(p) \/ Judge(p)
    \/ FirstTell(p) \/ FirstWake(p) \/ Watch(p)
    \/ Associate(p) \/ TakeSeat(p) \/ Publish(p) \/ ReadBack(p)
    \/ TakeAliases(p) \/ MoveAlias(p) \/ Answer(p)
    \/ LookForIdle(p) \/ TakeCandidate(p) \/ GuardNames(p) \/ GuardDispatch(p) \/ LastLook(p)
    \/ RemoveLeash(p) \/ RemoveHeart(p)

-----------------------------------------------------------------------------
(* The world                                                                 *)

Live(p) == call[p].at \notin {"idle", "ended", "dead"}

(* The caller's AbortSignal.                                                 *)
Abort(p) ==
    /\ Live(p) /\ ~Fork(p) /\ ~call[p].aborted
    /\ Spend("abort")
    /\ call' = [call EXCEPT ![p].aborted = TRUE]
    /\ UNCHANGED <<entry, holder, host, alias, git>>

(* The caller's process dies: its locks vanish, a host in it dies with it,   *)
(* and a ref transaction under way is an orphan.                             *)
Die(p) ==
    /\ Live(p) /\ Spend("death")
    /\ \/ UNCHANGED host /\ holder' = [l \in Locks |-> IF holder[l] = p THEN None ELSE holder[l]]
       \/ /\ ~Quiet(p) /\ HostAt(p, "gone")
          /\ holder' = [l \in Locks |-> IF holder[l] = p \/ (l = p /\ holder[l] = "host")
                                         THEN None ELSE holder[l]]
    /\ orphans' = IF call[p].at = "publishing"
                     THEN orphans \cup {[akuma |-> p, contract |-> call[p].contract, seen |-> call[p].seen]}
                     ELSE orphans
    /\ call' = [call EXCEPT ![p].at = "dead", ![p].seen = None, ![p].todo = {}, ![p].victim = None]
    /\ UNCHANGED <<entry, alias, root, dispatch, terminal>>

OrphanEnds(o) ==
    /\ orphans' = orphans \ {o}
    /\ \/ root = o.seen /\ Commit(o.akuma, o.contract)
       \/ UNCHANGED <<root, dispatch>>
    /\ UNCHANGED <<scene, entry, holder, host, call, alias, terminal>>

(* Whoever looks at an Akuma's life tries its leash for a moment.            *)
Peek(a) ==
    /\ Takable(a) /\ Spend("peek")
    /\ holder' = [holder EXCEPT ![a] = "peek"]
    /\ UNCHANGED <<entry, host, call, alias, git>>
Unpeek(a) ==
    /\ holder[a] = "peek"
    /\ holder' = [holder EXCEPT ![a] = None]
    /\ UNCHANGED <<scene, entry, host, call, alias, git>>

(* Somebody's Tell, recorded without any lock, and a wake, which may find    *)
(* that its Tell has been taken already.                                     *)
RecordTell(a) ==
    /\ entry[a].soul /\ entry[a].place \in {"ready", "leashless"} /\ ~entry[a].pending
    /\ Spend("tell")
    /\ entry' = [entry EXCEPT ![a].pending = TRUE, ![a].aged = FALSE,
                              ![a].late = \E p \in Callers : call[p].victim = a /\ call[p].at = "removing"]
    /\ UNCHANGED <<holder, host, call, alias, git>>
WakeTold(a) ==
    /\ entry[a].soul /\ Quiet(a) /\ entry[a].place = "ready"
    /\ Spend("wake") /\ Wake(a)
    /\ UNCHANGED <<entry, holder, call, alias, git>>

(* Fifteen days without any activity. A launch or a ref transaction takes    *)
(* less; a caller that is suspended between them may find its child old.     *)
GrowOld(a) ==
    /\ a \in scene.aging /\ ~entry[a].aged
    /\ Stopped(a) /\ Quiet(a) /\ entry[a].place = "ready"
    /\ a \in Callers => call[a].at \in {"seating", "naming", "answering", "sweeping", "retiring", "ended", "dead"}
    /\ \A o \in orphans : o.akuma # a
    /\ entry' = [entry EXCEPT ![a].aged = TRUE]
    /\ UNCHANGED <<scene, holder, host, call, alias, git>>

(* A Contract is claimed or abandoned: another writer of the private ref.    *)
EndContract(k) ==
    /\ k \notin terminal /\ holder["seat"] = None
    /\ Spend("end")
    /\ terminal' = terminal \cup {k} /\ root' = root + 1
    /\ UNCHANGED <<entry, holder, host, call, dispatch, orphans, alias>>

World ==
    \/ \E p \in Callers : Allocate(p) \/ Abort(p) \/ Die(p)
    \/ \E o \in orphans : OrphanEnds(o)
    \/ \E a \in Akumas : HostDies(a) \/ Peek(a) \/ RecordTell(a) \/ WakeTold(a) \/ GrowOld(a)
    \/ \E k \in Contracts : EndContract(k)

Next ==
    \/ \E p \in Callers : CallStep(p)
    \/ \E a \in Akumas : HostStep(a) \/ Unpeek(a)
    \/ World

Spec == Init /\ [][Next]_vars
LiveSpec ==
    /\ Spec
    /\ \A p \in Callers : WF_vars(CallStep(p))
    /\ \A a \in Akumas : WF_vars(HostStep(a)) /\ WF_vars(Unpeek(a))

-----------------------------------------------------------------------------
(* Properties                                                                *)

(* The values, and the holders of locks that their takers' steps imply.      *)
Seated == {"seated", "bearing", "souled", "failing", "aborting", "driving", "settled"}
TypeOK ==
    /\ \A a \in Akumas :
         /\ entry[a].place \in {"none", "allocated", "leashless", "ready", "gone"}
         /\ entry[a].body \in {"none", "open", "exited", "broken"}
         /\ holder[a] = "host" <=> host[a].at \in Seated
         /\ holder[a] = "host" => entry[a].place = "ready"
         /\ host[a].at \in {"souled", "driving", "settled"} => entry[a].soul
    /\ holder["seat"] \in Callers \cup {None} /\ holder["alias"] \in Callers \cup {None}
    /\ \A p \in Callers : call[p].victim # None => holder[call[p].victim] = p

(* A child has one fate: what has a Seal is never born and what has a Soul is *)
(* never sealed, whoever of the caller, its timeout and the host comes first *)
(* (HeldAkumaLeash.birth and sealIfUnborn).                                  *)
OneFate == \A a \in Akumas : ~(entry[a].soul /\ entry[a].seal)

(* What a caller is told is so. An answer that names the child: it was born. *)
(* An answer that does not: the child is sealed, unless somebody else held   *)
(* its leash at the judgment, who then decides; a fork may also have been    *)
(* born and not rested. A Dispatch stage is the durable association, a failed *)
(* one is none; after an exception the association is there only if Git was  *)
(* killed on the way. A name whose move was reported is the child's, or the  *)
(* child's of another call for that name, one whose move was reported too or *)
(* failed: it may fail when the name has moved (publishPreparedCall,         *)
(* settleLaunch, publishDispatch, moveAlias, replaceFileDurably).            *)
(* The types and the custody of locks hold.                                  *)
HonestCall == TypeOK /\ \A p \in Callers :
    LET c == call[p] IN
    /\ c.result \in {"called", "named"} => entry[p].soul
    /\ c.result = "failed" => c.yielded \/ entry[p].seal
    /\ c.result = "upstream" => c.yielded \/ entry[p].seal \/ entry[p].soul
    /\ c.stage = "dispatched" => dispatch[p] = c.contract
    /\ c.stage = "failed" => dispatch[p] = None
    /\ c.stage = "thrown" => dispatch[p] = None \/ (c.cause = "killed" /\ dispatch[p] = c.contract)
    /\ c.named = "aliased" =>
         \E q \in Callers : alias[c.ask.name] = q /\ call[q].ask.name = c.ask.name /\ call[q].named # "none"

(* An entry is removed only while its remover keeps every other hand off it: *)
(* it was born, its Body ended, no host runs it, no name and no living       *)
(* Contract refers to it, and a Tell that is lost came after the last look   *)
(* (retireInactiveAkuma, sweepInactiveAkumas).                               *)
RetiredUnneeded == [][\A a \in Akumas :
    (entry[a].place = "ready" /\ entry'[a].place # "ready") =>
        /\ entry[a].soul /\ Settled(a) /\ host[a].at \notin Seated
        /\ Unnamed(a) /\ Detached(a)
        /\ entry[a].pending => entry[a].late]_vars

(* Every call ends, whatever its host does: the wait for birth, the seat and *)
(* a held leash are bounded, and the alias lock's holders let go.            *)
CallsEnd == \A p \in Callers : Live(p) ~> ~Live(p)
=============================================================================
