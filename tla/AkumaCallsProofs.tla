-------------------------- MODULE AkumaCallsProofs --------------------------
(* Theorems about AkumaCalls, for any number of callers, Akumas, names and   *)
(* Contracts: every child has one fate, what a caller is told is so, and     *)
(* nothing is retired that somebody still refers to.                         *)
EXTENDS AkumaCalls, TLAPS

-----------------------------------------------------------------------------
(* The shape of the state                                                    *)

EntryFields == {"place", "soul", "seal", "body", "pending", "aged", "late"}
HostFields == {"at", "wake", "canceled"}
CallFields ==
    {"at", "ask", "aborted", "cause", "failure", "yielded", "receipt", "result", "stage", "contract", "named",
     "seen", "todo", "victim"}

CallShape ==
    /\ DOMAIN holder = Locks
    /\ DOMAIN call = Callers /\ \A p \in Callers : DOMAIN call[p] = CallFields

Shape ==
    /\ DOMAIN scene = {"left", "aging"} /\ DOMAIN scene.left = Kinds
    /\ DOMAIN entry = Akumas /\ \A a \in Akumas : DOMAIN entry[a] = EntryFields
    /\ DOMAIN host = Akumas /\ \A a \in Akumas : DOMAIN host[a] = HostFields
    /\ CallShape
    /\ DOMAIN dispatch = Akumas

(* At first every record has its fields.                                     *)
LEMMA ShapeAtFirst == Init => Shape
<1> SUFFICES ASSUME NEW s \in Scenarios,
                    scene = [left |-> s.left, aging |-> s.aging],
                    entry = [a \in Akumas |-> IF a \in Elders \/ s.from[a] = "born" THEN Entry("ready", TRUE)
                                              ELSE Entry("none", FALSE)],
                    holder = [l \in Locks |-> None],
                    host = [a \in Akumas |-> [at |-> "none", wake |-> FALSE, canceled |-> FALSE]],
                    call = [p \in Callers |-> NewCall(s.from[p], s.asks[p])],
                    dispatch = [a \in Akumas |-> IF a \in Elders THEN s.dispatched ELSE None]
             PROVE  Shape
  BY DEF Init
<1>1. DOMAIN s.left = Kinds
  BY ScenariosAssumption DEF Scenes
<1>2. DOMAIN Entry("ready", TRUE) = EntryFields /\ DOMAIN Entry("none", FALSE) = EntryFields
  BY DEF Entry, EntryFields
<1>3. \A p \in Callers : DOMAIN NewCall(s.from[p], s.asks[p]) = CallFields
  BY DEF NewCall, CallFields
<1> QED
  BY <1>1, <1>2, <1>3 DEF Shape, CallShape, HostFields

(* No step adds or drops a field.                                            *)
LEMMA ShapeKept == Shape /\ [Next]_vars => Shape'
<1> SUFFICES ASSUME Shape, [Next]_vars PROVE Shape'
  OBVIOUS
<1>1. ASSUME NEW a \in Akumas, HostStep(a) PROVE Shape'
  <2>1. CASE HostTakes(a)
    BY <2>1 DEF Shape, CallShape, git, HostTakes, Take, HostAt, Leave
  <2>2. CASE HostLooks(a)
    BY <2>2 DEF Shape, CallShape, git, HostLooks, HostAt, Leave
  <2>3. CASE HostBears(a)
    BY <2>3 DEF Shape, CallShape, git, HostBears, HostAt
  <2>4. CASE HostWakes(a)
    BY <2>4 DEF Shape, CallShape, git, HostWakes, HostAt, Leave
  <2>5. CASE HostRecords(a)
    BY <2>5 DEF Shape, CallShape, git, HostRecords, HostAt
  <2>6. CASE HostDrives(a)
    BY <2>6 DEF Shape, CallShape, git, HostDrives, HostAt, Spend
  <2>7. CASE HostReleases(a)
    BY <2>7 DEF Shape, CallShape, git, HostReleases, HostAt, Leave
  <2>8. CASE HostFails(a)
    BY <2>8 DEF Shape, CallShape, git, HostFails, HostAt, Spend
  <2>9. CASE HostSeals(a)
    BY <2>9 DEF Shape, CallShape, git, HostSeals, HostAt, Leave, Sealed
  <2> QED
    BY <1>1, <2>1, <2>2, <2>3, <2>4, <2>5, <2>6, <2>7, <2>8, <2>9 DEF HostStep
<1>2. ASSUME NEW p \in Callers, CallStep(p) PROVE Shape'
  <2>1. CASE InitializeHeart(p)
    BY <2>1 DEF Shape, CallShape, git, InitializeHeart, Goto
  <2>2. CASE InitializeLeash(p)
    BY <2>2 DEF Shape, CallShape, git, InitializeLeash, Goto, Spend
  <2>3. CASE Launch(p)
    BY <2>3 DEF Shape, CallShape, git, Launch, Goto, Spend, HostFields, Akumas
  <2>4. CASE SealLocal(p)
    BY <2>4 DEF Shape, CallShape, git, SealLocal, Grasp, Conclude, Take, Sealed
  <2>5. CASE AwaitBirth(p)
    BY <2>5 DEF Shape, CallShape, git, AwaitBirth, Trouble, Goto
  <2>6. CASE TimeOut(p)
    BY <2>6 DEF Shape, CallShape, git, TimeOut, Grasp, Conclude, Take, Sealed, Trouble
  <2>7. CASE AwaitAsleep(p)
    BY <2>7 DEF Shape, CallShape, git, AwaitAsleep, Goto, Trouble
  <2>8. CASE Settle(p)
    BY <2>8 DEF Shape, CallShape, git, Settle, Goto
  <2>9. CASE CloseBirth(p)
    BY <2>9 DEF Shape, CallShape, git, CloseBirth, Grasp, Conclude, Take, Sealed
  <2>10. CASE Judge(p)
    BY <2>10 DEF Shape, CallShape, git, Judge
  <2>11. CASE FirstTell(p)
    BY <2>11 DEF Shape, CallShape, git, FirstTell, Goto
  <2>12. CASE FirstWake(p)
    BY <2>12 DEF Shape, CallShape, git, FirstWake, Goto, Wake, HostFields, Akumas
  <2>13. CASE Watch(p)
    BY <2>13 DEF Shape, CallShape, git, Watch
  <2>14. CASE Associate(p)
    BY <2>14 DEF Shape, CallShape, git, Associate, Spend
  <2>15. CASE TakeSeat(p)
    BY <2>15 DEF Shape, CallShape, git, TakeSeat, Take
  <2>16. CASE Publish(p)
    BY <2>16 DEF Shape, CallShape, git, Publish, Commit, Goto, Spend
  <2>17. CASE ReadBack(p)
    BY <2>17 DEF Shape, CallShape, git, ReadBack
  <2>18. CASE TakeAliases(p)
    BY <2>18 DEF Shape, CallShape, git, TakeAliases, Take, Goto
  <2>19. CASE MoveAlias(p)
    BY <2>19 DEF Shape, CallShape, git, MoveAlias, Spend
  <2>20. CASE Answer(p)
    BY <2>20 DEF Shape, CallShape, git, Answer
  <2>21. CASE LookForIdle(p)
    BY <2>21 DEF Shape, CallShape, git, LookForIdle
  <2>22. CASE TakeCandidate(p)
    BY <2>22 DEF Shape, CallShape, git, TakeCandidate, Goto, Take
  <2>23. CASE GuardNames(p)
    BY <2>23 DEF Shape, CallShape, git, GuardNames, Take, Goto, LetGo
  <2>24. CASE GuardDispatch(p)
    BY <2>24 DEF Shape, CallShape, git, GuardDispatch, Take, Goto, LetGo
  <2>25. CASE LastLook(p)
    BY <2>25 DEF Shape, CallShape, git, LastLook, Goto, LetGo
  <2>26. CASE RemoveLeash(p)
    BY <2>26 DEF Shape, CallShape, git, RemoveLeash, Goto
  <2>27. CASE RemoveHeart(p)
    BY <2>27 DEF Shape, CallShape, git, RemoveHeart, LetGo
  <2> QED
    BY <1>2, <2>1, <2>2, <2>3, <2>4, <2>5, <2>6, <2>7, <2>8, <2>9, <2>10, <2>11, <2>12, <2>13, <2>14, <2>15, <2>16, <2>17, <2>18, <2>19, <2>20, <2>21, <2>22, <2>23, <2>24, <2>25, <2>26, <2>27 DEF CallStep
<1>3. CASE World
  <2>1. ASSUME NEW p \in Callers, Allocate(p) PROVE Shape'
    BY <2>1 DEF Shape, CallShape, git, Allocate, Goto
  <2>2. ASSUME NEW p \in Callers, Abort(p) PROVE Shape'
    BY <2>2 DEF Shape, CallShape, git, Abort, Spend
  <2>3. ASSUME NEW p \in Callers, Die(p) PROVE Shape'
    BY <2>3 DEF Shape, CallShape, git, Die, Spend, HostAt
  <2>4. ASSUME NEW o \in orphans, OrphanEnds(o) PROVE Shape'
    BY <2>4 DEF Shape, CallShape, git, OrphanEnds, Commit
  <2>5. ASSUME NEW a \in Akumas, HostDies(a) PROVE Shape'
    BY <2>5 DEF Shape, CallShape, git, HostDies, Spend, Leave, HostAt
  <2>6. ASSUME NEW a \in Akumas, Peek(a) PROVE Shape'
    BY <2>6 DEF Shape, CallShape, git, Peek, Spend
  <2>7. ASSUME NEW a \in Akumas, RecordTell(a) PROVE Shape'
    BY <2>7 DEF Shape, CallShape, git, RecordTell, Spend
  <2>8. ASSUME NEW a \in Akumas, WakeTold(a) PROVE Shape'
    BY <2>8 DEF Shape, CallShape, git, WakeTold, Wake, Spend, HostFields, Akumas
  <2>9. ASSUME NEW a \in Akumas, GrowOld(a) PROVE Shape'
    BY <2>9 DEF Shape, CallShape, git, GrowOld
  <2>10. ASSUME NEW c \in Contracts, EndContract(c) PROVE Shape'
    BY <2>10 DEF Shape, CallShape, git, EndContract, Spend
  <2> QED
    BY <1>3, <2>1, <2>2, <2>3, <2>4, <2>5, <2>6, <2>7, <2>8, <2>9, <2>10 DEF World
<1>4. ASSUME NEW a \in Akumas, Unpeek(a) PROVE Shape'
  BY <1>4 DEF Shape, CallShape, git, Unpeek
<1>5. CASE UNCHANGED vars
  BY <1>5 DEF Shape, CallShape, git, vars
<1> QED
  BY <1>1, <1>2, <1>3, <1>4, <1>5 DEF Next

-----------------------------------------------------------------------------
(* One fate                                                                  *)

(* Who runs a Body has its leash.                                            *)
Seating == \A a \in Akumas : host[a].at \in Seated => holder[a] = "host"

(* What is about to be born has no Seal.                                     *)
Bearing == \A a \in Akumas : host[a].at = "bearing" => ~entry[a].seal

(* A caller has the leash of its own child only to judge its birth or to     *)
(* retire it.                                                                *)
Judging == {"sealing", "awaiting", "closing"}
Retiring == {"guarding", "guarded", "judged", "removing", "removing heart"}
OwnLeash == \A p \in Callers : holder[p] = p => call[p].at \in Judging \/ call[p].at \in Retiring

(* What a caller saw under the leash is so until it lets go.                 *)
Looked == \A p \in Callers : holder[p] = p /\ call[p].at \in Judging /\ call[p].seen => Undecided(p)

Fate == Seating /\ OwnLeash /\ Bearing /\ Looked /\ OneFate

(* At first nobody holds a leash and nothing has a Seal.                     *)
LEMMA FateAtFirst == Init => Fate
<1> SUFFICES ASSUME Init PROVE Fate
  OBVIOUS
<1>2. \A a \in Akumas : host[a].at = "none" /\ holder[a] = None
  BY DEF Init, Locks
<1>3. \A a \in Akumas : ~entry[a].seal
  BY DEF Init, Entry
<1> QED
  BY <1>2, <1>3, CallsAssumption DEF Fate, Seating, Seated, Bearing, OwnLeash, Looked, OneFate, Akumas

(* Callers have leashes of their own, and are neither a host nor nobody.     *)
LEMMA CallerLocks ==
  /\ \A p \in Callers : p \in Locks /\ p # None /\ p # "host" /\ p # "peek" /\ p # "seat" /\ p # "alias"
  /\ Akumas \subseteq Locks /\ None # "host" /\ None # "peek"
  /\ {"at", "seen", "victim", "todo"} \subseteq CallFields
  BY CallsAssumption DEF Locks, Akumas, CallFields

(* A host that leaves its Body's states gives up the leash.                  *)
LEMMA SeatingKept == Shape /\ Seating /\ [Next]_vars => Seating'
<1> SUFFICES ASSUME Shape, Seating, [Next]_vars PROVE Seating'
  OBVIOUS
<1>1. ASSUME NEW a \in Akumas, HostStep(a) PROVE Seating'
  <2>1. CASE HostTakes(a)
    BY <2>1, CallsAssumption DEF Shape, CallShape, Seating, Seated, Akumas, Locks, HostFields, git, HostTakes, Take, Takable, Taken, HostAt, Leave
  <2>2. CASE HostLooks(a)
    BY <2>2, CallsAssumption DEF Shape, CallShape, Seating, Seated, Akumas, Locks, HostFields, git, HostLooks, HostAt, Leave
  <2>3. CASE HostBears(a)
    BY <2>3, CallsAssumption DEF Shape, CallShape, Seating, Seated, Akumas, Locks, HostFields, git, HostBears, HostAt
  <2>4. CASE HostWakes(a)
    BY <2>4, CallsAssumption DEF Shape, CallShape, Seating, Seated, Akumas, Locks, HostFields, git, HostWakes, HostAt, Leave
  <2>5. CASE HostRecords(a)
    BY <2>5, CallsAssumption DEF Shape, CallShape, Seating, Seated, Akumas, Locks, HostFields, git, HostRecords, HostAt
  <2>6. CASE HostDrives(a)
    BY <2>6, CallsAssumption DEF Shape, CallShape, Seating, Seated, Akumas, Locks, HostFields, git, HostDrives, HostAt, Spend
  <2>7. CASE HostReleases(a)
    BY <2>7, CallsAssumption DEF Shape, CallShape, Seating, Seated, Akumas, Locks, HostFields, git, HostReleases, HostAt, Leave
  <2>8. CASE HostFails(a)
    BY <2>8, CallsAssumption DEF Shape, CallShape, Seating, Seated, Akumas, Locks, HostFields, git, HostFails, HostAt, Spend
  <2>9. CASE HostSeals(a)
    BY <2>9, CallsAssumption DEF Shape, CallShape, Seating, Seated, Akumas, Locks, HostFields, git, HostSeals, HostAt, Leave, Sealed, Undecided
  <2> QED
    BY <1>1, <2>1, <2>2, <2>3, <2>4, <2>5, <2>6, <2>7, <2>8, <2>9 DEF HostStep
<1>2. ASSUME NEW p \in Callers, CallStep(p) PROVE Seating'
  <2>1. CASE InitializeHeart(p)
    BY <2>1, CallsAssumption DEF Shape, CallShape, Seating, Seated, Akumas, Locks, HostFields, git, InitializeHeart, Goto
  <2>2. CASE InitializeLeash(p)
    BY <2>2, CallsAssumption DEF Shape, CallShape, Seating, Seated, Akumas, Locks, HostFields, git, InitializeLeash, Goto, Spend
  <2>3. CASE Launch(p)
    BY <2>3, CallsAssumption DEF Shape, CallShape, Seating, Seated, Akumas, Locks, HostFields, git, Launch, Goto, Spend
  <2>4. CASE SealLocal(p)
    BY <2>4, CallsAssumption DEF Shape, CallShape, Seating, Seated, Akumas, Locks, HostFields, git, SealLocal, Grasp, Conclude, Beaten, Takable, Take, Undecided, Sealed
  <2>5. CASE AwaitBirth(p)
    BY <2>5, CallsAssumption DEF Shape, CallShape, Seating, Seated, Akumas, Locks, HostFields, git, AwaitBirth, Trouble, Goto, Confirmed, Fork, Takable, Over
  <2>6. CASE TimeOut(p)
    BY <2>6, CallsAssumption DEF Shape, CallShape, Seating, Seated, Akumas, Locks, HostFields, git, TimeOut, Grasp, Conclude, Beaten, Takable, Take, Undecided, Sealed, Trouble, Confirmed, Fork, Over
  <2>7. CASE AwaitAsleep(p)
    BY <2>7, CallsAssumption DEF Shape, CallShape, Seating, Seated, Akumas, Locks, HostFields, git, AwaitAsleep, Goto, Trouble, Takable
  <2>8. CASE Settle(p)
    BY <2>8, CallsAssumption DEF Shape, CallShape, Seating, Seated, Akumas, Locks, HostFields, git, Settle, Goto, Outcome, Over, Takable
  <2>9. CASE CloseBirth(p)
    BY <2>9, CallsAssumption DEF Shape, CallShape, Seating, Seated, Akumas, Locks, HostFields, git, CloseBirth, Grasp, Conclude, Beaten, Takable, Take, Undecided, Sealed, Outcome
  <2>10. CASE Judge(p)
    BY <2>10, CallsAssumption DEF Shape, CallShape, Seating, Seated, Akumas, Locks, HostFields, git, Judge, Fork
  <2>11. CASE FirstTell(p)
    BY <2>11, CallsAssumption DEF Shape, CallShape, Seating, Seated, Akumas, Locks, HostFields, git, FirstTell, Goto, Takable, Taken
  <2>12. CASE FirstWake(p)
    BY <2>12, CallsAssumption DEF Shape, CallShape, Seating, Seated, Akumas, Locks, HostFields, git, FirstWake, Goto, Wake, Quiet
  <2>13. CASE Watch(p)
    BY <2>13, CallsAssumption DEF Shape, CallShape, Seating, Seated, Akumas, Locks, HostFields, git, Watch, Quiet
  <2>14. CASE Associate(p)
    BY <2>14, CallsAssumption DEF Shape, CallShape, Seating, Seated, Akumas, Locks, HostFields, git, Associate, Fork
  <2>15. CASE TakeSeat(p)
    BY <2>15, CallsAssumption DEF Shape, CallShape, Seating, Seated, Akumas, Locks, HostFields, git, TakeSeat, Take
  <2>16. CASE Publish(p)
    BY <2>16, CallsAssumption DEF Shape, CallShape, Seating, Seated, Akumas, Locks, HostFields, git, Publish, Commit, Goto, Spend
  <2>17. CASE ReadBack(p)
    BY <2>17, CallsAssumption DEF Shape, CallShape, Seating, Seated, Akumas, Locks, HostFields, git, ReadBack
  <2>18. CASE TakeAliases(p)
    BY <2>18, CallsAssumption DEF Shape, CallShape, Seating, Seated, Akumas, Locks, HostFields, git, TakeAliases, Wanted, Fork, Take, Goto
  <2>19. CASE MoveAlias(p)
    BY <2>19, CallsAssumption DEF Shape, CallShape, Seating, Seated, Akumas, Locks, HostFields, git, MoveAlias, Spend
  <2>20. CASE Answer(p)
    BY <2>20, CallsAssumption DEF Shape, CallShape, Seating, Seated, Akumas, Locks, HostFields, git, Answer
  <2>21. CASE LookForIdle(p)
    BY <2>21, CallsAssumption DEF Shape, CallShape, Seating, Seated, Akumas, Locks, HostFields, git, LookForIdle, Takable, Eligible, Stopped, Settled, Unnamed, Detached
  <2>22. CASE TakeCandidate(p)
    <3>1. host' = host
      BY <2>22 DEF TakeCandidate
    <3>2. \A a \in Akumas : holder[a] = "host" => holder'[a] = "host"
      BY <2>22, CallerLocks DEF Shape, CallShape, TakeCandidate, Take
    <3> QED
      BY <3>1, <3>2 DEF Seating
  <2>23. CASE GuardNames(p)
    BY <2>23, CallsAssumption DEF Shape, CallShape, Seating, Seated, Akumas, Locks, HostFields, git, GuardNames, Take, Goto, LetGo, Unnamed
  <2>24. CASE GuardDispatch(p)
    BY <2>24, CallsAssumption DEF Shape, CallShape, Seating, Seated, Akumas, Locks, HostFields, git, GuardDispatch, Take, Goto, LetGo, Detached
  <2>25. CASE LastLook(p)
    BY <2>25, CallsAssumption DEF Shape, CallShape, Seating, Seated, Akumas, Locks, HostFields, git, LastLook, Goto, LetGo, Eligible, Stopped, Settled
  <2>26. CASE RemoveLeash(p)
    BY <2>26, CallsAssumption DEF Shape, CallShape, Seating, Seated, Akumas, Locks, HostFields, git, RemoveLeash, Goto
  <2>27. CASE RemoveHeart(p)
    BY <2>27, CallsAssumption DEF Shape, CallShape, Seating, Seated, Akumas, Locks, HostFields, git, RemoveHeart, LetGo
  <2> QED
    BY <1>2, <2>1, <2>2, <2>3, <2>4, <2>5, <2>6, <2>7, <2>8, <2>9, <2>10, <2>11, <2>12, <2>13, <2>14, <2>15, <2>16, <2>17, <2>18, <2>19, <2>20, <2>21, <2>22, <2>23, <2>24, <2>25, <2>26, <2>27 DEF CallStep
<1>3. CASE World
  <2>1. ASSUME NEW p \in Callers, Allocate(p) PROVE Seating'
    BY <2>1, CallsAssumption DEF Shape, CallShape, Seating, Seated, Akumas, Locks, HostFields, git, Allocate, Goto
  <2>2. ASSUME NEW p \in Callers, Abort(p) PROVE Seating'
    BY <2>2, CallsAssumption DEF Shape, CallShape, Seating, Seated, Akumas, Locks, HostFields, git, Abort, Spend, Live, Fork
  <2>3. ASSUME NEW p \in Callers, Die(p) PROVE Seating'
    BY <2>3, CallsAssumption DEF Shape, CallShape, Seating, Seated, Akumas, Locks, HostFields, git, Die, Spend, Live, Quiet, HostAt
  <2>4. ASSUME NEW o \in orphans, OrphanEnds(o) PROVE Seating'
    BY <2>4, CallsAssumption DEF Shape, CallShape, Seating, Seated, Akumas, Locks, HostFields, git, OrphanEnds, Commit
  <2>5. ASSUME NEW a \in Akumas, HostDies(a) PROVE Seating'
    BY <2>5, CallsAssumption DEF Shape, CallShape, Seating, Seated, Akumas, Locks, HostFields, git, HostDies, Quiet, Spend, Leave, HostAt
  <2>6. ASSUME NEW a \in Akumas, Peek(a) PROVE Seating'
    BY <2>6, CallsAssumption DEF Shape, CallShape, Seating, Seated, Akumas, Locks, HostFields, git, Peek, Takable, Spend
  <2>7. ASSUME NEW a \in Akumas, RecordTell(a) PROVE Seating'
    BY <2>7, CallsAssumption DEF Shape, CallShape, Seating, Seated, Akumas, Locks, HostFields, git, RecordTell, Spend
  <2>8. ASSUME NEW a \in Akumas, WakeTold(a) PROVE Seating'
    BY <2>8, CallsAssumption DEF Shape, CallShape, Seating, Seated, Akumas, Locks, HostFields, git, WakeTold, Wake, Quiet, Spend
  <2>9. ASSUME NEW a \in Akumas, GrowOld(a) PROVE Seating'
    BY <2>9, CallsAssumption DEF Shape, CallShape, Seating, Seated, Akumas, Locks, HostFields, git, GrowOld, Stopped, Settled, Quiet
  <2>10. ASSUME NEW c \in Contracts, EndContract(c) PROVE Seating'
    BY <2>10, CallsAssumption DEF Shape, CallShape, Seating, Seated, Akumas, Locks, HostFields, git, EndContract, Spend
  <2> QED
    BY <1>3, <2>1, <2>2, <2>3, <2>4, <2>5, <2>6, <2>7, <2>8, <2>9, <2>10 DEF World
<1>4. ASSUME NEW a \in Akumas, Unpeek(a) PROVE Seating'
  BY <1>4, CallsAssumption DEF Shape, CallShape, Seating, Seated, Akumas, Locks, HostFields, git, Unpeek
<1>5. CASE UNCHANGED vars
  BY <1>5, CallsAssumption DEF Shape, CallShape, Seating, Seated, Akumas, Locks, HostFields, git, vars
<1> QED
  BY <1>1, <1>2, <1>3, <1>4, <1>5 DEF Next

(* A caller takes its own child's leash to judge or to retire, and does no   *)
(* other thing before it lets go.                                            *)
LEMMA OwnLeashKept == CallShape /\ OwnLeash /\ [Next]_vars => OwnLeash'
<1> SUFFICES ASSUME CallShape, OwnLeash, [Next]_vars PROVE OwnLeash'
  OBVIOUS
<1>1. ASSUME NEW a \in Akumas, HostStep(a) PROVE OwnLeash'
  <2>1. CASE HostTakes(a)
    <3>1. call' = call
      BY <2>1 DEF HostTakes
    <3>2. \A q \in Callers : holder'[q] = q => holder[q] = q
      BY <2>1, CallerLocks DEF CallShape, HostTakes, Take, Leave
    <3> QED
      BY <3>1, <3>2 DEF OwnLeash
  <2>2. CASE HostLooks(a)
    <3>1. call' = call
      BY <2>2 DEF HostLooks
    <3>2. \A q \in Callers : holder'[q] = q => holder[q] = q
      BY <2>2, CallerLocks DEF CallShape, HostLooks, Leave
    <3> QED
      BY <3>1, <3>2 DEF OwnLeash
  <2>3. CASE HostBears(a)
    BY <2>3, CallerLocks DEF CallShape, OwnLeash, Judging, Retiring, HostBears, HostAt
  <2>4. CASE HostWakes(a)
    BY <2>4, CallerLocks DEF CallShape, OwnLeash, Judging, Retiring, HostWakes, HostAt, Leave
  <2>5. CASE HostRecords(a)
    BY <2>5, CallerLocks DEF CallShape, OwnLeash, Judging, Retiring, HostRecords, HostAt
  <2>6. CASE HostDrives(a)
    BY <2>6, CallerLocks DEF CallShape, OwnLeash, Judging, Retiring, HostDrives, HostAt
  <2>7. CASE HostReleases(a)
    BY <2>7, CallerLocks DEF CallShape, OwnLeash, Judging, Retiring, HostReleases, HostAt, Leave
  <2>8. CASE HostFails(a)
    BY <2>8, CallerLocks DEF CallShape, OwnLeash, Judging, Retiring, HostFails, HostAt
  <2>9. CASE HostSeals(a)
    BY <2>9, CallerLocks DEF CallShape, OwnLeash, Judging, Retiring, HostSeals, HostAt, Leave
  <2> QED
    BY <1>1, <2>1, <2>2, <2>3, <2>4, <2>5, <2>6, <2>7, <2>8, <2>9 DEF HostStep
<1>2. ASSUME NEW p \in Callers, CallStep(p) PROVE OwnLeash'
  <2>1. CASE InitializeHeart(p)
    BY <2>1, CallerLocks DEF CallShape, OwnLeash, Judging, Retiring, InitializeHeart, Goto
  <2>2. CASE InitializeLeash(p)
    BY <2>2, CallerLocks DEF CallShape, OwnLeash, Judging, Retiring, InitializeLeash, Goto
  <2>3. CASE Launch(p)
    BY <2>3, CallerLocks DEF CallShape, OwnLeash, Judging, Retiring, Launch, Goto
  <2>4. CASE SealLocal(p)
    <3>1. \A q \in Callers : q # p => call'[q] = call[q] /\ (holder'[q] = q => holder[q] = q)
      BY <2>4, CallerLocks DEF CallShape, SealLocal, Grasp, Conclude, Take, Beaten
    <3>2. call'[p].at = "sealing" \/ holder'[p] # p
      BY <2>4, CallerLocks DEF CallShape, SealLocal, Grasp, Conclude, Take, Beaten
    <3> QED
      BY <2>4, <3>1, <3>2 DEF OwnLeash, Judging, Retiring
  <2>5. CASE AwaitBirth(p)
    BY <2>5, CallerLocks DEF CallShape, OwnLeash, Judging, Retiring, AwaitBirth, Trouble, Goto, Confirmed
  <2>6. CASE TimeOut(p)
    <3>1. \A q \in Callers : q # p => call'[q] = call[q] /\ (holder'[q] = q => holder[q] = q)
      BY <2>6, CallerLocks DEF CallShape, TimeOut, Grasp, Conclude, Take, Trouble, Beaten
    <3>2. call'[p].at = "awaiting" \/ holder'[p] # p
      BY <2>6, CallerLocks DEF CallShape, TimeOut, Grasp, Conclude, Take, Trouble, Beaten
    <3> QED
      BY <2>6, <3>1, <3>2 DEF OwnLeash, Judging, Retiring
  <2>7. CASE AwaitAsleep(p)
    BY <2>7, CallerLocks DEF CallShape, OwnLeash, Judging, Retiring, AwaitAsleep, Goto, Trouble
  <2>8. CASE Settle(p)
    BY <2>8, CallerLocks DEF CallShape, OwnLeash, Judging, Retiring, Settle, Goto
  <2>9. CASE CloseBirth(p)
    <3>1. \A q \in Callers : q # p => call'[q] = call[q] /\ (holder'[q] = q => holder[q] = q)
      BY <2>9, CallerLocks DEF CallShape, CloseBirth, Grasp, Conclude, Take, Beaten
    <3>2. call'[p].at = "closing" \/ holder'[p] # p
      BY <2>9, CallerLocks DEF CallShape, CloseBirth, Grasp, Conclude, Take, Beaten
    <3> QED
      BY <2>9, <3>1, <3>2 DEF OwnLeash, Judging, Retiring
  <2>10. CASE Judge(p)
    BY <2>10, CallerLocks DEF CallShape, OwnLeash, Judging, Retiring, Judge
  <2>11. CASE FirstTell(p)
    BY <2>11, CallerLocks DEF CallShape, OwnLeash, Judging, Retiring, FirstTell, Goto
  <2>12. CASE FirstWake(p)
    BY <2>12, CallerLocks DEF CallShape, OwnLeash, Judging, Retiring, FirstWake, Goto, Wake
  <2>13. CASE Watch(p)
    BY <2>13, CallerLocks DEF CallShape, OwnLeash, Judging, Retiring, Watch
  <2>14. CASE Associate(p)
    BY <2>14, CallerLocks DEF CallShape, OwnLeash, Judging, Retiring, Associate
  <2>15. CASE TakeSeat(p)
    BY <2>15, CallerLocks DEF CallShape, OwnLeash, Judging, Retiring, TakeSeat, Take
  <2>16. CASE Publish(p)
    BY <2>16, CallerLocks DEF CallShape, OwnLeash, Judging, Retiring, Publish, Commit, Goto
  <2>17. CASE ReadBack(p)
    BY <2>17, CallerLocks DEF CallShape, OwnLeash, Judging, Retiring, ReadBack
  <2>18. CASE TakeAliases(p)
    BY <2>18, CallerLocks DEF CallShape, OwnLeash, Judging, Retiring, TakeAliases, Take, Goto
  <2>19. CASE MoveAlias(p)
    BY <2>19, CallerLocks DEF CallShape, OwnLeash, Judging, Retiring, MoveAlias
  <2>20. CASE Answer(p)
    BY <2>20, CallerLocks DEF CallShape, OwnLeash, Judging, Retiring, Answer
  <2>21. CASE LookForIdle(p)
    BY <2>21, CallerLocks DEF CallShape, OwnLeash, Judging, Retiring, LookForIdle
  <2>22. CASE TakeCandidate(p)
    <3>1. \A q \in Callers : q # p => call'[q] = call[q] /\ (holder'[q] = q => holder[q] = q)
      BY <2>22, CallerLocks DEF CallShape, TakeCandidate, Goto, Take
    <3>2. call'[p].at = "guarding" \/ holder' = holder
      <4>1. ASSUME NEW a \in call[p].todo,
                   call' = [call EXCEPT ![p].at = "guarding", ![p].todo = @ \ {a}, ![p].victim = a]
            PROVE  call'[p].at = "guarding"
        BY <4>1, CallerLocks DEF CallShape
      <4> QED
        BY <2>22, <4>1 DEF TakeCandidate
    <3> QED
      BY <2>22, <3>1, <3>2 DEF OwnLeash, Judging, Retiring, TakeCandidate
  <2>23. CASE GuardNames(p)
    <3>1. \A q \in Callers : q # p => call'[q] = call[q] /\ (holder'[q] = q => holder[q] = q)
      BY <2>23, CallerLocks DEF CallShape, GuardNames, Take, Goto, LetGo
    <3>2. call'[p].at = "guarded" \/ holder'[p] # p
      BY <2>23, CallerLocks DEF CallShape, GuardNames, Take, Goto, LetGo
    <3> QED
      BY <2>23, <3>1, <3>2 DEF OwnLeash, Judging, Retiring
  <2>24. CASE GuardDispatch(p)
    <3>1. \A q \in Callers : q # p => call'[q] = call[q] /\ (holder'[q] = q => holder[q] = q)
      BY <2>24, CallerLocks DEF CallShape, GuardDispatch, Take, Goto, LetGo
    <3>2. call'[p].at = "judged" \/ holder'[p] # p
      BY <2>24, CallerLocks DEF CallShape, GuardDispatch, Take, Goto, LetGo
    <3> QED
      BY <2>24, <3>1, <3>2 DEF OwnLeash, Judging, Retiring
  <2>25. CASE LastLook(p)
    <3>1. \A q \in Callers : q # p => call'[q] = call[q] /\ (holder'[q] = q => holder[q] = q)
      BY <2>25, CallerLocks DEF CallShape, LastLook, Goto, LetGo
    <3>2. call'[p].at = "removing" \/ holder'[p] # p
      BY <2>25, CallerLocks DEF CallShape, LastLook, Goto, LetGo
    <3> QED
      BY <2>25, <3>1, <3>2 DEF OwnLeash, Judging, Retiring
  <2>26. CASE RemoveLeash(p)
    BY <2>26, CallerLocks DEF CallShape, OwnLeash, Judging, Retiring, RemoveLeash, Goto
  <2>27. CASE RemoveHeart(p)
    BY <2>27, CallerLocks DEF CallShape, OwnLeash, Judging, Retiring, RemoveHeart, LetGo
  <2> QED
    BY <1>2, <2>1, <2>2, <2>3, <2>4, <2>5, <2>6, <2>7, <2>8, <2>9, <2>10, <2>11, <2>12, <2>13, <2>14, <2>15, <2>16, <2>17, <2>18, <2>19, <2>20, <2>21, <2>22, <2>23, <2>24, <2>25, <2>26, <2>27 DEF CallStep
<1>3. CASE World
  <2>1. ASSUME NEW p \in Callers, Allocate(p) PROVE OwnLeash'
    BY <2>1, CallerLocks DEF CallShape, OwnLeash, Judging, Retiring, Allocate, Goto
  <2>2. ASSUME NEW p \in Callers, Abort(p) PROVE OwnLeash'
    BY <2>2, CallerLocks DEF CallShape, OwnLeash, Judging, Retiring, Abort
  <2>3. ASSUME NEW p \in Callers, Die(p) PROVE OwnLeash'
    <3>1. \A q \in Callers : q # p => call'[q] = call[q] /\ (holder'[q] = q => holder[q] = q)
      BY <2>3, CallerLocks DEF CallShape, Die
    <3>2. holder'[p] # p
      BY <2>3, CallerLocks DEF CallShape, Die
    <3> QED
      BY <2>3, <3>1, <3>2 DEF OwnLeash, Judging, Retiring
  <2>4. ASSUME NEW o \in orphans, OrphanEnds(o) PROVE OwnLeash'
    BY <2>4, CallerLocks DEF CallShape, OwnLeash, Judging, Retiring, OrphanEnds, Commit
  <2>5. ASSUME NEW a \in Akumas, HostDies(a) PROVE OwnLeash'
    BY <2>5, CallerLocks DEF CallShape, OwnLeash, Judging, Retiring, HostDies, Leave, HostAt
  <2>6. ASSUME NEW a \in Akumas, Peek(a) PROVE OwnLeash'
    BY <2>6, CallerLocks DEF CallShape, OwnLeash, Judging, Retiring, Peek
  <2>7. ASSUME NEW a \in Akumas, RecordTell(a) PROVE OwnLeash'
    BY <2>7, CallerLocks DEF CallShape, OwnLeash, Judging, Retiring, RecordTell
  <2>8. ASSUME NEW a \in Akumas, WakeTold(a) PROVE OwnLeash'
    BY <2>8, CallerLocks DEF CallShape, OwnLeash, Judging, Retiring, WakeTold, Wake
  <2>9. ASSUME NEW a \in Akumas, GrowOld(a) PROVE OwnLeash'
    BY <2>9, CallerLocks DEF CallShape, OwnLeash, Judging, Retiring, GrowOld
  <2>10. ASSUME NEW c \in Contracts, EndContract(c) PROVE OwnLeash'
    BY <2>10, CallerLocks DEF CallShape, OwnLeash, Judging, Retiring, EndContract
  <2> QED
    BY <1>3, <2>1, <2>2, <2>3, <2>4, <2>5, <2>6, <2>7, <2>8, <2>9, <2>10 DEF World
<1>4. ASSUME NEW a \in Akumas, Unpeek(a) PROVE OwnLeash'
  BY <1>4, CallerLocks DEF CallShape, OwnLeash, Judging, Retiring, Unpeek
<1>5. CASE UNCHANGED vars
  BY <1>5, CallerLocks DEF CallShape, OwnLeash, Judging, Retiring, vars
<1> QED
  BY <1>1, <1>2, <1>3, <1>4, <1>5 DEF Next

(* The Soul and the Seal are written by who has the leash and has looked.    *)
LEMMA FateKept == Shape /\ Fate /\ [Next]_vars => Bearing' /\ OneFate'
<1> SUFFICES ASSUME Shape, Fate, [Next]_vars PROVE Bearing' /\ OneFate'
  OBVIOUS
<1> DEFINE Q == Bearing /\ OneFate
<1>1. ASSUME NEW a \in Akumas, HostStep(a) PROVE Q'
  <2>1. CASE HostTakes(a)
    BY <2>1, CallsAssumption DEF Shape, CallShape, Fate, Seating, Bearing, OneFate, Looked, Judging, Seated, Akumas, Locks, HostFields, EntryFields, git, HostTakes, Take, Takable, Taken, HostAt, Leave
  <2>2. CASE HostLooks(a)
    BY <2>2, CallsAssumption DEF Shape, CallShape, Fate, Seating, Bearing, OneFate, Looked, Judging, Seated, Akumas, Locks, HostFields, EntryFields, git, HostLooks, HostAt, Leave
  <2>3. CASE HostBears(a)
    BY <2>3, CallsAssumption DEF Shape, CallShape, Fate, Seating, Bearing, OneFate, Looked, Judging, Seated, Akumas, Locks, HostFields, EntryFields, git, HostBears, HostAt
  <2>4. CASE HostWakes(a)
    BY <2>4, CallsAssumption DEF Shape, CallShape, Fate, Seating, Bearing, OneFate, Looked, Judging, Seated, Akumas, Locks, HostFields, EntryFields, git, HostWakes, HostAt, Leave
  <2>5. CASE HostRecords(a)
    BY <2>5, CallsAssumption DEF Shape, CallShape, Fate, Seating, Bearing, OneFate, Looked, Judging, Seated, Akumas, Locks, HostFields, EntryFields, git, HostRecords, HostAt
  <2>6. CASE HostDrives(a)
    BY <2>6, CallsAssumption DEF Shape, CallShape, Fate, Seating, Bearing, OneFate, Looked, Judging, Seated, Akumas, Locks, HostFields, EntryFields, git, HostDrives, HostAt, Spend
  <2>7. CASE HostReleases(a)
    BY <2>7, CallsAssumption DEF Shape, CallShape, Fate, Seating, Bearing, OneFate, Looked, Judging, Seated, Akumas, Locks, HostFields, EntryFields, git, HostReleases, HostAt, Leave
  <2>8. CASE HostFails(a)
    BY <2>8, CallsAssumption DEF Shape, CallShape, Fate, Seating, Bearing, OneFate, Looked, Judging, Seated, Akumas, Locks, HostFields, EntryFields, git, HostFails, HostAt, Spend
  <2>9. CASE HostSeals(a)
    BY <2>9, CallsAssumption DEF Shape, CallShape, Fate, Seating, Bearing, OneFate, Looked, Judging, Seated, Akumas, Locks, HostFields, EntryFields, git, HostSeals, HostAt, Leave, Sealed, Undecided
  <2> QED
    BY <1>1, <2>1, <2>2, <2>3, <2>4, <2>5, <2>6, <2>7, <2>8, <2>9 DEF HostStep
<1>2. ASSUME NEW p \in Callers, CallStep(p) PROVE Q'
  <2>1. CASE InitializeHeart(p)
    BY <2>1, CallsAssumption DEF Shape, CallShape, Fate, Seating, Bearing, OneFate, Looked, Judging, Seated, Akumas, Locks, HostFields, EntryFields, git, InitializeHeart, Goto
  <2>2. CASE InitializeLeash(p)
    BY <2>2, CallsAssumption DEF Shape, CallShape, Fate, Seating, Bearing, OneFate, Looked, Judging, Seated, Akumas, Locks, HostFields, EntryFields, git, InitializeLeash, Goto, Spend
  <2>3. CASE Launch(p)
    BY <2>3, CallsAssumption DEF Shape, CallShape, Fate, Seating, Bearing, OneFate, Looked, Judging, Seated, Akumas, Locks, HostFields, EntryFields, git, Launch, Goto, Spend
  <2>4. CASE SealLocal(p)
    BY <2>4, CallsAssumption DEF Shape, CallShape, Fate, Seating, Bearing, OneFate, Looked, Judging, Seated, Akumas, Locks, HostFields, EntryFields, git, SealLocal, Grasp, Conclude, Beaten, Takable, Take, Undecided, Sealed
  <2>5. CASE AwaitBirth(p)
    BY <2>5, CallsAssumption DEF Shape, CallShape, Fate, Seating, Bearing, OneFate, Looked, Judging, Seated, Akumas, Locks, HostFields, EntryFields, git, AwaitBirth, Trouble, Goto, Confirmed, Fork, Takable, Over
  <2>6. CASE TimeOut(p)
    BY <2>6, CallsAssumption DEF Shape, CallShape, Fate, Seating, Bearing, OneFate, Looked, Judging, Seated, Akumas, Locks, HostFields, EntryFields, git, TimeOut, Grasp, Conclude, Beaten, Takable, Take, Undecided, Sealed, Trouble, Confirmed, Fork, Over
  <2>7. CASE AwaitAsleep(p)
    BY <2>7, CallsAssumption DEF Shape, CallShape, Fate, Seating, Bearing, OneFate, Looked, Judging, Seated, Akumas, Locks, HostFields, EntryFields, git, AwaitAsleep, Goto, Trouble, Takable
  <2>8. CASE Settle(p)
    BY <2>8, CallsAssumption DEF Shape, CallShape, Fate, Seating, Bearing, OneFate, Looked, Judging, Seated, Akumas, Locks, HostFields, EntryFields, git, Settle, Goto, Outcome, Over, Takable
  <2>9. CASE CloseBirth(p)
    BY <2>9, CallsAssumption DEF Shape, CallShape, Fate, Seating, Bearing, OneFate, Looked, Judging, Seated, Akumas, Locks, HostFields, EntryFields, git, CloseBirth, Grasp, Conclude, Beaten, Takable, Take, Undecided, Sealed, Outcome
  <2>10. CASE Judge(p)
    BY <2>10, CallsAssumption DEF Shape, CallShape, Fate, Seating, Bearing, OneFate, Looked, Judging, Seated, Akumas, Locks, HostFields, EntryFields, git, Judge, Fork
  <2>11. CASE FirstTell(p)
    BY <2>11, CallsAssumption DEF Shape, CallShape, Fate, Seating, Bearing, OneFate, Looked, Judging, Seated, Akumas, Locks, HostFields, EntryFields, git, FirstTell, Goto, Takable, Taken
  <2>12. CASE FirstWake(p)
    BY <2>12, CallsAssumption DEF Shape, CallShape, Fate, Seating, Bearing, OneFate, Looked, Judging, Seated, Akumas, Locks, HostFields, EntryFields, git, FirstWake, Goto, Wake, Quiet
  <2>13. CASE Watch(p)
    BY <2>13, CallsAssumption DEF Shape, CallShape, Fate, Seating, Bearing, OneFate, Looked, Judging, Seated, Akumas, Locks, HostFields, EntryFields, git, Watch, Quiet
  <2>14. CASE Associate(p)
    BY <2>14, CallsAssumption DEF Shape, CallShape, Fate, Seating, Bearing, OneFate, Looked, Judging, Seated, Akumas, Locks, HostFields, EntryFields, git, Associate, Fork
  <2>15. CASE TakeSeat(p)
    BY <2>15, CallsAssumption DEF Shape, CallShape, Fate, Seating, Bearing, OneFate, Looked, Judging, Seated, Akumas, Locks, HostFields, EntryFields, git, TakeSeat, Take
  <2>16. CASE Publish(p)
    BY <2>16, CallsAssumption DEF Shape, CallShape, Fate, Seating, Bearing, OneFate, Looked, Judging, Seated, Akumas, Locks, HostFields, EntryFields, git, Publish, Commit, Goto, Spend
  <2>17. CASE ReadBack(p)
    BY <2>17, CallsAssumption DEF Shape, CallShape, Fate, Seating, Bearing, OneFate, Looked, Judging, Seated, Akumas, Locks, HostFields, EntryFields, git, ReadBack
  <2>18. CASE TakeAliases(p)
    BY <2>18, CallsAssumption DEF Shape, CallShape, Fate, Seating, Bearing, OneFate, Looked, Judging, Seated, Akumas, Locks, HostFields, EntryFields, git, TakeAliases, Wanted, Fork, Take, Goto
  <2>19. CASE MoveAlias(p)
    BY <2>19, CallsAssumption DEF Shape, CallShape, Fate, Seating, Bearing, OneFate, Looked, Judging, Seated, Akumas, Locks, HostFields, EntryFields, git, MoveAlias, Spend
  <2>20. CASE Answer(p)
    BY <2>20, CallsAssumption DEF Shape, CallShape, Fate, Seating, Bearing, OneFate, Looked, Judging, Seated, Akumas, Locks, HostFields, EntryFields, git, Answer
  <2>21. CASE LookForIdle(p)
    BY <2>21, CallsAssumption DEF Shape, CallShape, Fate, Seating, Bearing, OneFate, Looked, Judging, Seated, Akumas, Locks, HostFields, EntryFields, git, LookForIdle, Takable, Eligible, Stopped, Settled, Unnamed, Detached
  <2>22. CASE TakeCandidate(p)
    BY <2>22, CallsAssumption DEF Shape, CallShape, Fate, Seating, Bearing, OneFate, Looked, Judging, Seated, Akumas, Locks, HostFields, EntryFields, git, TakeCandidate, Goto, Take, Takable, Eligible, Stopped, Settled
  <2>23. CASE GuardNames(p)
    BY <2>23, CallsAssumption DEF Shape, CallShape, Fate, Seating, Bearing, OneFate, Looked, Judging, Seated, Akumas, Locks, HostFields, EntryFields, git, GuardNames, Take, Goto, LetGo, Unnamed
  <2>24. CASE GuardDispatch(p)
    BY <2>24, CallsAssumption DEF Shape, CallShape, Fate, Seating, Bearing, OneFate, Looked, Judging, Seated, Akumas, Locks, HostFields, EntryFields, git, GuardDispatch, Take, Goto, LetGo, Detached
  <2>25. CASE LastLook(p)
    BY <2>25, CallsAssumption DEF Shape, CallShape, Fate, Seating, Bearing, OneFate, Looked, Judging, Seated, Akumas, Locks, HostFields, EntryFields, git, LastLook, Goto, LetGo, Eligible, Stopped, Settled
  <2>26. CASE RemoveLeash(p)
    <3>1. \A a \in Akumas : entry'[a].soul = entry[a].soul /\ entry'[a].seal = entry[a].seal
      BY <2>26 DEF RemoveLeash, Shape, EntryFields
    <3> QED
      BY <2>26, <3>1 DEF RemoveLeash, Fate, Bearing, OneFate, git
  <2>27. CASE RemoveHeart(p)
    <3>1. \A a \in Akumas : entry'[a].soul = entry[a].soul /\ entry'[a].seal = entry[a].seal
      BY <2>27 DEF RemoveHeart, Shape, EntryFields
    <3> QED
      BY <2>27, <3>1 DEF RemoveHeart, Fate, Bearing, OneFate, git
  <2> QED
    BY <1>2, <2>1, <2>2, <2>3, <2>4, <2>5, <2>6, <2>7, <2>8, <2>9, <2>10, <2>11, <2>12, <2>13, <2>14, <2>15, <2>16, <2>17, <2>18, <2>19, <2>20, <2>21, <2>22, <2>23, <2>24, <2>25, <2>26, <2>27 DEF CallStep
<1>3. CASE World
  <2>1. ASSUME NEW p \in Callers, Allocate(p) PROVE Q'
    BY <2>1, CallsAssumption DEF Shape, CallShape, Fate, Seating, Bearing, OneFate, Looked, Judging, Seated, Akumas, Locks, HostFields, EntryFields, git, Allocate, Goto
  <2>2. ASSUME NEW p \in Callers, Abort(p) PROVE Q'
    BY <2>2, CallsAssumption DEF Shape, CallShape, Fate, Seating, Bearing, OneFate, Looked, Judging, Seated, Akumas, Locks, HostFields, EntryFields, git, Abort, Spend, Live, Fork
  <2>3. ASSUME NEW p \in Callers, Die(p) PROVE Q'
    BY <2>3, CallsAssumption DEF Shape, CallShape, Fate, Seating, Bearing, OneFate, Looked, Judging, Seated, Akumas, Locks, HostFields, EntryFields, git, Die, Spend, Live, Quiet, HostAt
  <2>4. ASSUME NEW o \in orphans, OrphanEnds(o) PROVE Q'
    BY <2>4, CallsAssumption DEF Shape, CallShape, Fate, Seating, Bearing, OneFate, Looked, Judging, Seated, Akumas, Locks, HostFields, EntryFields, git, OrphanEnds, Commit
  <2>5. ASSUME NEW a \in Akumas, HostDies(a) PROVE Q'
    BY <2>5, CallsAssumption DEF Shape, CallShape, Fate, Seating, Bearing, OneFate, Looked, Judging, Seated, Akumas, Locks, HostFields, EntryFields, git, HostDies, Quiet, Spend, Leave, HostAt
  <2>6. ASSUME NEW a \in Akumas, Peek(a) PROVE Q'
    BY <2>6, CallsAssumption DEF Shape, CallShape, Fate, Seating, Bearing, OneFate, Looked, Judging, Seated, Akumas, Locks, HostFields, EntryFields, git, Peek, Takable, Spend
  <2>7. ASSUME NEW a \in Akumas, RecordTell(a) PROVE Q'
    BY <2>7, CallsAssumption DEF Shape, CallShape, Fate, Seating, Bearing, OneFate, Looked, Judging, Seated, Akumas, Locks, HostFields, EntryFields, git, RecordTell, Spend
  <2>8. ASSUME NEW a \in Akumas, WakeTold(a) PROVE Q'
    BY <2>8, CallsAssumption DEF Shape, CallShape, Fate, Seating, Bearing, OneFate, Looked, Judging, Seated, Akumas, Locks, HostFields, EntryFields, git, WakeTold, Wake, Quiet, Spend
  <2>9. ASSUME NEW a \in Akumas, GrowOld(a) PROVE Q'
    BY <2>9, CallsAssumption DEF Shape, CallShape, Fate, Seating, Bearing, OneFate, Looked, Judging, Seated, Akumas, Locks, HostFields, EntryFields, git, GrowOld, Stopped, Settled, Quiet
  <2>10. ASSUME NEW c \in Contracts, EndContract(c) PROVE Q'
    BY <2>10, CallsAssumption DEF Shape, CallShape, Fate, Seating, Bearing, OneFate, Looked, Judging, Seated, Akumas, Locks, HostFields, EntryFields, git, EndContract, Spend
  <2> QED
    BY <1>3, <2>1, <2>2, <2>3, <2>4, <2>5, <2>6, <2>7, <2>8, <2>9, <2>10 DEF World
<1>4. ASSUME NEW a \in Akumas, Unpeek(a) PROVE Q'
  BY <1>4, CallsAssumption DEF Shape, CallShape, Fate, Seating, Bearing, OneFate, Looked, Judging, Seated, Akumas, Locks, HostFields, EntryFields, git, Unpeek
<1>5. CASE UNCHANGED vars
  BY <1>5, CallsAssumption DEF Shape, CallShape, Fate, Seating, Bearing, OneFate, Looked, Judging, Seated, Akumas, Locks, HostFields, EntryFields, git, vars
<1> QED
  BY <1>1, <1>2, <1>3, <1>4, <1>5 DEF Next

(* What a step leaves of a caller that judges: it has just looked, or stands *)
(* as it stood.                                                              *)
Frame == \A p \in Callers : holder'[p] = p /\ call'[p].at \in Judging =>
    \/ call'[p].seen = Undecided(p) /\ entry' = entry
    \/ holder[p] = p /\ call[p].at \in Judging /\ call'[p].seen = call[p].seen

(* A caller that has a leash looks once, when it takes it.                   *)
LEMMA LookedOnce == CallShape /\ OwnLeash /\ [Next]_vars => Frame
<1> SUFFICES ASSUME CallShape, OwnLeash, [Next]_vars PROVE Frame
  OBVIOUS
<1>1. ASSUME NEW a \in Akumas, HostStep(a) PROVE Frame
  <2>1. CASE HostTakes(a)
    BY <2>1, CallerLocks DEF CallShape, OwnLeash, Frame, Judging, Retiring, HostTakes, Take, HostAt, Leave
  <2>2. CASE HostLooks(a)
    BY <2>2, CallerLocks DEF CallShape, OwnLeash, Frame, Judging, Retiring, HostLooks, HostAt, Leave
  <2>3. CASE HostBears(a)
    BY <2>3, CallerLocks DEF CallShape, OwnLeash, Frame, Judging, Retiring, HostBears, HostAt
  <2>4. CASE HostWakes(a)
    <3>1. call' = call
      BY <2>4 DEF HostWakes
    <3>2. \A q \in Callers : holder'[q] = q => holder[q] = q
      BY <2>4, CallerLocks DEF CallShape, HostWakes, Leave
    <3> QED
      BY <3>1, <3>2 DEF Frame
  <2>5. CASE HostRecords(a)
    BY <2>5, CallerLocks DEF CallShape, OwnLeash, Frame, Judging, Retiring, HostRecords, HostAt
  <2>6. CASE HostDrives(a)
    BY <2>6, CallerLocks DEF CallShape, OwnLeash, Frame, Judging, Retiring, HostDrives, HostAt
  <2>7. CASE HostReleases(a)
    BY <2>7, CallerLocks DEF CallShape, OwnLeash, Frame, Judging, Retiring, HostReleases, HostAt, Leave
  <2>8. CASE HostFails(a)
    BY <2>8, CallerLocks DEF CallShape, OwnLeash, Frame, Judging, Retiring, HostFails, HostAt
  <2>9. CASE HostSeals(a)
    BY <2>9, CallerLocks DEF CallShape, OwnLeash, Frame, Judging, Retiring, HostSeals, HostAt, Leave
  <2> QED
    BY <1>1, <2>1, <2>2, <2>3, <2>4, <2>5, <2>6, <2>7, <2>8, <2>9 DEF HostStep
<1>2. ASSUME NEW p \in Callers, CallStep(p) PROVE Frame
  <2>1. CASE InitializeHeart(p)
    BY <2>1, CallerLocks DEF CallShape, OwnLeash, Frame, Judging, Retiring, InitializeHeart, Goto
  <2>2. CASE InitializeLeash(p)
    BY <2>2, CallerLocks DEF CallShape, OwnLeash, Frame, Judging, Retiring, InitializeLeash, Goto
  <2>3. CASE Launch(p)
    BY <2>3, CallerLocks DEF CallShape, OwnLeash, Frame, Judging, Retiring, Launch, Goto
  <2>4. CASE SealLocal(p)
    <3>1. \A q \in Callers : q # p => call'[q] = call[q] /\ (holder'[q] = q => holder[q] = q)
      BY <2>4, CallerLocks DEF CallShape, SealLocal, Grasp, Conclude, Beaten, Take
    <3>2. holder'[p] = p => (call'[p].seen = Undecided(p) /\ entry' = entry)
      BY <2>4, CallerLocks DEF CallShape, SealLocal, Grasp, Conclude, Beaten, Take
    <3> QED
      BY <3>1, <3>2 DEF Frame, Undecided
  <2>5. CASE AwaitBirth(p)
    BY <2>5, CallerLocks DEF CallShape, OwnLeash, Frame, Judging, Retiring, AwaitBirth, Trouble, Goto, Confirmed
  <2>6. CASE TimeOut(p)
    <3>1. \A q \in Callers : q # p => call'[q] = call[q] /\ (holder'[q] = q => holder[q] = q)
      BY <2>6, CallerLocks DEF CallShape, TimeOut, Grasp, Conclude, Beaten, Take, Trouble
    <3>2. holder'[p] = p => (call'[p].seen = Undecided(p) /\ entry' = entry)
      BY <2>6, CallerLocks DEF CallShape, TimeOut, Grasp, Conclude, Beaten, Take, Trouble
    <3> QED
      BY <3>1, <3>2 DEF Frame, Undecided
  <2>7. CASE AwaitAsleep(p)
    BY <2>7, CallerLocks DEF CallShape, OwnLeash, Frame, Judging, Retiring, AwaitAsleep, Goto, Trouble
  <2>8. CASE Settle(p)
    BY <2>8, CallerLocks DEF CallShape, OwnLeash, Frame, Judging, Retiring, Settle, Goto
  <2>9. CASE CloseBirth(p)
    <3>1. \A q \in Callers : q # p => call'[q] = call[q] /\ (holder'[q] = q => holder[q] = q)
      BY <2>9, CallerLocks DEF CallShape, CloseBirth, Grasp, Conclude, Beaten, Take, Outcome
    <3>2. holder'[p] = p => (call'[p].seen = Undecided(p) /\ entry' = entry)
      BY <2>9, CallerLocks DEF CallShape, CloseBirth, Grasp, Conclude, Beaten, Take, Outcome
    <3> QED
      BY <3>1, <3>2 DEF Frame, Undecided
  <2>10. CASE Judge(p)
    BY <2>10, CallerLocks DEF CallShape, OwnLeash, Frame, Judging, Retiring, Judge
  <2>11. CASE FirstTell(p)
    BY <2>11, CallerLocks DEF CallShape, OwnLeash, Frame, Judging, Retiring, FirstTell, Goto
  <2>12. CASE FirstWake(p)
    BY <2>12, CallerLocks DEF CallShape, OwnLeash, Frame, Judging, Retiring, FirstWake, Goto, Wake
  <2>13. CASE Watch(p)
    BY <2>13, CallerLocks DEF CallShape, OwnLeash, Frame, Judging, Retiring, Watch
  <2>14. CASE Associate(p)
    BY <2>14, CallerLocks DEF CallShape, OwnLeash, Frame, Judging, Retiring, Associate
  <2>15. CASE TakeSeat(p)
    BY <2>15, CallerLocks DEF CallShape, OwnLeash, Frame, Judging, Retiring, TakeSeat, Take
  <2>16. CASE Publish(p)
    BY <2>16, CallerLocks DEF CallShape, OwnLeash, Frame, Judging, Retiring, Publish, Commit, Goto
  <2>17. CASE ReadBack(p)
    BY <2>17, CallerLocks DEF CallShape, OwnLeash, Frame, Judging, Retiring, ReadBack
  <2>18. CASE TakeAliases(p)
    BY <2>18, CallerLocks DEF CallShape, OwnLeash, Frame, Judging, Retiring, TakeAliases, Take, Goto
  <2>19. CASE MoveAlias(p)
    BY <2>19, CallerLocks DEF CallShape, OwnLeash, Frame, Judging, Retiring, MoveAlias
  <2>20. CASE Answer(p)
    BY <2>20, CallerLocks DEF CallShape, OwnLeash, Frame, Judging, Retiring, Answer
  <2>21. CASE LookForIdle(p)
    BY <2>21, CallerLocks DEF CallShape, OwnLeash, Frame, Judging, Retiring, LookForIdle
  <2>22. CASE TakeCandidate(p)
    <3>1. \A q \in Callers : q # p => call'[q] = call[q] /\ (holder'[q] = q => holder[q] = q)
      BY <2>22, CallerLocks DEF CallShape, TakeCandidate, Take, Goto
    <3>2. call'[p].at \notin Judging
      <4>1. ASSUME NEW a \in call[p].todo,
                   call' = [call EXCEPT ![p].at = "guarding", ![p].todo = @ \ {a}, ![p].victim = a]
            PROVE  call'[p].at = "guarding"
        BY <4>1, CallerLocks DEF CallShape
      <4>2. ASSUME NEW a \in call[p].todo, call' = [call EXCEPT ![p].todo = @ \ {a}]
            PROVE  call'[p].at = call[p].at
        BY <4>2, CallerLocks DEF CallShape
      <4>3. CASE Goto(p, "ended")
        BY <4>3, CallerLocks DEF CallShape, Goto, Judging
      <4> QED
        BY <2>22, <4>1, <4>2, <4>3 DEF TakeCandidate, Judging
    <3> QED
      BY <3>1, <3>2 DEF Frame
  <2>23. CASE GuardNames(p)
    <3>1. \A q \in Callers : q # p => call'[q] = call[q] /\ (holder'[q] = q => holder[q] = q)
      BY <2>23, CallerLocks DEF CallShape, GuardNames, Take, Goto, LetGo
    <3>2. call'[p].at \notin Judging
      BY <2>23, CallerLocks DEF CallShape, Judging, GuardNames, Take, Goto, LetGo
    <3> QED
      BY <3>1, <3>2 DEF Frame
  <2>24. CASE GuardDispatch(p)
    <3>1. \A q \in Callers : q # p => call'[q] = call[q] /\ (holder'[q] = q => holder[q] = q)
      BY <2>24, CallerLocks DEF CallShape, GuardDispatch, Take, Goto, LetGo
    <3>2. call'[p].at \notin Judging
      BY <2>24, CallerLocks DEF CallShape, Judging, GuardDispatch, Take, Goto, LetGo
    <3> QED
      BY <3>1, <3>2 DEF Frame
  <2>25. CASE LastLook(p)
    <3>1. \A q \in Callers : q # p => call'[q] = call[q] /\ (holder'[q] = q => holder[q] = q)
      BY <2>25, CallerLocks DEF CallShape, LastLook, Goto, LetGo
    <3>2. call'[p].at \notin Judging
      BY <2>25, CallerLocks DEF CallShape, Judging, LastLook, Goto, LetGo
    <3> QED
      BY <3>1, <3>2 DEF Frame
  <2>26. CASE RemoveLeash(p)
    BY <2>26, CallerLocks DEF CallShape, OwnLeash, Frame, Judging, Retiring, RemoveLeash, Goto
  <2>27. CASE RemoveHeart(p)
    BY <2>27, CallerLocks DEF CallShape, OwnLeash, Frame, Judging, Retiring, RemoveHeart, LetGo
  <2> QED
    BY <1>2, <2>1, <2>2, <2>3, <2>4, <2>5, <2>6, <2>7, <2>8, <2>9, <2>10, <2>11, <2>12, <2>13, <2>14, <2>15, <2>16, <2>17, <2>18, <2>19, <2>20, <2>21, <2>22, <2>23, <2>24, <2>25, <2>26, <2>27 DEF CallStep
<1>3. CASE World
  <2>1. ASSUME NEW p \in Callers, Allocate(p) PROVE Frame
    BY <2>1, CallerLocks DEF CallShape, OwnLeash, Frame, Judging, Retiring, Allocate, Goto
  <2>2. ASSUME NEW p \in Callers, Abort(p) PROVE Frame
    BY <2>2, CallerLocks DEF CallShape, OwnLeash, Frame, Judging, Retiring, Abort
  <2>3. ASSUME NEW p \in Callers, Die(p) PROVE Frame
    BY <2>3, CallerLocks DEF CallShape, OwnLeash, Frame, Judging, Retiring, Die, HostAt
  <2>4. ASSUME NEW o \in orphans, OrphanEnds(o) PROVE Frame
    BY <2>4, CallerLocks DEF CallShape, OwnLeash, Frame, Judging, Retiring, OrphanEnds, Commit
  <2>5. ASSUME NEW a \in Akumas, HostDies(a) PROVE Frame
    BY <2>5, CallerLocks DEF CallShape, OwnLeash, Frame, Judging, Retiring, HostDies, Leave, HostAt
  <2>6. ASSUME NEW a \in Akumas, Peek(a) PROVE Frame
    BY <2>6, CallerLocks DEF CallShape, OwnLeash, Frame, Judging, Retiring, Peek
  <2>7. ASSUME NEW a \in Akumas, RecordTell(a) PROVE Frame
    BY <2>7, CallerLocks DEF CallShape, OwnLeash, Frame, Judging, Retiring, RecordTell
  <2>8. ASSUME NEW a \in Akumas, WakeTold(a) PROVE Frame
    BY <2>8, CallerLocks DEF CallShape, OwnLeash, Frame, Judging, Retiring, WakeTold, Wake
  <2>9. ASSUME NEW a \in Akumas, GrowOld(a) PROVE Frame
    BY <2>9, CallerLocks DEF CallShape, OwnLeash, Frame, Judging, Retiring, GrowOld
  <2>10. ASSUME NEW c \in Contracts, EndContract(c) PROVE Frame
    BY <2>10, CallerLocks DEF CallShape, OwnLeash, Frame, Judging, Retiring, EndContract
  <2> QED
    BY <1>3, <2>1, <2>2, <2>3, <2>4, <2>5, <2>6, <2>7, <2>8, <2>9, <2>10 DEF World
<1>4. ASSUME NEW a \in Akumas, Unpeek(a) PROVE Frame
  BY <1>4, CallerLocks DEF CallShape, OwnLeash, Frame, Judging, Retiring, Unpeek
<1>5. CASE UNCHANGED vars
  BY <1>5, CallerLocks DEF CallShape, OwnLeash, Frame, Judging, Retiring, vars
<1> QED
  BY <1>1, <1>2, <1>3, <1>4, <1>5 DEF Next

(* What a caller keeps the leash of stays undecided.                         *)
Held == \A p \in Callers : holder[p] = p /\ holder'[p] = p /\ Undecided(p) => Undecided(p)'

(* Only who has the leash decides, and a caller lets go as it does.          *)
LEMMA HeldUndecided == Shape /\ Seating /\ [Next]_vars => Held
<1> SUFFICES ASSUME Shape, Seating, [Next]_vars PROVE Held
  OBVIOUS
<1>1. ASSUME NEW a \in Akumas, HostStep(a) PROVE Held
  <2>1. CASE HostTakes(a)
    BY <2>1, CallerLocks DEF Shape, CallShape, Seating, Seated, Held, Undecided, EntryFields, HostTakes, Take, HostAt, Leave
  <2>2. CASE HostLooks(a)
    BY <2>2, CallerLocks DEF Shape, CallShape, Seating, Seated, Held, Undecided, EntryFields, HostLooks, HostAt, Leave
  <2>3. CASE HostBears(a)
    BY <2>3, CallerLocks DEF Shape, CallShape, Seating, Seated, Held, Undecided, EntryFields, HostBears, HostAt
  <2>4. CASE HostWakes(a)
    BY <2>4, CallerLocks DEF Shape, CallShape, Seating, Seated, Held, Undecided, EntryFields, HostWakes, HostAt, Leave
  <2>5. CASE HostRecords(a)
    <3>1. \A q \in Callers : entry'[q].soul = entry[q].soul /\ entry'[q].seal = entry[q].seal
      BY <2>5, CallerLocks DEF Shape, EntryFields, Akumas, HostRecords
    <3> QED
      BY <3>1 DEF Held, Undecided
  <2>6. CASE HostDrives(a)
    <3>1. \A q \in Callers : entry'[q].soul = entry[q].soul /\ entry'[q].seal = entry[q].seal
      BY <2>6, CallerLocks DEF Shape, EntryFields, Akumas, HostDrives
    <3> QED
      BY <3>1 DEF Held, Undecided
  <2>7. CASE HostReleases(a)
    BY <2>7, CallerLocks DEF Shape, CallShape, Seating, Seated, Held, Undecided, EntryFields, HostReleases, HostAt, Leave
  <2>8. CASE HostFails(a)
    BY <2>8, CallerLocks DEF Shape, CallShape, Seating, Seated, Held, Undecided, EntryFields, HostFails, HostAt
  <2>9. CASE HostSeals(a)
    <3>1. \A q \in Callers : q # a => entry'[q] = entry[q]
      BY <2>9 DEF Shape, Akumas, HostSeals, Sealed
    <3>2. holder[a] = "host"
      BY <2>9 DEF HostSeals, Seating, Seated
    <3> QED
      BY <3>1, <3>2, CallerLocks DEF Held, Undecided
  <2> QED
    BY <1>1, <2>1, <2>2, <2>3, <2>4, <2>5, <2>6, <2>7, <2>8, <2>9 DEF HostStep
<1>2. ASSUME NEW p \in Callers, CallStep(p) PROVE Held
  <2>1. CASE InitializeHeart(p)
    BY <2>1, CallerLocks DEF Shape, CallShape, Seating, Seated, Held, Undecided, EntryFields, InitializeHeart, Goto
  <2>2. CASE InitializeLeash(p)
    BY <2>2, CallerLocks DEF Shape, CallShape, Seating, Seated, Held, Undecided, EntryFields, InitializeLeash, Goto
  <2>3. CASE Launch(p)
    BY <2>3, CallerLocks DEF Shape, CallShape, Seating, Seated, Held, Undecided, EntryFields, Launch, Goto
  <2>4. CASE SealLocal(p)
    <3>1. \A q \in Callers : q # p => entry'[q] = entry[q]
      BY <2>4 DEF Shape, Akumas, SealLocal, Grasp, Conclude, Sealed
    <3>2. holder'[p] = p => entry' = entry
      BY <2>4, CallerLocks DEF Shape, CallShape, SealLocal, Grasp, Conclude, Beaten
    <3> QED
      BY <3>1, <3>2 DEF Held, Undecided
  <2>5. CASE AwaitBirth(p)
    BY <2>5, CallerLocks DEF Shape, CallShape, Seating, Seated, Held, Undecided, EntryFields, AwaitBirth, Trouble, Goto
  <2>6. CASE TimeOut(p)
    <3>1. \A q \in Callers : q # p => entry'[q] = entry[q]
      BY <2>6 DEF Shape, Akumas, TimeOut, Grasp, Conclude, Sealed
    <3>2. holder'[p] = p => entry' = entry
      BY <2>6, CallerLocks DEF Shape, CallShape, TimeOut, Grasp, Conclude, Beaten
    <3> QED
      BY <3>1, <3>2 DEF Held, Undecided
  <2>7. CASE AwaitAsleep(p)
    BY <2>7, CallerLocks DEF Shape, CallShape, Seating, Seated, Held, Undecided, EntryFields, AwaitAsleep, Goto, Trouble
  <2>8. CASE Settle(p)
    BY <2>8, CallerLocks DEF Shape, CallShape, Seating, Seated, Held, Undecided, EntryFields, Settle, Goto
  <2>9. CASE CloseBirth(p)
    <3>1. \A q \in Callers : q # p => entry'[q] = entry[q]
      BY <2>9 DEF Shape, Akumas, CloseBirth, Grasp, Conclude, Sealed
    <3>2. holder'[p] = p => entry' = entry
      BY <2>9, CallerLocks DEF Shape, CallShape, CloseBirth, Grasp, Conclude, Beaten
    <3> QED
      BY <3>1, <3>2 DEF Held, Undecided
  <2>10. CASE Judge(p)
    BY <2>10, CallerLocks DEF Shape, CallShape, Seating, Seated, Held, Undecided, EntryFields, Judge
  <2>11. CASE FirstTell(p)
    <3>1. \A q \in Callers : entry'[q].soul = entry[q].soul /\ entry'[q].seal = entry[q].seal
      BY <2>11, CallerLocks DEF Shape, EntryFields, Akumas, FirstTell
    <3> QED
      BY <3>1 DEF Held, Undecided
  <2>12. CASE FirstWake(p)
    BY <2>12, CallerLocks DEF Shape, CallShape, Seating, Seated, Held, Undecided, EntryFields, FirstWake, Goto, Wake
  <2>13. CASE Watch(p)
    BY <2>13, CallerLocks DEF Shape, CallShape, Seating, Seated, Held, Undecided, EntryFields, Watch
  <2>14. CASE Associate(p)
    BY <2>14, CallerLocks DEF Shape, CallShape, Seating, Seated, Held, Undecided, EntryFields, Associate
  <2>15. CASE TakeSeat(p)
    BY <2>15, CallerLocks DEF Shape, CallShape, Seating, Seated, Held, Undecided, EntryFields, TakeSeat, Take
  <2>16. CASE Publish(p)
    BY <2>16, CallerLocks DEF Shape, CallShape, Seating, Seated, Held, Undecided, EntryFields, Publish, Commit, Goto
  <2>17. CASE ReadBack(p)
    BY <2>17, CallerLocks DEF Shape, CallShape, Seating, Seated, Held, Undecided, EntryFields, ReadBack
  <2>18. CASE TakeAliases(p)
    BY <2>18, CallerLocks DEF Shape, CallShape, Seating, Seated, Held, Undecided, EntryFields, TakeAliases, Take, Goto
  <2>19. CASE MoveAlias(p)
    BY <2>19, CallerLocks DEF Shape, CallShape, Seating, Seated, Held, Undecided, EntryFields, MoveAlias
  <2>20. CASE Answer(p)
    BY <2>20, CallerLocks DEF Shape, CallShape, Seating, Seated, Held, Undecided, EntryFields, Answer
  <2>21. CASE LookForIdle(p)
    BY <2>21, CallerLocks DEF Shape, CallShape, Seating, Seated, Held, Undecided, EntryFields, LookForIdle
  <2>22. CASE TakeCandidate(p)
    BY <2>22, CallerLocks DEF Shape, CallShape, Seating, Seated, Held, Undecided, EntryFields, TakeCandidate, Goto, Take
  <2>23. CASE GuardNames(p)
    BY <2>23, CallerLocks DEF Shape, CallShape, Seating, Seated, Held, Undecided, EntryFields, GuardNames, Take, Goto, LetGo
  <2>24. CASE GuardDispatch(p)
    BY <2>24, CallerLocks DEF Shape, CallShape, Seating, Seated, Held, Undecided, EntryFields, GuardDispatch, Take, Goto, LetGo
  <2>25. CASE LastLook(p)
    BY <2>25, CallerLocks DEF Shape, CallShape, Seating, Seated, Held, Undecided, EntryFields, LastLook, Goto, LetGo
  <2>26. CASE RemoveLeash(p)
    <3>1. \A q \in Callers : entry'[q].soul = entry[q].soul /\ entry'[q].seal = entry[q].seal
      BY <2>26, CallerLocks DEF Shape, EntryFields, Akumas, RemoveLeash
    <3> QED
      BY <3>1 DEF Held, Undecided
  <2>27. CASE RemoveHeart(p)
    <3>1. \A q \in Callers : entry'[q].soul = entry[q].soul /\ entry'[q].seal = entry[q].seal
      BY <2>27, CallerLocks DEF Shape, EntryFields, Akumas, RemoveHeart
    <3> QED
      BY <3>1 DEF Held, Undecided
  <2> QED
    BY <1>2, <2>1, <2>2, <2>3, <2>4, <2>5, <2>6, <2>7, <2>8, <2>9, <2>10, <2>11, <2>12, <2>13, <2>14, <2>15, <2>16, <2>17, <2>18, <2>19, <2>20, <2>21, <2>22, <2>23, <2>24, <2>25, <2>26, <2>27 DEF CallStep
<1>3. CASE World
  <2>1. ASSUME NEW p \in Callers, Allocate(p) PROVE Held
    BY <2>1, CallerLocks DEF Shape, CallShape, Seating, Seated, Held, Undecided, EntryFields, Allocate, Goto
  <2>2. ASSUME NEW p \in Callers, Abort(p) PROVE Held
    BY <2>2, CallerLocks DEF Shape, CallShape, Seating, Seated, Held, Undecided, EntryFields, Abort
  <2>3. ASSUME NEW p \in Callers, Die(p) PROVE Held
    BY <2>3, CallerLocks DEF Shape, CallShape, Seating, Seated, Held, Undecided, EntryFields, Die, HostAt
  <2>4. ASSUME NEW o \in orphans, OrphanEnds(o) PROVE Held
    BY <2>4, CallerLocks DEF Shape, CallShape, Seating, Seated, Held, Undecided, EntryFields, OrphanEnds, Commit
  <2>5. ASSUME NEW a \in Akumas, HostDies(a) PROVE Held
    BY <2>5, CallerLocks DEF Shape, CallShape, Seating, Seated, Held, Undecided, EntryFields, HostDies, Leave, HostAt
  <2>6. ASSUME NEW a \in Akumas, Peek(a) PROVE Held
    BY <2>6, CallerLocks DEF Shape, CallShape, Seating, Seated, Held, Undecided, EntryFields, Peek
  <2>7. ASSUME NEW a \in Akumas, RecordTell(a) PROVE Held
    <3>1. \A q \in Callers : entry'[q].soul = entry[q].soul /\ entry'[q].seal = entry[q].seal
      BY <2>7, CallerLocks DEF Shape, EntryFields, Akumas, RecordTell
    <3> QED
      BY <3>1 DEF Held, Undecided
  <2>8. ASSUME NEW a \in Akumas, WakeTold(a) PROVE Held
    BY <2>8, CallerLocks DEF Shape, CallShape, Seating, Seated, Held, Undecided, EntryFields, WakeTold, Wake
  <2>9. ASSUME NEW a \in Akumas, GrowOld(a) PROVE Held
    BY <2>9, CallerLocks DEF Shape, CallShape, Seating, Seated, Held, Undecided, EntryFields, GrowOld
  <2>10. ASSUME NEW c \in Contracts, EndContract(c) PROVE Held
    BY <2>10, CallerLocks DEF Shape, CallShape, Seating, Seated, Held, Undecided, EntryFields, EndContract
  <2> QED
    BY <1>3, <2>1, <2>2, <2>3, <2>4, <2>5, <2>6, <2>7, <2>8, <2>9, <2>10 DEF World
<1>4. ASSUME NEW a \in Akumas, Unpeek(a) PROVE Held
  BY <1>4, CallerLocks DEF Shape, CallShape, Seating, Seated, Held, Undecided, EntryFields, Unpeek
<1>5. CASE UNCHANGED vars
  BY <1>5, CallerLocks DEF Shape, CallShape, Seating, Seated, Held, Undecided, EntryFields, vars
<1> QED
  BY <1>1, <1>2, <1>3, <1>4, <1>5 DEF Next

(* What was seen under the leash is still so.                                *)
LEMMA LookedKept == Shape /\ Fate /\ [Next]_vars => Looked'
<1> SUFFICES ASSUME Shape, Fate, [Next]_vars, NEW p \in Callers,
                    holder'[p] = p, call'[p].at \in Judging, call'[p].seen
             PROVE  Undecided(p)'
  BY DEF Looked
<1>1. Frame /\ Held
  BY LookedOnce, HeldUndecided DEF Shape, Fate
<1>2. CASE call'[p].seen = Undecided(p) /\ entry' = entry
  BY <1>2 DEF Undecided
<1>3. CASE holder[p] = p /\ call[p].at \in Judging /\ call'[p].seen = call[p].seen
  BY <1>1, <1>3 DEF Fate, Looked, Held
<1> QED
  BY <1>1, <1>2, <1>3 DEF Frame

(* A child has one fate: what has a Seal is never born, what has a Soul is   *)
(* never sealed (HeldAkumaLeash.birth and sealIfUnborn), for any number of   *)
(* callers, Akumas and failures. OneFate alone is not inductive: that nobody *)
(* else decides between a look and what is done about it is the leash's doing, *)
(* which Fate says.                                                          *)
THEOREM OneFateHolds == Spec => []OneFate
<1> DEFINE Inv == Shape /\ Fate
<1>1. Init => Inv
  BY ShapeAtFirst, FateAtFirst
<1>2. Inv /\ [Next]_vars => Inv'
  BY ShapeKept, SeatingKept, OwnLeashKept, FateKept, LookedKept DEF Shape, Fate
<1>3. Inv => OneFate
  BY DEF Fate
<1> QED
  BY <1>1, <1>2, <1>3, PTL DEF Spec

-----------------------------------------------------------------------------
(* What a caller is told                                                     *)

(* A caller has nothing yet, it has its child to bring to the world, or the  *)
(* child is born.                                                            *)
BeforeLaunch == {"idle", "allocated", "initializing", "launching"}
Unpublished == BeforeLaunch \cup
    {"sealing", "awaiting", "resting", "settling", "closing", "judging", "born", "waking", "watching",
     "dispatching", "seating", "publishing"}
BornAt ==
    {"resting", "born", "waking", "watching", "dispatching", "seating", "publishing", "reading back", "naming",
     "moving", "answering"}

(* An entry is at one of its places, and its Body in one of its states.      *)
Places == \A a \in Akumas :
    /\ entry[a].place \in {"none", "allocated", "leashless", "ready", "gone"}
    /\ entry[a].body \in {"none", "open", "exited", "broken"}

(* A leash is a host's exactly while it is seated, at a place that is ready; *)
(* only what was born has work.                                              *)
Hosts == \A a \in Akumas :
    /\ holder[a] = "host" <=> host[a].at \in Seated
    /\ holder[a] = "host" => entry[a].place = "ready"
    /\ host[a].at \in {"souled", "driving", "settled"} => entry[a].soul
    /\ entry[a].pending => entry[a].soul

(* Nobody runs what was not launched, and it is not born.                    *)
Launches == \A p \in Callers : call[p].at \in BeforeLaunch => host[p].at = "none" /\ ~entry[p].soul

(* The locks of a caller by the place where it stands.                       *)
Guards == {"guarded", "judged", "removing", "removing heart"}
Seats == {"publishing", "reading back", "judged", "removing", "removing heart"}
CustodyOf(p) ==
    /\ call[p].at \in Retiring => call[p].victim \in Akumas /\ holder[call[p].victim] = p
    /\ call[p].at \notin Retiring => call[p].victim = None
    /\ call[p].at \in Guards \cup {"moving"} => holder["alias"] = p
    /\ call[p].at \in Seats => holder["seat"] = p
    /\ call[p].at \in Retiring \cup {"retiring"} => call[p].todo \subseteq Akumas
Custody ==
    /\ holder["seat"] \in Callers \cup {None} /\ holder["alias"] \in Callers \cup {None}
    /\ \A p \in Callers : CustodyOf(p)

(* What a judgment of a birth comes to is the child's own evidence: whoever  *)
(* goes on has a born child, and whoever gives up one that is sealed, or     *)
(* left the decision to another.                                             *)
VerdictOf(p) ==
    /\ call[p].at \in BornAt => entry[p].soul
    /\ call[p].at = "judging" => call[p].yielded \/ entry[p].seal \/ entry[p].soul
    /\ call[p].result \in {"called", "named"} => entry[p].soul
    /\ call[p].result \in {"failed", "upstream"} => call[p].at = "ended"
    /\ call[p].result = "failed" => call[p].yielded \/ entry[p].seal
    /\ call[p].result = "upstream" => call[p].yielded \/ entry[p].seal \/ entry[p].soul
Verdicts == \A p \in Callers : VerdictOf(p)

(* What is undecided under a caller's leash, it saw to be so.                *)
Seen == \A p \in Callers : holder[p] = p /\ call[p].at \in Judging /\ Undecided(p) => call[p].seen

(* Only a caller, or the ref transaction it left, gives its child a Dispatch. *)
StageOf(p) ==
    /\ call[p].at \in Unpublished => dispatch[p] = None
    /\ call[p].at \in Unpublished \cup {"reading back"} => call[p].stage = "none"
    /\ call[p].at \in {"seating", "publishing", "reading back"} => call[p].contract # None
    /\ call[p].at = "reading back" => dispatch[p] \in {None, call[p].contract}
    /\ call[p].stage = "dispatched" => dispatch[p] = call[p].contract
    /\ call[p].stage = "failed" => dispatch[p] = None
    /\ call[p].stage = "thrown" =>
         dispatch[p] = None \/ (call[p].cause = "killed" /\ dispatch[p] = call[p].contract)
Stages == \A p \in Callers : StageOf(p)
Orphanage == \A o \in orphans : o.akuma \in Callers /\ call[o.akuma].at = "dead" /\ call[o.akuma].stage = "none"

(* A move replaces the names as they are, for its lock is held.              *)
MoveOf(p) ==
    /\ call[p].ask \in Asks
    /\ call[p].at = "moving" => call[p].seen = alias /\ call[p].ask.name # None
    /\ call[p].at \in Unpublished \cup {"reading back", "naming", "moving"} => call[p].named = "none"
    /\ call[p].named = "aliased" => call[p].ask.name \in Names
Reported(p) ==
    call[p].named = "aliased" => \E q \in Callers :
        alias[call[p].ask.name] = q /\ call[q].ask.name = call[p].ask.name /\ call[q].named # "none"
Moves == DOMAIN alias = Names /\ \A p \in Callers : MoveOf(p) /\ Reported(p)

(* At first nothing is told, nobody has a lock, and whoever is there rests.  *)
LEMMA HonestAtFirst == Init => Places /\ Hosts /\ Launches /\ Custody /\ Verdicts /\ Seen /\ Stages /\ Orphanage /\ Moves
<1> SUFFICES ASSUME NEW s \in Scenarios,
                    entry = [a \in Akumas |-> IF a \in Elders \/ s.from[a] = "born" THEN Entry("ready", TRUE)
                                              ELSE Entry("none", FALSE)],
                    holder = [l \in Locks |-> None],
                    host = [a \in Akumas |-> [at |-> "none", wake |-> FALSE, canceled |-> FALSE]],
                    call = [p \in Callers |-> NewCall(s.from[p], s.asks[p])],
                    orphans = {}, alias = s.alias,
                    dispatch = [a \in Akumas |-> IF a \in Elders THEN s.dispatched ELSE None]
             PROVE  Places /\ Hosts /\ Launches /\ Custody /\ Verdicts /\ Seen /\ Stages /\ Orphanage /\ Moves
  BY DEF Init
<1>1. \A p \in Callers : s.from[p] \in {"idle", "born"} /\ s.asks[p] \in Asks
  BY ScenariosAssumption DEF Scenes
<1>2. DOMAIN s.alias = Names
  BY ScenariosAssumption DEF Scenes
<1>3. \A p \in Callers :
        /\ call[p].at = s.from[p] /\ call[p].ask = s.asks[p] /\ call[p].victim = None
        /\ call[p].stage = "none" /\ call[p].result = "none" /\ call[p].named = "none"
  BY DEF NewCall
<1>4. \A p \in Callers : call[p].at \in {"idle", "born"} /\ call[p].ask \in Asks
  BY <1>1, <1>3
<1>5. \A a \in Akumas : host[a].at = "none" /\ holder[a] = None
  BY DEF Locks
<1>6. \A a \in Akumas :
        /\ entry[a].place \in {"none", "ready"} /\ entry[a].body \in {"none", "exited"} /\ ~entry[a].pending
        /\ a \in Elders \/ s.from[a] = "born" => entry[a].soul
        /\ ~(a \in Elders \/ s.from[a] = "born") => ~entry[a].soul
  BY DEF Entry
<1>7. Places
  BY <1>6 DEF Places
<1>8. Hosts
  BY <1>5, <1>6, CallerLocks DEF Hosts, Seated
<1>9. Launches
  <2>1. \A p \in Callers : p \in Akumas /\ p \notin Elders
    BY CallsAssumption DEF Akumas
  <2>2. \A p \in Callers : call[p].at \in BeforeLaunch => s.from[p] # "born"
    BY <1>3 DEF BeforeLaunch
  <2> QED
    BY <1>5, <1>6, <2>1, <2>2 DEF Launches
<1>10. Custody
  BY <1>3, <1>4 DEF Custody, CustodyOf, Retiring, Guards, Seats, Locks
<1>11. Verdicts
  <2>1. \A p \in Callers : call[p].at \in BornAt => s.from[p] = "born"
    BY <1>3, <1>4 DEF BornAt
  <2> QED
    BY <1>3, <1>4, <1>6, <2>1 DEF Verdicts, VerdictOf, Akumas
<1>12. Seen
  BY <1>5, CallerLocks, CallsAssumption DEF Seen, Akumas
<1>13. Stages
  BY <1>3, <1>4, CallsAssumption DEF Stages, StageOf, Unpublished, BeforeLaunch, Akumas
<1>14. Orphanage
  BY DEF Orphanage
<1>15. Moves
  BY <1>2, <1>3, <1>4 DEF Moves, MoveOf, Reported
<1> QED
  BY <1>7, <1>8, <1>9, <1>10, <1>11, <1>12, <1>13, <1>14, <1>15

(* A Soul or a Seal is never taken back.                                     *)
Lasting == \A a \in Akumas : (entry[a].soul => entry'[a].soul) /\ (entry[a].seal => entry'[a].seal)
LEMMA DecidedForGood == Shape /\ [Next]_vars => Lasting
<1> SUFFICES ASSUME Shape, [Next]_vars PROVE Lasting
  OBVIOUS
<1>1. ASSUME NEW a \in Akumas, HostStep(a) PROVE Lasting
  <2>1. CASE HostTakes(a)
    BY <2>1, CallerLocks DEF Shape, EntryFields, Lasting, HostTakes, Take, Takable, Taken, HostAt, Leave
  <2>2. CASE HostLooks(a)
    BY <2>2, CallerLocks DEF Shape, EntryFields, Lasting, HostLooks, HostAt, Leave
  <2>3. CASE HostBears(a)
    BY <2>3, CallerLocks DEF Shape, EntryFields, Lasting, HostBears, HostAt
  <2>4. CASE HostWakes(a)
    BY <2>4, CallerLocks DEF Shape, EntryFields, Lasting, HostWakes, HostAt, Leave
  <2>5. CASE HostRecords(a)
    BY <2>5, CallerLocks DEF Shape, EntryFields, Lasting, HostRecords, HostAt
  <2>6. CASE HostDrives(a)
    BY <2>6, CallerLocks DEF Shape, EntryFields, Lasting, HostDrives, HostAt, Spend
  <2>7. CASE HostReleases(a)
    BY <2>7, CallerLocks DEF Shape, EntryFields, Lasting, HostReleases, HostAt, Leave
  <2>8. CASE HostFails(a)
    BY <2>8, CallerLocks DEF Shape, EntryFields, Lasting, HostFails, HostAt, Spend
  <2>9. CASE HostSeals(a)
    BY <2>9, CallerLocks DEF Shape, EntryFields, Lasting, HostSeals, HostAt, Leave, Sealed, Undecided
  <2> QED
    BY <1>1, <2>1, <2>2, <2>3, <2>4, <2>5, <2>6, <2>7, <2>8, <2>9 DEF HostStep
<1>2. ASSUME NEW p \in Callers, CallStep(p) PROVE Lasting
  <2>1. CASE InitializeHeart(p)
    BY <2>1, CallerLocks DEF Shape, EntryFields, Lasting, InitializeHeart, Goto
  <2>2. CASE InitializeLeash(p)
    BY <2>2, CallerLocks DEF Shape, EntryFields, Lasting, InitializeLeash, Goto, Spend
  <2>3. CASE Launch(p)
    BY <2>3, CallerLocks DEF Shape, EntryFields, Lasting, Launch, Goto, Spend
  <2>4. CASE SealLocal(p)
    BY <2>4, CallerLocks DEF Shape, EntryFields, Lasting, SealLocal, Grasp, Conclude, Beaten, Takable, Take,
       Undecided, Sealed
  <2>5. CASE AwaitBirth(p)
    BY <2>5, CallerLocks DEF Shape, EntryFields, Lasting, AwaitBirth, Trouble, Goto, Confirmed, Fork, Takable, Over
  <2>6. CASE TimeOut(p)
    BY <2>6, CallerLocks DEF Shape, EntryFields, Lasting, TimeOut, Grasp, Conclude, Beaten, Takable, Take,
       Undecided, Sealed, Trouble, Confirmed, Fork, Over
  <2>7. CASE AwaitAsleep(p)
    BY <2>7, CallerLocks DEF Shape, EntryFields, Lasting, AwaitAsleep, Goto, Trouble, Takable
  <2>8. CASE Settle(p)
    BY <2>8, CallerLocks DEF Shape, EntryFields, Lasting, Settle, Goto, Outcome, Over, Takable
  <2>9. CASE CloseBirth(p)
    BY <2>9, CallerLocks DEF Shape, EntryFields, Lasting, CloseBirth, Grasp, Conclude, Beaten, Takable, Take,
       Undecided, Sealed, Outcome
  <2>10. CASE Judge(p)
    BY <2>10, CallerLocks DEF Shape, EntryFields, Lasting, Judge, Fork
  <2>11. CASE FirstTell(p)
    BY <2>11, CallerLocks DEF Shape, EntryFields, Lasting, FirstTell, Goto, Takable, Taken
  <2>12. CASE FirstWake(p)
    BY <2>12, CallerLocks DEF Shape, EntryFields, Lasting, FirstWake, Goto, Wake, Quiet
  <2>13. CASE Watch(p)
    BY <2>13, CallerLocks DEF Shape, EntryFields, Lasting, Watch, Quiet
  <2>14. CASE Associate(p)
    BY <2>14, CallerLocks DEF Shape, EntryFields, Lasting, Associate, Fork
  <2>15. CASE TakeSeat(p)
    BY <2>15, CallerLocks DEF Shape, EntryFields, Lasting, TakeSeat, Take
  <2>16. CASE Publish(p)
    BY <2>16, CallerLocks DEF Shape, EntryFields, Lasting, Publish, Commit, Goto, Spend
  <2>17. CASE ReadBack(p)
    BY <2>17, CallerLocks DEF Shape, EntryFields, Lasting, ReadBack
  <2>18. CASE TakeAliases(p)
    BY <2>18, CallerLocks DEF Shape, EntryFields, Lasting, TakeAliases, Wanted, Fork, Take, Goto
  <2>19. CASE MoveAlias(p)
    BY <2>19, CallerLocks DEF Shape, EntryFields, Lasting, MoveAlias, Spend
  <2>20. CASE Answer(p)
    BY <2>20, CallerLocks DEF Shape, EntryFields, Lasting, Answer
  <2>21. CASE LookForIdle(p)
    BY <2>21, CallerLocks DEF Shape, EntryFields, Lasting, LookForIdle, Takable, Eligible, Stopped, Settled,
       Unnamed, Detached
  <2>22. CASE TakeCandidate(p)
    BY <2>22, CallerLocks DEF Shape, EntryFields, Lasting, TakeCandidate, Goto, Take, Takable, Eligible, Stopped,
       Settled
  <2>23. CASE GuardNames(p)
    BY <2>23, CallerLocks DEF Shape, EntryFields, Lasting, GuardNames, Take, Goto, LetGo, Unnamed
  <2>24. CASE GuardDispatch(p)
    BY <2>24, CallerLocks DEF Shape, EntryFields, Lasting, GuardDispatch, Take, Goto, LetGo, Detached
  <2>25. CASE LastLook(p)
    BY <2>25, CallerLocks DEF Shape, EntryFields, Lasting, LastLook, Goto, LetGo, Eligible, Stopped, Settled
  <2>26. CASE RemoveLeash(p)
    BY <2>26, CallerLocks DEF Shape, EntryFields, Lasting, RemoveLeash, Goto, LetGo
  <2>27. CASE RemoveHeart(p)
    BY <2>27, CallerLocks DEF Shape, EntryFields, Lasting, RemoveHeart, Goto, LetGo
  <2> QED
    BY <1>2, <2>1, <2>2, <2>3, <2>4, <2>5, <2>6, <2>7, <2>8, <2>9, <2>10, <2>11, <2>12, <2>13, <2>14, <2>15, <2>16,
       <2>17, <2>18, <2>19, <2>20, <2>21, <2>22, <2>23, <2>24, <2>25, <2>26, <2>27 DEF CallStep
<1>3. CASE World
  <2>1. ASSUME NEW p \in Callers, Allocate(p) PROVE Lasting
    BY <2>1, CallerLocks DEF Shape, EntryFields, Lasting, Allocate, Goto
  <2>2. ASSUME NEW p \in Callers, Abort(p) PROVE Lasting
    BY <2>2, CallerLocks DEF Shape, EntryFields, Lasting, Abort, Spend, Live, Fork
  <2>3. ASSUME NEW p \in Callers, Die(p) PROVE Lasting
    BY <2>3, CallerLocks DEF Shape, EntryFields, Lasting, Die, Spend, Live, Quiet, HostAt
  <2>4. ASSUME NEW o \in orphans, OrphanEnds(o) PROVE Lasting
    BY <2>4, CallerLocks DEF Shape, EntryFields, Lasting, OrphanEnds, Commit
  <2>5. ASSUME NEW a \in Akumas, HostDies(a) PROVE Lasting
    BY <2>5, CallerLocks DEF Shape, EntryFields, Lasting, HostDies, Quiet, Spend, Leave, HostAt
  <2>6. ASSUME NEW a \in Akumas, Peek(a) PROVE Lasting
    BY <2>6, CallerLocks DEF Shape, EntryFields, Lasting, Peek, Takable, Spend
  <2>7. ASSUME NEW a \in Akumas, RecordTell(a) PROVE Lasting
    BY <2>7, CallerLocks DEF Shape, EntryFields, Lasting, RecordTell, Spend
  <2>8. ASSUME NEW a \in Akumas, WakeTold(a) PROVE Lasting
    BY <2>8, CallerLocks DEF Shape, EntryFields, Lasting, WakeTold, Wake, Quiet, Spend
  <2>9. ASSUME NEW a \in Akumas, GrowOld(a) PROVE Lasting
    BY <2>9, CallerLocks DEF Shape, EntryFields, Lasting, GrowOld, Stopped, Settled, Quiet
  <2>10. ASSUME NEW c \in Contracts, EndContract(c) PROVE Lasting
    BY <2>10, CallerLocks DEF Shape, EntryFields, Lasting, EndContract, Spend
  <2> QED
    BY <1>3, <2>1, <2>2, <2>3, <2>4, <2>5, <2>6, <2>7, <2>8, <2>9, <2>10 DEF World
<1>4. ASSUME NEW a \in Akumas, Unpeek(a) PROVE Lasting
  BY <1>4, CallerLocks DEF Shape, EntryFields, Lasting, Unpeek
<1>5. CASE UNCHANGED vars
  BY <1>5, CallerLocks DEF Shape, EntryFields, Lasting, vars, git
<1> QED
  BY <1>1, <1>2, <1>3, <1>4, <1>5 DEF Next

(* An entry goes from place to place.                                        *)
LEMMA PlacesKept == Shape /\ Places /\ [Next]_vars => Places'
<1> SUFFICES ASSUME Shape, Places, [Next]_vars PROVE Places'
  OBVIOUS
<1>1. ASSUME NEW a \in Akumas, HostStep(a) PROVE Places'
  <2>1. CASE HostTakes(a)
    BY <2>1, CallerLocks DEF Shape, EntryFields, Places, HostTakes, Take, Takable, Taken, HostAt, Leave
  <2>2. CASE HostLooks(a)
    BY <2>2, CallerLocks DEF Shape, EntryFields, Places, HostLooks, HostAt, Leave
  <2>3. CASE HostBears(a)
    BY <2>3, CallerLocks DEF Shape, EntryFields, Places, HostBears, HostAt
  <2>4. CASE HostWakes(a)
    BY <2>4, CallerLocks DEF Shape, EntryFields, Places, HostWakes, HostAt, Leave
  <2>5. CASE HostRecords(a)
    BY <2>5, CallerLocks DEF Shape, EntryFields, Places, HostRecords, HostAt
  <2>6. CASE HostDrives(a)
    BY <2>6, CallerLocks DEF Shape, EntryFields, Places, HostDrives, HostAt, Spend
  <2>7. CASE HostReleases(a)
    BY <2>7, CallerLocks DEF Shape, EntryFields, Places, HostReleases, HostAt, Leave
  <2>8. CASE HostFails(a)
    BY <2>8, CallerLocks DEF Shape, EntryFields, Places, HostFails, HostAt, Spend
  <2>9. CASE HostSeals(a)
    BY <2>9, CallerLocks DEF Shape, EntryFields, Places, HostSeals, HostAt, Leave, Sealed, Undecided
  <2> QED
    BY <1>1, <2>1, <2>2, <2>3, <2>4, <2>5, <2>6, <2>7, <2>8, <2>9 DEF HostStep
<1>2. ASSUME NEW p \in Callers, CallStep(p) PROVE Places'
  <2>1. CASE InitializeHeart(p)
    BY <2>1, CallerLocks DEF Shape, EntryFields, Places, InitializeHeart, Goto
  <2>2. CASE InitializeLeash(p)
    BY <2>2, CallerLocks DEF Shape, EntryFields, Places, InitializeLeash, Goto, Spend
  <2>3. CASE Launch(p)
    BY <2>3, CallerLocks DEF Shape, EntryFields, Places, Launch, Goto, Spend
  <2>4. CASE SealLocal(p)
    BY <2>4, CallerLocks DEF Shape, EntryFields, Places, SealLocal, Grasp, Conclude, Beaten, Takable, Take,
       Undecided, Sealed
  <2>5. CASE AwaitBirth(p)
    BY <2>5, CallerLocks DEF Shape, EntryFields, Places, AwaitBirth, Trouble, Goto, Confirmed, Fork, Takable, Over
  <2>6. CASE TimeOut(p)
    BY <2>6, CallerLocks DEF Shape, EntryFields, Places, TimeOut, Grasp, Conclude, Beaten, Takable, Take,
       Undecided, Sealed, Trouble, Confirmed, Fork, Over
  <2>7. CASE AwaitAsleep(p)
    BY <2>7, CallerLocks DEF Shape, EntryFields, Places, AwaitAsleep, Goto, Trouble, Takable
  <2>8. CASE Settle(p)
    BY <2>8, CallerLocks DEF Shape, EntryFields, Places, Settle, Goto, Outcome, Over, Takable
  <2>9. CASE CloseBirth(p)
    BY <2>9, CallerLocks DEF Shape, EntryFields, Places, CloseBirth, Grasp, Conclude, Beaten, Takable, Take,
       Undecided, Sealed, Outcome
  <2>10. CASE Judge(p)
    BY <2>10, CallerLocks DEF Shape, EntryFields, Places, Judge, Fork
  <2>11. CASE FirstTell(p)
    BY <2>11, CallerLocks DEF Shape, EntryFields, Places, FirstTell, Goto, Takable, Taken
  <2>12. CASE FirstWake(p)
    BY <2>12, CallerLocks DEF Shape, EntryFields, Places, FirstWake, Goto, Wake, Quiet
  <2>13. CASE Watch(p)
    BY <2>13, CallerLocks DEF Shape, EntryFields, Places, Watch, Quiet
  <2>14. CASE Associate(p)
    BY <2>14, CallerLocks DEF Shape, EntryFields, Places, Associate, Fork
  <2>15. CASE TakeSeat(p)
    BY <2>15, CallerLocks DEF Shape, EntryFields, Places, TakeSeat, Take
  <2>16. CASE Publish(p)
    BY <2>16, CallerLocks DEF Shape, EntryFields, Places, Publish, Commit, Goto, Spend
  <2>17. CASE ReadBack(p)
    BY <2>17, CallerLocks DEF Shape, EntryFields, Places, ReadBack
  <2>18. CASE TakeAliases(p)
    BY <2>18, CallerLocks DEF Shape, EntryFields, Places, TakeAliases, Wanted, Fork, Take, Goto
  <2>19. CASE MoveAlias(p)
    BY <2>19, CallerLocks DEF Shape, EntryFields, Places, MoveAlias, Spend
  <2>20. CASE Answer(p)
    BY <2>20, CallerLocks DEF Shape, EntryFields, Places, Answer
  <2>21. CASE LookForIdle(p)
    BY <2>21, CallerLocks DEF Shape, EntryFields, Places, LookForIdle, Takable, Eligible, Stopped, Settled,
       Unnamed, Detached
  <2>22. CASE TakeCandidate(p)
    BY <2>22, CallerLocks DEF Shape, EntryFields, Places, TakeCandidate, Goto, Take, Takable, Eligible, Stopped,
       Settled
  <2>23. CASE GuardNames(p)
    BY <2>23, CallerLocks DEF Shape, EntryFields, Places, GuardNames, Take, Goto, LetGo, Unnamed
  <2>24. CASE GuardDispatch(p)
    BY <2>24, CallerLocks DEF Shape, EntryFields, Places, GuardDispatch, Take, Goto, LetGo, Detached
  <2>25. CASE LastLook(p)
    BY <2>25, CallerLocks DEF Shape, EntryFields, Places, LastLook, Goto, LetGo, Eligible, Stopped, Settled
  <2>26. CASE RemoveLeash(p)
    BY <2>26, CallerLocks DEF Shape, EntryFields, Places, RemoveLeash, Goto, LetGo
  <2>27. CASE RemoveHeart(p)
    BY <2>27, CallerLocks DEF Shape, EntryFields, Places, RemoveHeart, Goto, LetGo
  <2> QED
    BY <1>2, <2>1, <2>2, <2>3, <2>4, <2>5, <2>6, <2>7, <2>8, <2>9, <2>10, <2>11, <2>12, <2>13, <2>14, <2>15, <2>16,
       <2>17, <2>18, <2>19, <2>20, <2>21, <2>22, <2>23, <2>24, <2>25, <2>26, <2>27 DEF CallStep
<1>3. CASE World
  <2>1. ASSUME NEW p \in Callers, Allocate(p) PROVE Places'
    BY <2>1, CallerLocks DEF Shape, EntryFields, Places, Allocate, Goto
  <2>2. ASSUME NEW p \in Callers, Abort(p) PROVE Places'
    BY <2>2, CallerLocks DEF Shape, EntryFields, Places, Abort, Spend, Live, Fork
  <2>3. ASSUME NEW p \in Callers, Die(p) PROVE Places'
    BY <2>3, CallerLocks DEF Shape, EntryFields, Places, Die, Spend, Live, Quiet, HostAt
  <2>4. ASSUME NEW o \in orphans, OrphanEnds(o) PROVE Places'
    BY <2>4, CallerLocks DEF Shape, EntryFields, Places, OrphanEnds, Commit
  <2>5. ASSUME NEW a \in Akumas, HostDies(a) PROVE Places'
    BY <2>5, CallerLocks DEF Shape, EntryFields, Places, HostDies, Quiet, Spend, Leave, HostAt
  <2>6. ASSUME NEW a \in Akumas, Peek(a) PROVE Places'
    BY <2>6, CallerLocks DEF Shape, EntryFields, Places, Peek, Takable, Spend
  <2>7. ASSUME NEW a \in Akumas, RecordTell(a) PROVE Places'
    BY <2>7, CallerLocks DEF Shape, EntryFields, Places, RecordTell, Spend
  <2>8. ASSUME NEW a \in Akumas, WakeTold(a) PROVE Places'
    BY <2>8, CallerLocks DEF Shape, EntryFields, Places, WakeTold, Wake, Quiet, Spend
  <2>9. ASSUME NEW a \in Akumas, GrowOld(a) PROVE Places'
    BY <2>9, CallerLocks DEF Shape, EntryFields, Places, GrowOld, Stopped, Settled, Quiet
  <2>10. ASSUME NEW c \in Contracts, EndContract(c) PROVE Places'
    BY <2>10, CallerLocks DEF Shape, EntryFields, Places, EndContract, Spend
  <2> QED
    BY <1>3, <2>1, <2>2, <2>3, <2>4, <2>5, <2>6, <2>7, <2>8, <2>9, <2>10 DEF World
<1>4. ASSUME NEW a \in Akumas, Unpeek(a) PROVE Places'
  BY <1>4, CallerLocks DEF Shape, EntryFields, Places, Unpeek
<1>5. CASE UNCHANGED vars
  BY <1>5, CallerLocks DEF Shape, EntryFields, Places, vars, git
<1> QED
  BY <1>1, <1>2, <1>3, <1>4, <1>5 DEF Next

(* A step is a caller's own, the world's beside it, or none.                 *)
OwnStep(p) == CallStep(p) \/ Allocate(p) \/ Abort(p) \/ Die(p)
ForeignStep ==
    \/ \E a \in Akumas : HostStep(a) \/ Unpeek(a) \/ HostDies(a) \/ Peek(a) \/ RecordTell(a) \/ WakeTold(a) \/ GrowOld(a)
    \/ \E o \in orphans : OrphanEnds(o)
    \/ \E k \in Contracts : EndContract(k)

LEMMA StepKinds ==
  ASSUME [Next]_vars
  PROVE  (\E p \in Callers : OwnStep(p)) \/ ForeignStep \/ UNCHANGED vars
BY DEF Next, World, OwnStep, ForeignStep

(* The world leaves the callers and their locks alone, and so do callers one *)
(* another.                                                                  *)
Calm ==
    /\ call' = call
    /\ \A q \in Callers : \A l \in Locks : holder[l] = q => holder'[l] = q
    /\ holder'["seat"] = holder["seat"] /\ holder'["alias"] = holder["alias"]
Alone(p) ==
    /\ \A q \in Callers \ {p} : call'[q] = call[q] /\ \A l \in Locks : holder[l] = q => holder'[l] = q
    /\ \A l \in {"seat", "alias"} : holder'[l] \in {holder[l], p, None}

(* Hosts and lookers take and release their own leashes.                     *)
LEMMA WorldIsCalm ==
  ASSUME CallShape, ForeignStep
  PROVE  Calm
<1>1. ASSUME NEW a \in Akumas, HostTakes(a) PROVE Calm
  BY <1>1, CallerLocks, CallsAssumption DEF CallShape, Calm, Locks, Akumas, HostTakes, Take, Takable, Taken,
     HostAt, Leave
<1>2. ASSUME NEW a \in Akumas, HostLooks(a) PROVE Calm
  BY <1>2, CallerLocks, CallsAssumption DEF CallShape, Calm, Locks, Akumas, HostLooks, HostAt, Leave
<1>3. ASSUME NEW a \in Akumas, HostBears(a) PROVE Calm
  BY <1>3, CallerLocks, CallsAssumption DEF CallShape, Calm, Locks, Akumas, HostBears, HostAt
<1>4. ASSUME NEW a \in Akumas, HostWakes(a) PROVE Calm
  BY <1>4, CallerLocks, CallsAssumption DEF CallShape, Calm, Locks, Akumas, HostWakes, HostAt, Leave
<1>5. ASSUME NEW a \in Akumas, HostRecords(a) PROVE Calm
  BY <1>5, CallerLocks, CallsAssumption DEF CallShape, Calm, Locks, Akumas, HostRecords, HostAt
<1>6. ASSUME NEW a \in Akumas, HostDrives(a) PROVE Calm
  BY <1>6, CallerLocks, CallsAssumption DEF CallShape, Calm, Locks, Akumas, HostDrives, HostAt, Spend
<1>7. ASSUME NEW a \in Akumas, HostReleases(a) PROVE Calm
  BY <1>7, CallerLocks, CallsAssumption DEF CallShape, Calm, Locks, Akumas, HostReleases, HostAt, Leave
<1>8. ASSUME NEW a \in Akumas, HostFails(a) PROVE Calm
  BY <1>8, CallerLocks, CallsAssumption DEF CallShape, Calm, Locks, Akumas, HostFails, HostAt, Spend
<1>9. ASSUME NEW a \in Akumas, HostSeals(a) PROVE Calm
  BY <1>9, CallerLocks, CallsAssumption DEF CallShape, Calm, Locks, Akumas, HostSeals, HostAt, Leave, Sealed,
     Undecided
<1>10. ASSUME NEW a \in Akumas, Unpeek(a) PROVE Calm
  BY <1>10, CallerLocks, CallsAssumption DEF CallShape, Calm, Locks, Akumas, Unpeek
<1>11. ASSUME NEW a \in Akumas, HostDies(a) PROVE Calm
  BY <1>11, CallerLocks, CallsAssumption DEF CallShape, Calm, Locks, Akumas, HostDies, Quiet, Spend, Leave, HostAt
<1>12. ASSUME NEW a \in Akumas, Peek(a) PROVE Calm
  BY <1>12, CallerLocks, CallsAssumption DEF CallShape, Calm, Locks, Akumas, Peek, Takable, Spend
<1>13. ASSUME NEW a \in Akumas, RecordTell(a) PROVE Calm
  BY <1>13, CallerLocks, CallsAssumption DEF CallShape, Calm, Locks, Akumas, RecordTell, Spend
<1>14. ASSUME NEW a \in Akumas, WakeTold(a) PROVE Calm
  BY <1>14, CallerLocks, CallsAssumption DEF CallShape, Calm, Locks, Akumas, WakeTold, Wake, Quiet, Spend
<1>15. ASSUME NEW a \in Akumas, GrowOld(a) PROVE Calm
  BY <1>15, CallerLocks, CallsAssumption DEF CallShape, Calm, Locks, Akumas, GrowOld, Stopped, Settled, Quiet
<1>16. ASSUME NEW o \in orphans, OrphanEnds(o) PROVE Calm
  BY <1>16, CallerLocks, CallsAssumption DEF CallShape, Calm, Locks, Akumas, OrphanEnds, Commit
<1>17. ASSUME NEW k \in Contracts, EndContract(k) PROVE Calm
  BY <1>17, CallerLocks, CallsAssumption DEF CallShape, Calm, Locks, Akumas, EndContract, Spend
<1> QED
  BY <1>1, <1>2, <1>3, <1>4, <1>5, <1>6, <1>7, <1>8, <1>9, <1>10, <1>11, <1>12, <1>13, <1>14, <1>15, <1>16,
     <1>17 DEF ForeignStep, HostStep

(* A caller's step changes what that caller knows, and nothing of another's. *)
LEMMA CallersMindTheirOwn ==
  ASSUME NEW p \in Callers, CallShape, OwnStep(p)
  PROVE  \A q \in Callers \ {p} : call'[q] = call[q]
<1>1. CASE InitializeHeart(p)
  BY <1>1 DEF CallShape, InitializeHeart, Goto
<1>2. CASE InitializeLeash(p)
  BY <1>2 DEF CallShape, InitializeLeash, Goto
<1>3. CASE Launch(p)
  BY <1>3 DEF CallShape, Launch, Goto
<1>4. CASE SealLocal(p)
  BY <1>4 DEF CallShape, SealLocal, Grasp, Conclude, Take
<1>5. CASE AwaitBirth(p)
  BY <1>5 DEF CallShape, AwaitBirth, Trouble, Goto
<1>6. CASE TimeOut(p)
  BY <1>6 DEF CallShape, TimeOut, Grasp, Conclude, Take, Trouble
<1>7. CASE AwaitAsleep(p)
  BY <1>7 DEF CallShape, AwaitAsleep, Goto, Trouble
<1>8. CASE Settle(p)
  BY <1>8 DEF CallShape, Settle, Goto
<1>9. CASE CloseBirth(p)
  BY <1>9 DEF CallShape, CloseBirth, Grasp, Conclude, Take
<1>10. CASE Judge(p)
  BY <1>10 DEF CallShape, Judge
<1>11. CASE FirstTell(p)
  BY <1>11 DEF CallShape, FirstTell, Goto
<1>12. CASE FirstWake(p)
  BY <1>12 DEF CallShape, FirstWake, Goto
<1>13. CASE Watch(p)
  BY <1>13 DEF CallShape, Watch
<1>14. CASE Associate(p)
  BY <1>14 DEF CallShape, Associate
<1>15. CASE TakeSeat(p)
  BY <1>15 DEF CallShape, TakeSeat, Take
<1>16. CASE Publish(p)
  BY <1>16 DEF CallShape, Publish, Goto
<1>17. CASE ReadBack(p)
  BY <1>17 DEF CallShape, ReadBack
<1>18. CASE TakeAliases(p)
  BY <1>18 DEF CallShape, TakeAliases, Take, Goto
<1>19. CASE MoveAlias(p)
  BY <1>19 DEF CallShape, MoveAlias
<1>20. CASE Answer(p)
  BY <1>20 DEF CallShape, Answer
<1>21. CASE LookForIdle(p)
  BY <1>21 DEF CallShape, LookForIdle
<1>22. CASE TakeCandidate(p)
  BY <1>22 DEF CallShape, TakeCandidate, Goto, Take
<1>23. CASE GuardNames(p)
  BY <1>23 DEF CallShape, GuardNames, Take, Goto, LetGo
<1>24. CASE GuardDispatch(p)
  BY <1>24 DEF CallShape, GuardDispatch, Take, Goto, LetGo
<1>25. CASE LastLook(p)
  BY <1>25 DEF CallShape, LastLook, Goto, LetGo
<1>26. CASE RemoveLeash(p)
  BY <1>26 DEF CallShape, RemoveLeash, Goto, LetGo
<1>27. CASE RemoveHeart(p)
  BY <1>27 DEF CallShape, RemoveHeart, Goto, LetGo
<1>28. CASE Allocate(p)
  BY <1>28 DEF CallShape, Allocate, Goto
<1>29. CASE Abort(p)
  BY <1>29 DEF CallShape, Abort
<1>30. CASE Die(p)
  BY <1>30 DEF CallShape, Die, HostAt
<1> QED
  BY <1>1, <1>2, <1>3, <1>4, <1>5, <1>6, <1>7, <1>8, <1>9, <1>10, <1>11, <1>12, <1>13, <1>14, <1>15, <1>16, <1>17,
     <1>18, <1>19, <1>20, <1>21, <1>22, <1>23, <1>24, <1>25, <1>26, <1>27, <1>28, <1>29, <1>30 DEF OwnStep, CallStep

(* A caller releases its own locks only.                                     *)
LEMMA CallersReleaseTheirOwn ==
  ASSUME NEW p \in Callers, CallShape, CustodyOf(p), OwnStep(p)
  PROVE  /\ \A q \in Callers \ {p} : \A l \in Locks : holder[l] = q => holder'[l] = q
         /\ \A l \in {"seat", "alias"} : holder'[l] \in {holder[l], p, None}
<1>1. CASE InitializeHeart(p)
  BY <1>1, CallerLocks, CallsAssumption DEF CallShape, CustodyOf, Guards, Seats, Locks, Akumas, InitializeHeart, Goto
<1>2. CASE InitializeLeash(p)
  BY <1>2, CallerLocks, CallsAssumption DEF CallShape, CustodyOf, Guards, Seats, Locks, Akumas, InitializeLeash, Goto
<1>3. CASE Launch(p)
  BY <1>3, CallerLocks, CallsAssumption DEF CallShape, CustodyOf, Guards, Seats, Locks, Akumas, Launch, Goto
<1>4. CASE SealLocal(p)
  BY <1>4, CallerLocks, CallsAssumption DEF CallShape, CustodyOf, Guards, Seats, Locks, Akumas, SealLocal, Grasp,
     Conclude, Take
<1>5. CASE AwaitBirth(p)
  BY <1>5, CallerLocks, CallsAssumption DEF CallShape, CustodyOf, Guards, Seats, Locks, Akumas, AwaitBirth,
     Trouble, Goto
<1>6. CASE TimeOut(p)
  BY <1>6, CallerLocks, CallsAssumption DEF CallShape, CustodyOf, Guards, Seats, Locks, Akumas, TimeOut, Grasp,
     Conclude, Take, Trouble
<1>7. CASE AwaitAsleep(p)
  BY <1>7, CallerLocks, CallsAssumption DEF CallShape, CustodyOf, Guards, Seats, Locks, Akumas, AwaitAsleep, Goto,
     Trouble
<1>8. CASE Settle(p)
  BY <1>8, CallerLocks, CallsAssumption DEF CallShape, CustodyOf, Guards, Seats, Locks, Akumas, Settle, Goto
<1>9. CASE CloseBirth(p)
  BY <1>9, CallerLocks, CallsAssumption DEF CallShape, CustodyOf, Guards, Seats, Locks, Akumas, CloseBirth, Grasp,
     Conclude, Take
<1>10. CASE Judge(p)
  BY <1>10, CallerLocks, CallsAssumption DEF CallShape, CustodyOf, Guards, Seats, Locks, Akumas, Judge
<1>11. CASE FirstTell(p)
  BY <1>11, CallerLocks, CallsAssumption DEF CallShape, CustodyOf, Guards, Seats, Locks, Akumas, FirstTell, Goto
<1>12. CASE FirstWake(p)
  BY <1>12, CallerLocks, CallsAssumption DEF CallShape, CustodyOf, Guards, Seats, Locks, Akumas, FirstWake, Goto
<1>13. CASE Watch(p)
  BY <1>13, CallerLocks, CallsAssumption DEF CallShape, CustodyOf, Guards, Seats, Locks, Akumas, Watch
<1>14. CASE Associate(p)
  BY <1>14, CallerLocks, CallsAssumption DEF CallShape, CustodyOf, Guards, Seats, Locks, Akumas, Associate
<1>15. CASE TakeSeat(p)
  BY <1>15, CallerLocks, CallsAssumption DEF CallShape, CustodyOf, Guards, Seats, Locks, Akumas, TakeSeat, Take
<1>16. CASE Publish(p)
  BY <1>16, CallerLocks, CallsAssumption DEF CallShape, CustodyOf, Guards, Seats, Locks, Akumas, Publish, Goto
<1>17. CASE ReadBack(p)
  BY <1>17, CallerLocks, CallsAssumption DEF CallShape, CustodyOf, Guards, Seats, Locks, Akumas, ReadBack
<1>18. CASE TakeAliases(p)
  BY <1>18, CallerLocks, CallsAssumption DEF CallShape, CustodyOf, Guards, Seats, Locks, Akumas, TakeAliases, Take,
     Goto
<1>19. CASE MoveAlias(p)
  BY <1>19, CallerLocks, CallsAssumption DEF CallShape, CustodyOf, Guards, Seats, Locks, Akumas, MoveAlias
<1>20. CASE Answer(p)
  BY <1>20, CallerLocks, CallsAssumption DEF CallShape, CustodyOf, Guards, Seats, Locks, Akumas, Answer
<1>21. CASE LookForIdle(p)
  BY <1>21, CallerLocks, CallsAssumption DEF CallShape, CustodyOf, Guards, Seats, Locks, Akumas, LookForIdle
<1>22. CASE TakeCandidate(p)
  BY <1>22, CallerLocks, CallsAssumption DEF CallShape, CustodyOf, Guards, Seats, Locks, Akumas, TakeCandidate,
     Goto, Take
<1>23. CASE GuardNames(p)
  BY <1>23, CallerLocks, CallsAssumption DEF CallShape, CustodyOf, Guards, Seats, Locks, Akumas, GuardNames, Take,
     Goto, LetGo
<1>24. CASE GuardDispatch(p)
  BY <1>24, CallerLocks, CallsAssumption DEF CallShape, CustodyOf, Guards, Seats, Locks, Akumas, GuardDispatch,
     Take, Goto, LetGo
<1>25. CASE LastLook(p)
  BY <1>25, CallerLocks, CallsAssumption DEF CallShape, CustodyOf, Guards, Seats, Locks, Akumas, LastLook, Goto, LetGo
<1>26. CASE RemoveLeash(p)
  BY <1>26, CallerLocks, CallsAssumption DEF CallShape, CustodyOf, Guards, Seats, Locks, Akumas, RemoveLeash, Goto,
     LetGo
<1>27. CASE RemoveHeart(p)
  BY <1>27, CallerLocks, CallsAssumption DEF CallShape, CustodyOf, Guards, Seats, Locks, Akumas, RemoveHeart, Goto,
     LetGo
<1>28. CASE Allocate(p)
  BY <1>28, CallerLocks, CallsAssumption DEF CallShape, CustodyOf, Guards, Seats, Locks, Akumas, Allocate, Goto
<1>29. CASE Abort(p)
  BY <1>29, CallerLocks, CallsAssumption DEF CallShape, CustodyOf, Guards, Seats, Locks, Akumas, Abort
<1>30. CASE Die(p)
  BY <1>30, CallerLocks, CallsAssumption DEF CallShape, CustodyOf, Guards, Seats, Locks, Akumas, Die, HostAt
<1> QED
  BY <1>1, <1>2, <1>3, <1>4, <1>5, <1>6, <1>7, <1>8, <1>9, <1>10, <1>11, <1>12, <1>13, <1>14, <1>15, <1>16, <1>17,
     <1>18, <1>19, <1>20, <1>21, <1>22, <1>23, <1>24, <1>25, <1>26, <1>27, <1>28, <1>29, <1>30 DEF OwnStep, CallStep

LEMMA CallersAreAlone ==
  ASSUME CallShape, Custody, NEW p \in Callers, OwnStep(p)
  PROVE  Alone(p)
<1>1. CustodyOf(p)
  BY DEF Custody
<1> QED
  BY <1>1, CallersMindTheirOwn, CallersReleaseTheirOwn DEF Alone

LEMMA CallerFields ==
  {"at", "ask", "cause", "yielded", "result", "stage", "contract", "named", "seen", "todo", "victim"} \subseteq CallFields
BY DEF CallFields

(* Taking a candidate touches the sweep's own fields only.                   *)
LEMMA CandidateTaken ==
  ASSUME CallShape, NEW p \in Callers, TakeCandidate(p)
  PROVE  /\ call[p].at = "retiring" /\ call'[p].at \in {"retiring", "guarding", "ended"}
         /\ \A f \in CallFields \ {"at", "todo", "victim"} : call'[p][f] = call[p][f]
<1>1. CASE Goto(p, "ended")
  BY <1>1, CallerFields DEF CallShape, TakeCandidate, Goto
<1>2. ASSUME NEW a \in call[p].todo,
             call' = [call EXCEPT ![p].at = "guarding", ![p].todo = @ \ {a}, ![p].victim = a]
      PROVE  call'[p].at = "guarding" /\ \A f \in CallFields \ {"at", "todo", "victim"} : call'[p][f] = call[p][f]
  BY <1>2, CallerFields DEF CallShape
<1>3. ASSUME NEW a \in call[p].todo, call' = [call EXCEPT ![p].todo = @ \ {a}]
      PROVE  call'[p].at = call[p].at /\ \A f \in CallFields \ {"at", "todo", "victim"} : call'[p][f] = call[p][f]
  BY <1>3, CallerFields DEF CallShape
<1> QED
  BY <1>1, <1>2, <1>3 DEF TakeCandidate

(* What a caller has asked never changes, and every other thing it knows     *)
(* changes at a few places only.                                            *)
Told(p) ==
    /\ call'[p].ask = call[p].ask
    /\ call[p].at \notin {"sealing", "closing"} => call'[p].yielded = call[p].yielded
    /\ call[p].at \notin {"judging", "answering"} => call'[p].result = call[p].result
    /\ call[p].at # "dispatching" => call'[p].contract = call[p].contract
    /\ call[p].at \notin {"dispatching", "seating", "reading back"} => call'[p].stage = call[p].stage
    /\ call[p].at \notin {"awaiting", "resting", "publishing"} => call'[p].cause = call[p].cause
    /\ call[p].at # "moving" => call'[p].named = call[p].named

(* A step of a caller's writes what its place calls for.                     *)
LEMMA CallersLearn ==
  ASSUME NEW p \in Callers, CallShape, OwnStep(p)
  PROVE  Told(p)
<1>1. CASE InitializeHeart(p)
  BY <1>1, CallerFields DEF CallShape, Told, InitializeHeart, Goto
<1>2. CASE InitializeLeash(p)
  BY <1>2, CallerFields DEF CallShape, Told, InitializeLeash, Goto
<1>3. CASE Launch(p)
  BY <1>3, CallerFields DEF CallShape, Told, Launch, Goto
<1>4. CASE SealLocal(p)
  BY <1>4, CallerFields DEF CallShape, Told, SealLocal, Grasp, Conclude
<1>5. CASE AwaitBirth(p)
  BY <1>5, CallerFields DEF CallShape, Told, AwaitBirth, Trouble, Goto
<1>6. CASE TimeOut(p)
  BY <1>6, CallerFields DEF CallShape, Told, TimeOut, Grasp, Conclude, Trouble
<1>7. CASE AwaitAsleep(p)
  BY <1>7, CallerFields DEF CallShape, Told, AwaitAsleep, Goto, Trouble
<1>8. CASE Settle(p)
  BY <1>8, CallerFields DEF CallShape, Told, Settle, Goto
<1>9. CASE CloseBirth(p)
  BY <1>9, CallerFields DEF CallShape, Told, CloseBirth, Grasp, Conclude
<1>10. CASE Judge(p)
  BY <1>10, CallerFields DEF CallShape, Told, Judge
<1>11. CASE FirstTell(p)
  BY <1>11, CallerFields DEF CallShape, Told, FirstTell, Goto
<1>12. CASE FirstWake(p)
  BY <1>12, CallerFields DEF CallShape, Told, FirstWake, Goto
<1>13. CASE Watch(p)
  BY <1>13, CallerFields DEF CallShape, Told, Watch
<1>14. CASE Associate(p)
  BY <1>14, CallerFields DEF CallShape, Told, Associate
<1>15. CASE TakeSeat(p)
  BY <1>15, CallerFields DEF CallShape, Told, TakeSeat
<1>16. CASE Publish(p)
  BY <1>16, CallerFields DEF CallShape, Told, Publish, Goto
<1>17. CASE ReadBack(p)
  <2>1. /\ call[p].at = "reading back"
        /\ \A f \in CallFields \ {"at", "seen", "stage"} : call'[p][f] = call[p][f]
    BY <1>17, CallerFields DEF CallShape, ReadBack
  <2> QED
    BY <2>1, CallerFields DEF Told
<1>18. CASE TakeAliases(p)
  BY <1>18, CallerFields DEF CallShape, Told, TakeAliases, Goto
<1>19. CASE MoveAlias(p)
  BY <1>19, CallerFields DEF CallShape, Told, MoveAlias
<1>20. CASE Answer(p)
  BY <1>20, CallerFields DEF CallShape, Told, Answer
<1>21. CASE LookForIdle(p)
  BY <1>21, CallerFields DEF CallShape, Told, LookForIdle
<1>22. CASE TakeCandidate(p)
  BY <1>22, CandidateTaken, CallerFields DEF Told
<1>23. CASE GuardNames(p)
  BY <1>23, CallerFields DEF CallShape, Told, GuardNames, Goto, LetGo
<1>24. CASE GuardDispatch(p)
  BY <1>24, CallerFields DEF CallShape, Told, GuardDispatch, Goto, LetGo
<1>25. CASE LastLook(p)
  BY <1>25, CallerFields DEF CallShape, Told, LastLook, Goto, LetGo
<1>26. CASE RemoveLeash(p)
  BY <1>26, CallerFields DEF CallShape, Told, RemoveLeash, Goto, LetGo
<1>27. CASE RemoveHeart(p)
  BY <1>27, CallerFields DEF CallShape, Told, RemoveHeart, Goto, LetGo
<1>28. CASE Allocate(p)
  BY <1>28, CallerFields DEF CallShape, Told, Allocate, Goto
<1>29. CASE Abort(p)
  BY <1>29, CallerFields DEF CallShape, Told, Abort
<1>30. CASE Die(p)
  BY <1>30, CallerFields DEF CallShape, Told, Die
<1> QED
  BY <1>1, <1>2, <1>3, <1>4, <1>5, <1>6, <1>7, <1>8, <1>9, <1>10, <1>11, <1>12, <1>13, <1>14, <1>15, <1>16, <1>17,
     <1>18, <1>19, <1>20, <1>21, <1>22, <1>23, <1>24, <1>25, <1>26, <1>27, <1>28, <1>29, <1>30 DEF OwnStep, CallStep

(* Whoever takes a lock keeps it until its own step lets go.                 *)
LEMMA OwnCustody ==
  ASSUME NEW p \in Callers, CallShape, CustodyOf(p), OwnStep(p)
  PROVE  CustodyOf(p)'
<1>1. CASE InitializeHeart(p)
  BY <1>1, CallerLocks DEF CallShape, CustodyOf, Retiring, Guards, Seats, InitializeHeart, Goto
<1>2. CASE InitializeLeash(p)
  BY <1>2, CallerLocks DEF CallShape, CustodyOf, Retiring, Guards, Seats, InitializeLeash, Goto
<1>3. CASE Launch(p)
  BY <1>3, CallerLocks DEF CallShape, CustodyOf, Retiring, Guards, Seats, Launch, Goto
<1>4. CASE SealLocal(p)
  <2>1. call[p].at = "sealing" /\ call'[p].at \in {"sealing", "judging"} /\ call'[p].victim = call[p].victim
    BY <1>4, CallerLocks DEF CallShape, SealLocal, Grasp, Conclude, Take
  <2> QED
    BY <2>1 DEF CustodyOf, Retiring, Guards, Seats
<1>5. CASE AwaitBirth(p)
  <2>1. call[p].at = "awaiting" /\ call'[p].at \in {"resting", "born", "settling"} /\ call'[p].victim = call[p].victim
    BY <1>5, CallerLocks DEF CallShape, AwaitBirth, Trouble, Goto, Confirmed
  <2> QED
    BY <2>1 DEF CustodyOf, Retiring, Guards, Seats
<1>6. CASE TimeOut(p)
  <2>1. call[p].at = "awaiting" /\ call'[p].at \in {"awaiting", "resting", "born", "settling"} /\ call'[p].victim = call[p].victim
    BY <1>6, CallerLocks DEF CallShape, TimeOut, Grasp, Conclude, Take, Trouble, Confirmed
  <2> QED
    BY <2>1 DEF CustodyOf, Retiring, Guards, Seats
<1>7. CASE AwaitAsleep(p)
  <2>1. call[p].at = "resting" /\ call'[p].at \in {"born", "settling"} /\ call'[p].victim = call[p].victim
    BY <1>7, CallerFields DEF CallShape, AwaitAsleep, Goto, Trouble
  <2>2. holder' = holder
    BY <1>7 DEF AwaitAsleep
  <2> QED
    BY <2>1, <2>2 DEF CustodyOf, Retiring, Guards, Seats
<1>8. CASE Settle(p)
  <2>1. call[p].at = "settling" /\ call'[p].at \in {"born", "judging", "closing"} /\ call'[p].victim = call[p].victim
    BY <1>8, CallerLocks DEF CallShape, Settle, Goto, Outcome
  <2> QED
    BY <2>1 DEF CustodyOf, Retiring, Guards, Seats
<1>9. CASE CloseBirth(p)
  <2>1. call[p].at = "closing" /\ call'[p].at \in {"closing", "born", "judging"} /\ call'[p].victim = call[p].victim
    BY <1>9, CallerLocks DEF CallShape, CloseBirth, Grasp, Conclude, Take, Outcome
  <2> QED
    BY <2>1 DEF CustodyOf, Retiring, Guards, Seats
<1>10. CASE Judge(p)
  BY <1>10, CallerLocks DEF CallShape, CustodyOf, Retiring, Guards, Seats, Judge
<1>11. CASE FirstTell(p)
  <2>1. call[p].at = "born" /\ call'[p].at \in {"dispatching", "waking"} /\ call'[p].victim = call[p].victim
    BY <1>11, CallerLocks DEF CallShape, FirstTell, Goto
  <2> QED
    BY <2>1 DEF CustodyOf, Retiring, Guards, Seats
<1>12. CASE FirstWake(p)
  <2>1. call[p].at = "waking" /\ call'[p].at \in {"watching", "dispatching"} /\ call'[p].victim = call[p].victim
    BY <1>12, CallerLocks DEF CallShape, FirstWake, Goto
  <2> QED
    BY <2>1 DEF CustodyOf, Retiring, Guards, Seats
<1>13. CASE Watch(p)
  <2>1. call[p].at = "watching" /\ call'[p].at \in {"dispatching"} /\ call'[p].victim = call[p].victim
    BY <1>13, CallerLocks DEF CallShape, Watch
  <2> QED
    BY <2>1 DEF CustodyOf, Retiring, Guards, Seats
<1>14. CASE Associate(p)
  <2>1. /\ call[p].at = "dispatching" /\ call'[p].at \in {"naming", "seating"} /\ call'[p].victim = call[p].victim
        /\ holder' = holder
    BY <1>14, CallerFields DEF CallShape, Associate
  <2> QED
    BY <2>1 DEF CustodyOf, Retiring, Guards, Seats
<1>15. CASE TakeSeat(p)
  <2>1. call[p].at = "seating" /\ call'[p].at \in {"publishing", "naming"} /\ call'[p].victim = call[p].victim
    BY <1>15, CallerLocks DEF CallShape, TakeSeat
  <2>2. call'[p].at = "publishing" => holder'["seat"] = p
    BY <1>15, CallerLocks DEF CallShape, TakeSeat, Take, Locks
  <2> QED
    BY <2>1, <2>2 DEF CustodyOf, Retiring, Guards, Seats
<1>16. CASE Publish(p)
  BY <1>16, CallerLocks DEF CallShape, CustodyOf, Retiring, Guards, Seats, Publish, Goto
<1>17. CASE ReadBack(p)
  <2>1. call[p].at = "reading back" /\ call'[p].at = "naming" /\ call'[p].victim = call[p].victim
    BY <1>17, CallerFields DEF CallShape, ReadBack
  <2> QED
    BY <2>1 DEF CustodyOf, Retiring, Guards, Seats
<1>18. CASE TakeAliases(p)
  <2>1. call[p].at = "naming" /\ call'[p].at \in {"moving", "answering"} /\ call'[p].victim = call[p].victim
    BY <1>18, CallerLocks DEF CallShape, TakeAliases, Goto
  <2>2. call'[p].at = "moving" => holder'["alias"] = p
    BY <1>18, CallerLocks DEF CallShape, TakeAliases, Take, Goto, Locks
  <2> QED
    BY <2>1, <2>2 DEF CustodyOf, Retiring, Guards, Seats
<1>19. CASE MoveAlias(p)
  <2>1. call[p].at = "moving" /\ call'[p].at = "answering" /\ call'[p].victim = call[p].victim
    BY <1>19, CallerLocks DEF CallShape, MoveAlias
  <2> QED
    BY <2>1 DEF CustodyOf, Retiring, Guards, Seats
<1>20. CASE Answer(p)
  <2>1. call[p].at = "answering" /\ call'[p].at \in {"sweeping", "ended"} /\ call'[p].victim = call[p].victim
    BY <1>20, CallerLocks DEF CallShape, Answer
  <2> QED
    BY <2>1 DEF CustodyOf, Retiring, Guards, Seats
<1>21. CASE LookForIdle(p)
  BY <1>21, CallerLocks DEF CallShape, CustodyOf, Retiring, Guards, Seats, LookForIdle
<1>22. CASE TakeCandidate(p)
  <2> USE <1>22
  <2>1. call[p].at = "retiring" /\ call[p].victim = None /\ call[p].todo \subseteq Akumas
    BY DEF TakeCandidate, CustodyOf, Retiring
  <2>2. CASE Goto(p, "ended")
    <3>1. call'[p].at = "ended" /\ call'[p].victim = call[p].victim
      BY <2>2, CallerLocks DEF CallShape, Goto
    <3> QED
      BY <2>1, <3>1 DEF CustodyOf, Retiring, Guards, Seats
  <2>3. ASSUME NEW a \in call[p].todo, Take(a, p),
               call' = [call EXCEPT ![p].at = "guarding", ![p].todo = call[p].todo \ {a}, ![p].victim = a]
        PROVE  CustodyOf(p)'
    <3>1. call'[p].at = "guarding" /\ call'[p].todo = call[p].todo \ {a} /\ call'[p].victim = a
      BY <2>3, CallerLocks DEF CallShape
    <3>2. a \in Akumas /\ holder'[a] = p
      BY <2>1, <2>3, CallerLocks DEF CallShape, Take
    <3> QED
      BY <2>1, <3>1, <3>2 DEF CustodyOf, Retiring, Guards, Seats
  <2>4. ASSUME NEW a \in call[p].todo, call' = [call EXCEPT ![p].todo = call[p].todo \ {a}] PROVE CustodyOf(p)'
    <3>1. call'[p].at = "retiring" /\ call'[p].todo = call[p].todo \ {a} /\ call'[p].victim = None
      BY <2>1, <2>4, CallerLocks DEF CallShape
    <3> QED
      BY <2>1, <3>1 DEF CustodyOf, Retiring, Guards, Seats
  <2> QED
    BY <2>2, <2>3, <2>4 DEF TakeCandidate
<1>23. CASE GuardNames(p)
  <2>1. CASE Take("alias", p) /\ Goto(p, "guarded")
    <3>1. /\ call[p].at = "guarding" /\ call'[p].at = "guarded"
          /\ call'[p].victim = call[p].victim /\ call'[p].todo = call[p].todo
      BY <1>23, <2>1, CallerLocks DEF CallShape, GuardNames, Goto
    <3>2. holder'["alias"] = p /\ \A l \in Locks : holder[l] = p => holder'[l] = p
      BY <2>1, CallerLocks DEF CallShape, Take, Locks
    <3>3. call[p].victim \in Locks /\ holder[call[p].victim] = p
      BY <3>1, CallerLocks DEF CustodyOf, Retiring
    <3>4. "alias" \in Locks /\ "seat" \in Locks
      BY DEF Locks
    <3> QED
      BY <3>1, <3>2, <3>3, <3>4 DEF CustodyOf, Retiring, Guards, Seats
  <2>2. CASE LetGo(p)
    <3>1. call'[p].at = "retiring" /\ call'[p].victim = None /\ call'[p].todo = call[p].todo
      BY <2>2, CallerLocks DEF CallShape, LetGo
    <3> QED
      BY <1>23, <3>1 DEF GuardNames, CustodyOf, Retiring, Guards, Seats
  <2> QED
    BY <1>23, <2>1, <2>2 DEF GuardNames
<1>24. CASE GuardDispatch(p)
  <2>1. CASE Take("seat", p) /\ Goto(p, "judged")
    <3>1. /\ call[p].at = "guarded" /\ call'[p].at = "judged"
          /\ call'[p].victim = call[p].victim /\ call'[p].todo = call[p].todo
      BY <1>24, <2>1, CallerLocks DEF CallShape, GuardDispatch, Goto
    <3>2. holder'["seat"] = p /\ \A l \in Locks : holder[l] = p => holder'[l] = p
      BY <2>1, CallerLocks DEF CallShape, Take, Locks
    <3>3. call[p].victim \in Locks /\ holder[call[p].victim] = p
      BY <3>1, CallerLocks DEF CustodyOf, Retiring
    <3>4. "alias" \in Locks /\ "seat" \in Locks
      BY DEF Locks
    <3> QED
      BY <3>1, <3>2, <3>3, <3>4 DEF CustodyOf, Retiring, Guards, Seats
  <2>2. CASE LetGo(p)
    <3>1. call'[p].at = "retiring" /\ call'[p].victim = None /\ call'[p].todo = call[p].todo
      BY <2>2, CallerLocks DEF CallShape, LetGo
    <3> QED
      BY <1>24, <3>1 DEF GuardDispatch, CustodyOf, Retiring, Guards, Seats
  <2> QED
    BY <1>24, <2>1, <2>2 DEF GuardDispatch
<1>25. CASE LastLook(p)
  <2>1. CASE Goto(p, "removing") /\ UNCHANGED holder
    <3>1. /\ call[p].at = "judged" /\ call'[p].at = "removing"
          /\ call'[p].victim = call[p].victim /\ call'[p].todo = call[p].todo
      BY <1>25, <2>1, CallerLocks DEF CallShape, LastLook, Goto
    <3> QED
      BY <2>1, <3>1 DEF CustodyOf, Retiring, Guards, Seats
  <2>2. CASE LetGo(p)
    <3>1. call'[p].at = "retiring" /\ call'[p].victim = None /\ call'[p].todo = call[p].todo
      BY <2>2, CallerLocks DEF CallShape, LetGo
    <3> QED
      BY <1>25, <3>1 DEF LastLook, CustodyOf, Retiring, Guards, Seats
  <2> QED
    BY <1>25, <2>1, <2>2 DEF LastLook
<1>26. CASE RemoveLeash(p)
  BY <1>26, CallerLocks DEF CallShape, CustodyOf, Retiring, Guards, Seats, RemoveLeash, Goto, LetGo
<1>27. CASE RemoveHeart(p)
  BY <1>27, CallerLocks DEF CallShape, CustodyOf, Retiring, Guards, Seats, RemoveHeart, Goto, LetGo
<1>28. CASE Allocate(p)
  BY <1>28, CallerLocks DEF CallShape, CustodyOf, Retiring, Guards, Seats, Allocate, Goto
<1>29. CASE Abort(p)
  BY <1>29, CallerLocks DEF CallShape, CustodyOf, Retiring, Guards, Seats, Abort
<1>30. CASE Die(p)
  BY <1>30, CallerLocks DEF CallShape, CustodyOf, Retiring, Guards, Seats, Die, HostAt
<1> QED
  BY <1>1, <1>2, <1>3, <1>4, <1>5, <1>6, <1>7, <1>8, <1>9, <1>10, <1>11, <1>12, <1>13, <1>14, <1>15, <1>16, <1>17,
     <1>18, <1>19, <1>20, <1>21, <1>22, <1>23, <1>24, <1>25, <1>26, <1>27, <1>28, <1>29, <1>30 DEF OwnStep, CallStep

(* So every caller has the locks of the place where it stands.               *)
LEMMA CustodyKept == CallShape /\ Custody /\ [Next]_vars => Custody'
<1> SUFFICES ASSUME CallShape, Custody, [Next]_vars PROVE Custody'
  OBVIOUS
<1>1. ASSUME NEW q \in Callers, call'[q] = call[q], \A l \in Locks : holder[l] = q => holder'[l] = q
      PROVE  CustodyOf(q)'
  <2>1. CustodyOf(q) /\ "seat" \in Locks /\ "alias" \in Locks /\ Akumas \subseteq Locks
    BY DEF Custody, Locks
  <2> QED
    BY <1>1, <2>1 DEF CustodyOf
<1>2. ASSUME NEW p \in Callers, OwnStep(p) PROVE Custody'
  <2>1. Alone(p)
    BY <1>2, CallersAreAlone
  <2>2. CustodyOf(p)'
    BY <1>2, OwnCustody DEF Custody
  <2>3. \A q \in Callers : CustodyOf(q)'
    BY <1>1, <2>1, <2>2 DEF Alone
  <2> QED
    BY <2>1, <2>3 DEF Custody, Alone
<1>3. ASSUME Calm PROVE Custody'
  BY <1>1, <1>3 DEF Calm, Custody
<1>4. CASE UNCHANGED vars
  BY <1>3, <1>4 DEF vars, Calm
<1> QED
  BY <1>2, <1>3, <1>4, StepKinds, WorldIsCalm

(* A host is seated with the leash and gives up both at once; whoever else   *)
(* changes an entry's place has the leash or is its maker before the launch. *)
LEMMA HostsKept == Shape /\ Hosts /\ Launches /\ Custody /\ Verdicts /\ [Next]_vars => Hosts'
<1> SUFFICES ASSUME Shape, Hosts, Launches, Custody, Verdicts, [Next]_vars PROVE Hosts'
  OBVIOUS
<1>1. ASSUME NEW a \in Akumas, HostStep(a) PROVE Hosts'
  <2>1. CASE HostTakes(a)
    BY <2>1, CallerLocks, CallsAssumption DEF Shape, CallShape, EntryFields, HostFields, Hosts, Seated, Akumas,
       Locks, HostTakes, Take, Takable, Taken, HostAt, Leave
  <2>2. CASE HostLooks(a)
    BY <2>2, CallerLocks, CallsAssumption DEF Shape, CallShape, EntryFields, HostFields, Hosts, Seated, Akumas,
       Locks, HostLooks, HostAt, Leave
  <2>3. CASE HostBears(a)
    BY <2>3, CallerLocks, CallsAssumption DEF Shape, CallShape, EntryFields, HostFields, Hosts, Seated, Akumas,
       Locks, HostBears, HostAt
  <2>4. CASE HostWakes(a)
    BY <2>4, CallerLocks, CallsAssumption DEF Shape, CallShape, EntryFields, HostFields, Hosts, Seated, Akumas,
       Locks, HostWakes, HostAt, Leave
  <2>5. CASE HostRecords(a)
    BY <2>5, CallerLocks, CallsAssumption DEF Shape, CallShape, EntryFields, HostFields, Hosts, Seated, Akumas,
       Locks, HostRecords, HostAt
  <2>6. CASE HostDrives(a)
    BY <2>6, CallerLocks, CallsAssumption DEF Shape, CallShape, EntryFields, HostFields, Hosts, Seated, Akumas,
       Locks, HostDrives, HostAt, Spend
  <2>7. CASE HostReleases(a)
    BY <2>7, CallerLocks, CallsAssumption DEF Shape, CallShape, EntryFields, HostFields, Hosts, Seated, Akumas,
       Locks, HostReleases, HostAt, Leave
  <2>8. CASE HostFails(a)
    BY <2>8, CallerLocks, CallsAssumption DEF Shape, CallShape, EntryFields, HostFields, Hosts, Seated, Akumas,
       Locks, HostFails, HostAt, Spend
  <2>9. CASE HostSeals(a)
    BY <2>9, CallerLocks, CallsAssumption DEF Shape, CallShape, EntryFields, HostFields, Hosts, Seated, Akumas,
       Locks, HostSeals, HostAt, Leave, Sealed, Undecided
  <2> QED
    BY <1>1, <2>1, <2>2, <2>3, <2>4, <2>5, <2>6, <2>7, <2>8, <2>9 DEF HostStep
<1>2. ASSUME NEW p \in Callers, CallStep(p) PROVE Hosts'
  <2>1. CASE InitializeHeart(p)
    BY <2>1, CallerLocks, CallsAssumption DEF Shape, CallShape, EntryFields, HostFields, Hosts, Seated, Akumas,
       Locks, Launches, BeforeLaunch, InitializeHeart, Goto
  <2>2. CASE InitializeLeash(p)
    BY <2>2, CallerLocks, CallsAssumption DEF Shape, CallShape, EntryFields, HostFields, Hosts, Seated, Akumas,
       Locks, Launches, BeforeLaunch, InitializeLeash, Goto, Spend
  <2>3. CASE Launch(p)
    BY <2>3, CallerLocks, CallsAssumption DEF Shape, CallShape, EntryFields, HostFields, Hosts, Seated, Akumas,
       Locks, Launches, BeforeLaunch, Launch, Goto, Spend
  <2>4. CASE SealLocal(p)
    BY <2>4, CallerLocks, CallsAssumption DEF Shape, CallShape, EntryFields, HostFields, Hosts, Seated, Akumas,
       Locks, SealLocal, Grasp, Conclude, Beaten, Takable, Take, Undecided, Sealed
  <2>5. CASE AwaitBirth(p)
    BY <2>5, CallerLocks, CallsAssumption DEF Shape, CallShape, EntryFields, HostFields, Hosts, Seated, Akumas,
       Locks, AwaitBirth, Trouble, Goto, Confirmed, Fork, Takable, Over
  <2>6. CASE TimeOut(p)
    BY <2>6, CallerLocks, CallsAssumption DEF Shape, CallShape, EntryFields, HostFields, Hosts, Seated, Akumas,
       Locks, TimeOut, Grasp, Conclude, Beaten, Takable, Take, Undecided, Sealed, Trouble, Confirmed, Fork, Over
  <2>7. CASE AwaitAsleep(p)
    BY <2>7, CallerLocks, CallsAssumption DEF Shape, CallShape, EntryFields, HostFields, Hosts, Seated, Akumas,
       Locks, AwaitAsleep, Goto, Trouble, Takable
  <2>8. CASE Settle(p)
    BY <2>8, CallerLocks, CallsAssumption DEF Shape, CallShape, EntryFields, HostFields, Hosts, Seated, Akumas,
       Locks, Settle, Goto, Outcome, Over, Takable
  <2>9. CASE CloseBirth(p)
    BY <2>9, CallerLocks, CallsAssumption DEF Shape, CallShape, EntryFields, HostFields, Hosts, Seated, Akumas,
       Locks, CloseBirth, Grasp, Conclude, Beaten, Takable, Take, Undecided, Sealed, Outcome
  <2>10. CASE Judge(p)
    BY <2>10, CallerLocks, CallsAssumption DEF Shape, CallShape, EntryFields, HostFields, Hosts, Seated, Akumas,
       Locks, Judge, Fork
  <2>11. CASE FirstTell(p)
    <3>1. entry[p].soul /\ host' = host /\ holder' = holder /\ p \in Akumas
      BY <2>11 DEF FirstTell, Verdicts, VerdictOf, BornAt, Akumas
    <3>2. \A b \in Akumas : entry'[b].place = entry[b].place /\ entry'[b].soul = entry[b].soul
      BY <2>11 DEF Shape, EntryFields, FirstTell
    <3>3. \A b \in Akumas : entry'[b].pending => entry[b].pending \/ b = p
      BY <2>11 DEF Shape, EntryFields, FirstTell
    <3> QED
      BY <3>1, <3>2, <3>3 DEF Hosts
  <2>12. CASE FirstWake(p)
    BY <2>12, CallerLocks, CallsAssumption DEF Shape, CallShape, EntryFields, HostFields, Hosts, Seated, Akumas,
       Locks, FirstWake, Goto, Wake, Quiet
  <2>13. CASE Watch(p)
    BY <2>13, CallerLocks, CallsAssumption DEF Shape, CallShape, EntryFields, HostFields, Hosts, Seated, Akumas,
       Locks, Watch, Quiet
  <2>14. CASE Associate(p)
    BY <2>14, CallerLocks, CallsAssumption DEF Shape, CallShape, EntryFields, HostFields, Hosts, Seated, Akumas,
       Locks, Associate, Fork
  <2>15. CASE TakeSeat(p)
    BY <2>15, CallerLocks, CallsAssumption DEF Shape, CallShape, EntryFields, HostFields, Hosts, Seated, Akumas,
       Locks, TakeSeat, Take
  <2>16. CASE Publish(p)
    BY <2>16, CallerLocks, CallsAssumption DEF Shape, CallShape, EntryFields, HostFields, Hosts, Seated, Akumas,
       Locks, Publish, Commit, Goto, Spend
  <2>17. CASE ReadBack(p)
    BY <2>17, CallerLocks, CallsAssumption DEF Shape, CallShape, EntryFields, HostFields, Hosts, Seated, Akumas,
       Locks, ReadBack
  <2>18. CASE TakeAliases(p)
    BY <2>18, CallerLocks, CallsAssumption DEF Shape, CallShape, EntryFields, HostFields, Hosts, Seated, Akumas,
       Locks, TakeAliases, Wanted, Fork, Take, Goto
  <2>19. CASE MoveAlias(p)
    BY <2>19, CallerLocks, CallsAssumption DEF Shape, CallShape, EntryFields, HostFields, Hosts, Seated, Akumas,
       Locks, MoveAlias, Spend
  <2>20. CASE Answer(p)
    BY <2>20, CallerLocks, CallsAssumption DEF Shape, CallShape, EntryFields, HostFields, Hosts, Seated, Akumas,
       Locks, Answer
  <2>21. CASE LookForIdle(p)
    BY <2>21, CallerLocks, CallsAssumption DEF Shape, CallShape, EntryFields, HostFields, Hosts, Seated, Akumas,
       Locks, LookForIdle, Takable, Eligible, Stopped, Settled, Unnamed, Detached
  <2>22. CASE TakeCandidate(p)
    <3>1. entry' = entry /\ host' = host
      BY <2>22 DEF TakeCandidate
    <3>2. \A b \in Akumas : holder'[b] = "host" <=> holder[b] = "host"
      BY <2>22, CallerLocks DEF Shape, CallShape, TakeCandidate, Take
    <3> QED
      BY <3>1, <3>2 DEF Hosts
  <2>23. CASE GuardNames(p)
    BY <2>23, CallerLocks, CallsAssumption DEF Shape, CallShape, EntryFields, HostFields, Hosts, Seated, Akumas,
       Locks, GuardNames, Take, Goto, LetGo, Unnamed
  <2>24. CASE GuardDispatch(p)
    BY <2>24, CallerLocks, CallsAssumption DEF Shape, CallShape, EntryFields, HostFields, Hosts, Seated, Akumas,
       Locks, GuardDispatch, Take, Goto, LetGo, Detached
  <2>25. CASE LastLook(p)
    BY <2>25, CallerLocks, CallsAssumption DEF Shape, CallShape, EntryFields, HostFields, Hosts, Seated, Akumas,
       Locks, LastLook, Goto, LetGo, Eligible, Stopped, Settled
  <2>26. CASE RemoveLeash(p)
    <3>1. call[p].victim \in Akumas /\ holder[call[p].victim] # "host" /\ host' = host
      BY <2>26, CallerLocks DEF RemoveLeash, Custody, CustodyOf, Retiring
    <3>2. \A b \in Akumas : /\ entry'[b].soul = entry[b].soul /\ entry'[b].pending = entry[b].pending
                            /\ b # call[p].victim => entry'[b].place = entry[b].place
      BY <2>26 DEF Shape, EntryFields, RemoveLeash
    <3>3. \A b \in Akumas : holder'[b] = "host" <=> holder[b] = "host"
      BY <2>26, CallerLocks DEF Shape, CallShape, RemoveLeash
    <3> QED
      BY <3>1, <3>2, <3>3 DEF Hosts
  <2>27. CASE RemoveHeart(p)
    <3>1. call[p].victim \in Akumas /\ holder[call[p].victim] # "host" /\ host' = host
      BY <2>27, CallerLocks DEF RemoveHeart, Custody, CustodyOf, Retiring
    <3>2. \A b \in Akumas : /\ entry'[b].soul = entry[b].soul /\ entry'[b].pending = entry[b].pending
                            /\ b # call[p].victim => entry'[b].place = entry[b].place
      BY <2>27 DEF Shape, EntryFields, RemoveHeart
    <3>3. \A b \in Akumas : holder'[b] = "host" <=> holder[b] = "host"
      BY <2>27, CallerLocks DEF LetGo, Shape, CallShape, RemoveHeart
    <3> QED
      BY <3>1, <3>2, <3>3 DEF Hosts
  <2> QED
    BY <1>2, <2>1, <2>2, <2>3, <2>4, <2>5, <2>6, <2>7, <2>8, <2>9, <2>10, <2>11, <2>12, <2>13, <2>14, <2>15, <2>16,
       <2>17, <2>18, <2>19, <2>20, <2>21, <2>22, <2>23, <2>24, <2>25, <2>26, <2>27 DEF CallStep
<1>3. CASE World
  <2>1. ASSUME NEW p \in Callers, Allocate(p) PROVE Hosts'
    BY <2>1, CallerLocks, CallsAssumption DEF Shape, CallShape, EntryFields, HostFields, Hosts, Seated, Akumas,
       Locks, Launches, BeforeLaunch, Allocate, Goto
  <2>2. ASSUME NEW p \in Callers, Abort(p) PROVE Hosts'
    BY <2>2, CallerLocks, CallsAssumption DEF Shape, CallShape, EntryFields, HostFields, Hosts, Seated, Akumas,
       Locks, Abort, Spend, Live, Fork
  <2>3. ASSUME NEW p \in Callers, Die(p) PROVE Hosts'
    BY <2>3, CallerLocks, CallsAssumption DEF Shape, CallShape, EntryFields, HostFields, Hosts, Seated, Akumas,
       Locks, Die, Spend, Live, Quiet, HostAt
  <2>4. ASSUME NEW o \in orphans, OrphanEnds(o) PROVE Hosts'
    BY <2>4, CallerLocks, CallsAssumption DEF Shape, CallShape, EntryFields, HostFields, Hosts, Seated, Akumas,
       Locks, OrphanEnds, Commit
  <2>5. ASSUME NEW a \in Akumas, HostDies(a) PROVE Hosts'
    BY <2>5, CallerLocks, CallsAssumption DEF Shape, CallShape, EntryFields, HostFields, Hosts, Seated, Akumas,
       Locks, HostDies, Quiet, Spend, Leave, HostAt
  <2>6. ASSUME NEW a \in Akumas, Peek(a) PROVE Hosts'
    BY <2>6, CallerLocks, CallsAssumption DEF Shape, CallShape, EntryFields, HostFields, Hosts, Seated, Akumas,
       Locks, Peek, Takable, Spend
  <2>7. ASSUME NEW a \in Akumas, RecordTell(a) PROVE Hosts'
    BY <2>7, CallerLocks, CallsAssumption DEF Shape, CallShape, EntryFields, HostFields, Hosts, Seated, Akumas,
       Locks, RecordTell, Spend
  <2>8. ASSUME NEW a \in Akumas, WakeTold(a) PROVE Hosts'
    BY <2>8, CallerLocks, CallsAssumption DEF Shape, CallShape, EntryFields, HostFields, Hosts, Seated, Akumas,
       Locks, WakeTold, Wake, Quiet, Spend
  <2>9. ASSUME NEW a \in Akumas, GrowOld(a) PROVE Hosts'
    BY <2>9, CallerLocks, CallsAssumption DEF Shape, CallShape, EntryFields, HostFields, Hosts, Seated, Akumas,
       Locks, GrowOld, Stopped, Settled, Quiet
  <2>10. ASSUME NEW c \in Contracts, EndContract(c) PROVE Hosts'
    BY <2>10, CallerLocks, CallsAssumption DEF Shape, CallShape, EntryFields, HostFields, Hosts, Seated, Akumas,
       Locks, EndContract, Spend
  <2> QED
    BY <1>3, <2>1, <2>2, <2>3, <2>4, <2>5, <2>6, <2>7, <2>8, <2>9, <2>10 DEF World
<1>4. ASSUME NEW a \in Akumas, Unpeek(a) PROVE Hosts'
  BY <1>4, CallerLocks, CallsAssumption DEF Shape, CallShape, EntryFields, HostFields, Hosts, Seated, Akumas,
     Locks, Unpeek
<1>5. CASE UNCHANGED vars
  BY <1>5, CallerLocks, CallsAssumption DEF Shape, CallShape, EntryFields, HostFields, Hosts, Seated, Akumas,
     Locks, vars, git
<1> QED
  BY <1>1, <1>2, <1>3, <1>4, <1>5 DEF Next

(* Whatever runs before the launch is somebody's wake, and needs a Soul.       *)
LEMMA LaunchesKept == Shape /\ Launches /\ [Next]_vars => Launches'
<1> SUFFICES ASSUME Shape, Launches, [Next]_vars PROVE Launches'
  OBVIOUS
<1>1. ASSUME NEW a \in Akumas, HostStep(a) PROVE Launches'
  <2>1. CASE HostTakes(a)
    BY <2>1, CallerLocks, CallsAssumption DEF Shape, CallShape, EntryFields, HostFields, Launches, BeforeLaunch,
       Akumas, HostTakes, Take, Takable, Taken, HostAt, Leave
  <2>2. CASE HostLooks(a)
    BY <2>2, CallerLocks, CallsAssumption DEF Shape, CallShape, EntryFields, HostFields, Launches, BeforeLaunch,
       Akumas, HostLooks, HostAt, Leave
  <2>3. CASE HostBears(a)
    BY <2>3, CallerLocks, CallsAssumption DEF Shape, CallShape, EntryFields, HostFields, Launches, BeforeLaunch,
       Akumas, HostBears, HostAt
  <2>4. CASE HostWakes(a)
    BY <2>4, CallerLocks, CallsAssumption DEF Shape, CallShape, EntryFields, HostFields, Launches, BeforeLaunch,
       Akumas, HostWakes, HostAt, Leave
  <2>5. CASE HostRecords(a)
    BY <2>5, CallerLocks, CallsAssumption DEF Shape, CallShape, EntryFields, HostFields, Launches, BeforeLaunch,
       Akumas, HostRecords, HostAt
  <2>6. CASE HostDrives(a)
    BY <2>6, CallerLocks, CallsAssumption DEF Shape, CallShape, EntryFields, HostFields, Launches, BeforeLaunch,
       Akumas, HostDrives, HostAt, Spend
  <2>7. CASE HostReleases(a)
    BY <2>7, CallerLocks, CallsAssumption DEF Shape, CallShape, EntryFields, HostFields, Launches, BeforeLaunch,
       Akumas, HostReleases, HostAt, Leave
  <2>8. CASE HostFails(a)
    BY <2>8, CallerLocks, CallsAssumption DEF Shape, CallShape, EntryFields, HostFields, Launches, BeforeLaunch,
       Akumas, HostFails, HostAt, Spend
  <2>9. CASE HostSeals(a)
    BY <2>9, CallerLocks, CallsAssumption DEF Shape, CallShape, EntryFields, HostFields, Launches, BeforeLaunch,
       Akumas, HostSeals, HostAt, Leave, Sealed, Undecided
  <2> QED
    BY <1>1, <2>1, <2>2, <2>3, <2>4, <2>5, <2>6, <2>7, <2>8, <2>9 DEF HostStep
<1>2. ASSUME NEW p \in Callers, CallStep(p) PROVE Launches'
  <2>1. CASE InitializeHeart(p)
    BY <2>1, CallerLocks, CallsAssumption DEF Shape, CallShape, EntryFields, HostFields, Launches, BeforeLaunch,
       Akumas, InitializeHeart, Goto
  <2>2. CASE InitializeLeash(p)
    BY <2>2, CallerLocks, CallsAssumption DEF Shape, CallShape, EntryFields, HostFields, Launches, BeforeLaunch,
       Akumas, InitializeLeash, Goto, Spend
  <2>3. CASE Launch(p)
    BY <2>3, CallerLocks, CallsAssumption DEF Shape, CallShape, EntryFields, HostFields, Launches, BeforeLaunch,
       Akumas, Launch, Goto, Spend
  <2>4. CASE SealLocal(p)
    BY <2>4, CallerLocks, CallsAssumption DEF Shape, CallShape, EntryFields, HostFields, Launches, BeforeLaunch,
       Akumas, SealLocal, Grasp, Conclude, Beaten, Takable, Take, Undecided, Sealed
  <2>5. CASE AwaitBirth(p)
    BY <2>5, CallerLocks, CallsAssumption DEF Shape, CallShape, EntryFields, HostFields, Launches, BeforeLaunch,
       Akumas, AwaitBirth, Trouble, Goto, Confirmed, Fork, Takable, Over
  <2>6. CASE TimeOut(p)
    BY <2>6, CallerLocks, CallsAssumption DEF Shape, CallShape, EntryFields, HostFields, Launches, BeforeLaunch,
       Akumas, TimeOut, Grasp, Conclude, Beaten, Takable, Take, Undecided, Sealed, Trouble, Confirmed, Fork, Over
  <2>7. CASE AwaitAsleep(p)
    BY <2>7, CallerLocks, CallsAssumption DEF Shape, CallShape, EntryFields, HostFields, Launches, BeforeLaunch,
       Akumas, AwaitAsleep, Goto, Trouble, Takable
  <2>8. CASE Settle(p)
    BY <2>8, CallerLocks, CallsAssumption DEF Shape, CallShape, EntryFields, HostFields, Launches, BeforeLaunch,
       Akumas, Settle, Goto, Outcome, Over, Takable
  <2>9. CASE CloseBirth(p)
    BY <2>9, CallerLocks, CallsAssumption DEF Shape, CallShape, EntryFields, HostFields, Launches, BeforeLaunch,
       Akumas, CloseBirth, Grasp, Conclude, Beaten, Takable, Take, Undecided, Sealed, Outcome
  <2>10. CASE Judge(p)
    BY <2>10, CallerLocks, CallsAssumption DEF Shape, CallShape, EntryFields, HostFields, Launches, BeforeLaunch,
       Akumas, Judge, Fork
  <2>11. CASE FirstTell(p)
    BY <2>11, CallerLocks, CallsAssumption DEF Shape, CallShape, EntryFields, HostFields, Launches, BeforeLaunch,
       Akumas, FirstTell, Goto, Takable, Taken
  <2>12. CASE FirstWake(p)
    BY <2>12, CallerLocks, CallsAssumption DEF Shape, CallShape, EntryFields, HostFields, Launches, BeforeLaunch,
       Akumas, FirstWake, Goto, Wake, Quiet
  <2>13. CASE Watch(p)
    BY <2>13, CallerLocks, CallsAssumption DEF Shape, CallShape, EntryFields, HostFields, Launches, BeforeLaunch,
       Akumas, Watch, Quiet
  <2>14. CASE Associate(p)
    BY <2>14, CallerLocks, CallsAssumption DEF Shape, CallShape, EntryFields, HostFields, Launches, BeforeLaunch,
       Akumas, Associate, Fork
  <2>15. CASE TakeSeat(p)
    BY <2>15, CallerLocks, CallsAssumption DEF Shape, CallShape, EntryFields, HostFields, Launches, BeforeLaunch,
       Akumas, TakeSeat, Take
  <2>16. CASE Publish(p)
    <3>1. \A q \in Callers : call'[q].at \in BeforeLaunch => call[q].at \in BeforeLaunch
      BY <2>16, CallerLocks DEF Shape, CallShape, BeforeLaunch, Publish, Goto
    <3>2. host' = host /\ \A q \in Callers : entry'[q].soul = entry[q].soul
      BY <2>16 DEF Shape, EntryFields, Akumas, Publish
    <3> QED
      BY <3>1, <3>2 DEF Launches
  <2>17. CASE ReadBack(p)
    <3>1. \A q \in Callers : call'[q].at \in BeforeLaunch => call[q].at \in BeforeLaunch
      <4>1. call'[p].at = "naming"
        BY <2>17, CallerFields DEF Shape, CallShape, ReadBack
      <4>2. \A q \in Callers \ {p} : call'[q] = call[q]
        BY <2>17 DEF Shape, CallShape, ReadBack
      <4> QED
        BY <4>1, <4>2 DEF BeforeLaunch
    <3>2. host' = host /\ entry' = entry
      BY <2>17 DEF ReadBack
    <3> QED
      BY <3>1, <3>2 DEF Launches
  <2>18. CASE TakeAliases(p)
    BY <2>18, CallerLocks, CallsAssumption DEF Shape, CallShape, EntryFields, HostFields, Launches, BeforeLaunch,
       Akumas, TakeAliases, Wanted, Fork, Take, Goto
  <2>19. CASE MoveAlias(p)
    BY <2>19, CallerLocks, CallsAssumption DEF Shape, CallShape, EntryFields, HostFields, Launches, BeforeLaunch,
       Akumas, MoveAlias, Spend
  <2>20. CASE Answer(p)
    BY <2>20, CallerLocks, CallsAssumption DEF Shape, CallShape, EntryFields, HostFields, Launches, BeforeLaunch,
       Akumas, Answer
  <2>21. CASE LookForIdle(p)
    BY <2>21, CallerLocks, CallsAssumption DEF Shape, CallShape, EntryFields, HostFields, Launches, BeforeLaunch,
       Akumas, LookForIdle, Takable, Eligible, Stopped, Settled, Unnamed, Detached
  <2>22. CASE TakeCandidate(p)
    <3>1. \A q \in Callers : call'[q].at \in BeforeLaunch => call[q].at \in BeforeLaunch
      BY <2>22, CandidateTaken, CallersMindTheirOwn DEF Shape, BeforeLaunch, OwnStep, CallStep
    <3>2. host' = host /\ \A q \in Callers : entry'[q].soul = entry[q].soul
      BY <2>22 DEF Shape, EntryFields, Akumas, TakeCandidate
    <3> QED
      BY <3>1, <3>2 DEF Launches
  <2>23. CASE GuardNames(p)
    BY <2>23, CallerLocks, CallsAssumption DEF Shape, CallShape, EntryFields, HostFields, Launches, BeforeLaunch,
       Akumas, GuardNames, Take, Goto, LetGo, Unnamed
  <2>24. CASE GuardDispatch(p)
    BY <2>24, CallerLocks, CallsAssumption DEF Shape, CallShape, EntryFields, HostFields, Launches, BeforeLaunch,
       Akumas, GuardDispatch, Take, Goto, LetGo, Detached
  <2>25. CASE LastLook(p)
    BY <2>25, CallerLocks, CallsAssumption DEF Shape, CallShape, EntryFields, HostFields, Launches, BeforeLaunch,
       Akumas, LastLook, Goto, LetGo, Eligible, Stopped, Settled
  <2>26. CASE RemoveLeash(p)
    <3>1. \A q \in Callers : call'[q].at \in BeforeLaunch => call[q].at \in BeforeLaunch
      BY <2>26, CallerLocks DEF Shape, CallShape, BeforeLaunch, RemoveLeash, Goto
    <3>2. host' = host /\ \A q \in Callers : entry'[q].soul = entry[q].soul
      BY <2>26 DEF Shape, EntryFields, Akumas, RemoveLeash
    <3> QED
      BY <3>1, <3>2 DEF Launches
  <2>27. CASE RemoveHeart(p)
    <3>1. \A q \in Callers : call'[q].at \in BeforeLaunch => call[q].at \in BeforeLaunch
      BY <2>27, CallerLocks DEF Shape, CallShape, BeforeLaunch, RemoveHeart, LetGo
    <3>2. host' = host /\ \A q \in Callers : entry'[q].soul = entry[q].soul
      BY <2>27 DEF Shape, EntryFields, Akumas, RemoveHeart
    <3> QED
      BY <3>1, <3>2 DEF Launches
  <2> QED
    BY <1>2, <2>1, <2>2, <2>3, <2>4, <2>5, <2>6, <2>7, <2>8, <2>9, <2>10, <2>11, <2>12, <2>13, <2>14, <2>15, <2>16,
       <2>17, <2>18, <2>19, <2>20, <2>21, <2>22, <2>23, <2>24, <2>25, <2>26, <2>27 DEF CallStep
<1>3. CASE World
  <2>1. ASSUME NEW p \in Callers, Allocate(p) PROVE Launches'
    BY <2>1, CallerLocks, CallsAssumption DEF Shape, CallShape, EntryFields, HostFields, Launches, BeforeLaunch,
       Akumas, Allocate, Goto
  <2>2. ASSUME NEW p \in Callers, Abort(p) PROVE Launches'
    BY <2>2, CallerLocks, CallsAssumption DEF Shape, CallShape, EntryFields, HostFields, Launches, BeforeLaunch,
       Akumas, Abort, Spend, Live, Fork
  <2>3. ASSUME NEW p \in Callers, Die(p) PROVE Launches'
    BY <2>3, CallerLocks, CallsAssumption DEF Shape, CallShape, EntryFields, HostFields, Launches, BeforeLaunch,
       Akumas, Die, Spend, Live, Quiet, HostAt
  <2>4. ASSUME NEW o \in orphans, OrphanEnds(o) PROVE Launches'
    BY <2>4, CallerLocks, CallsAssumption DEF Shape, CallShape, EntryFields, HostFields, Launches, BeforeLaunch,
       Akumas, OrphanEnds, Commit
  <2>5. ASSUME NEW a \in Akumas, HostDies(a) PROVE Launches'
    BY <2>5, CallerLocks, CallsAssumption DEF Shape, CallShape, EntryFields, HostFields, Launches, BeforeLaunch,
       Akumas, HostDies, Quiet, Spend, Leave, HostAt
  <2>6. ASSUME NEW a \in Akumas, Peek(a) PROVE Launches'
    BY <2>6, CallerLocks, CallsAssumption DEF Shape, CallShape, EntryFields, HostFields, Launches, BeforeLaunch,
       Akumas, Peek, Takable, Spend
  <2>7. ASSUME NEW a \in Akumas, RecordTell(a) PROVE Launches'
    BY <2>7, CallerLocks, CallsAssumption DEF Shape, CallShape, EntryFields, HostFields, Launches, BeforeLaunch,
       Akumas, RecordTell, Spend
  <2>8. ASSUME NEW a \in Akumas, WakeTold(a) PROVE Launches'
    <3>1. call' = call /\ entry' = entry /\ entry[a].soul
      BY <2>8 DEF WakeTold
    <3>2. \A b \in Akumas \ {a} : host'[b] = host[b]
      BY <2>8 DEF WakeTold, Wake
    <3> QED
      BY <3>1, <3>2 DEF Launches, Akumas
  <2>9. ASSUME NEW a \in Akumas, GrowOld(a) PROVE Launches'
    BY <2>9, CallerLocks, CallsAssumption DEF Shape, CallShape, EntryFields, HostFields, Launches, BeforeLaunch,
       Akumas, GrowOld, Stopped, Settled, Quiet
  <2>10. ASSUME NEW c \in Contracts, EndContract(c) PROVE Launches'
    BY <2>10, CallerLocks, CallsAssumption DEF Shape, CallShape, EntryFields, HostFields, Launches, BeforeLaunch,
       Akumas, EndContract, Spend
  <2> QED
    BY <1>3, <2>1, <2>2, <2>3, <2>4, <2>5, <2>6, <2>7, <2>8, <2>9, <2>10 DEF World
<1>4. ASSUME NEW a \in Akumas, Unpeek(a) PROVE Launches'
  BY <1>4, CallerLocks, CallsAssumption DEF Shape, CallShape, EntryFields, HostFields, Launches, BeforeLaunch,
     Akumas, Unpeek
<1>5. CASE UNCHANGED vars
  BY <1>5, CallerLocks, CallsAssumption DEF Shape, CallShape, EntryFields, HostFields, Launches, BeforeLaunch,
     Akumas, vars, git
<1> QED
  BY <1>1, <1>2, <1>3, <1>4, <1>5 DEF Next

(* Under the leash a caller sees what is so; what it then seals, or finds      *)
(* decided, stays so.                                                        *)
LEMMA OwnVerdict ==
  ASSUME NEW p \in Callers, Shape, VerdictOf(p), Seen, Lasting, Told(p), OwnStep(p)
  PROVE  VerdictOf(p)'
<1>0. (entry[p].soul => entry'[p].soul) /\ (entry[p].seal => entry'[p].seal)
  BY DEF Lasting, Akumas
<1>1. CASE InitializeHeart(p)
  BY <1>1, CallerFields, <1>0 DEF Shape, CallShape, Told, VerdictOf, BornAt, InitializeHeart, Goto
<1>2. CASE InitializeLeash(p)
  <2>1. call[p].at = "initializing" /\ call'[p].at \in {"launching", "sealing"}
    BY <1>2, CallerFields DEF Shape, CallShape, InitializeLeash, Goto
  <2> QED
    BY <2>1, <1>0 DEF Told, VerdictOf, BornAt
<1>3. CASE Launch(p)
  <2>1. call[p].at = "launching" /\ call'[p].at \in {"awaiting", "sealing"}
    BY <1>3, CallerFields DEF Shape, CallShape, Launch, Goto
  <2> QED
    BY <2>1, <1>0 DEF Told, VerdictOf, BornAt
<1>4. CASE SealLocal(p)
  <2>1. CASE Grasp(p)
    <3>1. call[p].at = "sealing" /\ call'[p].at = "sealing" /\ call'[p].result = call[p].result
      BY <1>4, <2>1, CallerFields DEF Shape, CallShape, SealLocal, Grasp
    <3> QED
      BY <3>1, <1>0 DEF VerdictOf, BornAt
  <2>2. CASE Conclude(p)
    <3>1. call[p].at = "sealing" /\ holder[p] = p
      BY <1>4, <2>2 DEF SealLocal, Conclude
    <3>2. ~call[p].seen => entry[p].soul \/ entry[p].seal
      BY <3>1 DEF Seen, Judging, Undecided
    <3>3. call[p].seen => entry'[p].seal
      BY <2>2 DEF Shape, EntryFields, Conclude, Sealed, Akumas
    <3>4. call'[p].at = "judging" \/ Grasp(p) \/ Beaten(p)
      BY <1>4, <2>2, CallerFields DEF Shape, CallShape, SealLocal
    <3>5. ~Grasp(p) /\ ~Beaten(p)
      BY <3>1, CallerLocks DEF Grasp, Take, Beaten
    <3> QED
      BY <3>1, <3>2, <3>3, <3>4, <3>5, <1>0 DEF Told, VerdictOf, BornAt
  <2>3. CASE Beaten(p) /\ call' = [call EXCEPT ![p].at = "judging", ![p].yielded = TRUE]
    <3>1. call[p].at = "sealing" /\ call'[p].at = "judging" /\ call'[p].yielded
      BY <1>4, <2>3, CallerFields DEF Shape, CallShape, SealLocal
    <3> QED
      BY <3>1, <1>0 DEF Told, VerdictOf, BornAt
  <2> QED
    BY <1>4, <2>1, <2>2, <2>3 DEF SealLocal
<1>5. CASE AwaitBirth(p)
  <2>1. /\ call[p].at = "awaiting" /\ call'[p].at \in {"resting", "born", "settling"}
        /\ call'[p].at = "settling" \/ entry[p].soul
    BY <1>5, CallerFields DEF Shape, CallShape, AwaitBirth, Goto, Trouble, Confirmed
  <2> QED
    BY <2>1, <1>0 DEF Told, VerdictOf, BornAt
<1>6. CASE TimeOut(p)
  <2>1. /\ call[p].at = "awaiting" /\ call'[p].at \in {"awaiting", "resting", "born", "settling"}
        /\ call'[p].at \in {"resting", "born"} => entry[p].soul
    BY <1>6, CallerFields DEF Shape, CallShape, TimeOut, Grasp, Conclude, Trouble, Confirmed
  <2> QED
    BY <2>1, <1>0 DEF Told, VerdictOf, BornAt
<1>7. CASE AwaitAsleep(p)
  BY <1>7, CallerFields, <1>0 DEF Shape, CallShape, Told, VerdictOf, BornAt, AwaitAsleep, Goto, Trouble
<1>8. CASE Settle(p)
  <2>1. call[p].at = "settling" /\ call'[p].at \in {"born", "judging", "closing"}
    BY <1>8, CallerFields DEF Shape, CallShape, Settle, Goto, Outcome
  <2>2. call'[p].at \in {"born", "judging"} => entry[p].soul
    BY <1>8, CallerFields DEF Shape, CallShape, Settle, Goto, Outcome
  <2> QED
    BY <2>1, <2>2, <1>0 DEF Told, VerdictOf, BornAt
<1>9. CASE CloseBirth(p)
  <2>0. call[p].at = "closing"
    BY <1>9 DEF CloseBirth
  <2>1. CASE Grasp(p)
    <3>1. call'[p].at = "closing" /\ call'[p].result = call[p].result
      BY <2>0, <2>1, CallerFields DEF Shape, CallShape, Grasp
    <3> QED
      BY <2>0, <3>1, <1>0 DEF VerdictOf, BornAt
  <2>2. ASSUME Conclude(p), call' = [call EXCEPT ![p].at = Outcome(p, entry[p].soul), ![p].seen = None]
        PROVE  VerdictOf(p)'
    <3>1. holder[p] = p
      BY <2>2 DEF Conclude
    <3>2. ~call[p].seen => entry[p].soul \/ entry[p].seal
      BY <2>0, <3>1 DEF Seen, Judging, Undecided
    <3>3. call[p].seen => entry'[p].seal
      BY <2>2 DEF Shape, EntryFields, Conclude, Sealed, Akumas
    <3>4. /\ call'[p].at \in {"born", "judging"} /\ (call'[p].at = "born" => entry[p].soul)
          /\ call'[p].yielded = call[p].yielded
      BY <2>2, CallerFields DEF Shape, CallShape, Outcome
    <3> QED
      BY <2>0, <3>2, <3>3, <3>4, <1>0 DEF Told, VerdictOf, BornAt
  <2>3. ASSUME call' = [call EXCEPT ![p].at = Outcome(p, entry[p].soul), ![p].yielded = ~entry[p].soul]
        PROVE  VerdictOf(p)'
    <3>1. /\ call'[p].at \in {"born", "judging"} /\ (call'[p].at = "born" => entry[p].soul)
          /\ call'[p].yielded = ~entry[p].soul
      BY <2>3, CallerFields DEF Shape, CallShape, Outcome
    <3> QED
      BY <2>0, <3>1, <1>0 DEF Told, VerdictOf, BornAt
  <2> QED
    BY <1>9, <2>1, <2>2, <2>3 DEF CloseBirth
<1>10. CASE Judge(p)
  BY <1>10, CallerFields, <1>0 DEF Shape, CallShape, Told, VerdictOf, BornAt, Judge
<1>11. CASE FirstTell(p)
  BY <1>11, CallerFields, <1>0 DEF Shape, CallShape, Told, VerdictOf, BornAt, FirstTell, Goto
<1>12. CASE FirstWake(p)
  BY <1>12, CallerFields, <1>0 DEF Shape, CallShape, Told, VerdictOf, BornAt, FirstWake, Goto
<1>13. CASE Watch(p)
  BY <1>13, CallerFields, <1>0 DEF Shape, CallShape, Told, VerdictOf, BornAt, Watch
<1>14. CASE Associate(p)
  BY <1>14, CallerFields, <1>0 DEF Shape, CallShape, Told, VerdictOf, BornAt, Associate
<1>15. CASE TakeSeat(p)
  BY <1>15, CallerFields, <1>0 DEF Shape, CallShape, Told, VerdictOf, BornAt, TakeSeat
<1>16. CASE Publish(p)
  BY <1>16, CallerFields, <1>0 DEF Shape, CallShape, Told, VerdictOf, BornAt, Publish, Goto
<1>17. CASE ReadBack(p)
  BY <1>17, CallerFields, <1>0 DEF Shape, CallShape, Told, VerdictOf, BornAt, ReadBack
<1>18. CASE TakeAliases(p)
  BY <1>18, CallerFields, <1>0 DEF Shape, CallShape, Told, VerdictOf, BornAt, TakeAliases, Goto
<1>19. CASE MoveAlias(p)
  BY <1>19, CallerFields, <1>0 DEF Shape, CallShape, Told, VerdictOf, BornAt, MoveAlias
<1>20. CASE Answer(p)
  <2>1. call[p].at = "answering" /\ call'[p].at \in {"sweeping", "ended"} /\ call'[p].result \in {"named", "called"}
    BY <1>20, CallerFields DEF Shape, CallShape, Answer
  <2> QED
    BY <2>1, <1>0 DEF Told, VerdictOf, BornAt
<1>21. CASE LookForIdle(p)
  BY <1>21, CallerFields, <1>0 DEF Shape, CallShape, Told, VerdictOf, BornAt, LookForIdle
<1>22. CASE TakeCandidate(p)
  BY <1>22, <1>0, CandidateTaken DEF Shape, Told, VerdictOf, BornAt
<1>23. CASE GuardNames(p)
  <2>1. call[p].at = "guarding" /\ call'[p].at \in {"guarded", "retiring"}
    BY <1>23, CallerFields DEF Shape, CallShape, GuardNames, Goto, LetGo
  <2> QED
    BY <2>1, <1>0 DEF Told, VerdictOf, BornAt
<1>24. CASE GuardDispatch(p)
  <2>1. call[p].at = "guarded" /\ call'[p].at \in {"judged", "retiring"}
    BY <1>24, CallerFields DEF Shape, CallShape, GuardDispatch, Goto, LetGo
  <2> QED
    BY <2>1, <1>0 DEF Told, VerdictOf, BornAt
<1>25. CASE LastLook(p)
  <2>1. call[p].at = "judged" /\ call'[p].at \in {"removing", "retiring"}
    BY <1>25, CallerFields DEF Shape, CallShape, LastLook, Goto, LetGo
  <2> QED
    BY <2>1, <1>0 DEF Told, VerdictOf, BornAt
<1>26. CASE RemoveLeash(p)
  BY <1>26, CallerFields, <1>0 DEF Shape, CallShape, Told, VerdictOf, BornAt, RemoveLeash, Goto, LetGo
<1>27. CASE RemoveHeart(p)
  BY <1>27, CallerFields, <1>0 DEF Shape, CallShape, Told, VerdictOf, BornAt, RemoveHeart, Goto, LetGo
<1>28. CASE Allocate(p)
  BY <1>28, CallerFields, <1>0 DEF Shape, CallShape, Told, VerdictOf, BornAt, Allocate, Goto
<1>29. CASE Abort(p)
  <2>1. call'[p].at = call[p].at
    BY <1>29, CallerFields DEF Shape, CallShape, Abort
  <2>2. call'[p].yielded = call[p].yielded /\ call'[p].result = call[p].result
    BY <1>29, CallerFields DEF Shape, CallShape, Abort
  <2> QED
    BY <2>1, <2>2, <1>0 DEF VerdictOf
<1>30. CASE Die(p)
  <2>1. call[p].at # "ended" /\ call'[p].at = "dead" /\ call'[p].result = call[p].result
    BY <1>30, CallerFields DEF Shape, CallShape, Die, Live
  <2> QED
    BY <2>1, <1>0 DEF VerdictOf, BornAt
<1> QED
  BY <1>1, <1>2, <1>3, <1>4, <1>5, <1>6, <1>7, <1>8, <1>9, <1>10, <1>11, <1>12, <1>13, <1>14, <1>15, <1>16, <1>17,
     <1>18, <1>19, <1>20, <1>21, <1>22, <1>23, <1>24, <1>25, <1>26, <1>27, <1>28, <1>29, <1>30 DEF OwnStep, CallStep

(* Verdicts last, and so does what was seen.                                 *)
LEMMA VerdictsKept == Shape /\ Custody /\ Verdicts /\ Seen /\ [Next]_vars => Verdicts'
<1> SUFFICES ASSUME Shape, Custody, Verdicts, Seen, [Next]_vars PROVE Verdicts'
  OBVIOUS
<1>1. Lasting
  BY DecidedForGood
<1>2. ASSUME NEW q \in Callers, call'[q] = call[q] PROVE VerdictOf(q)'
  <2>1. (entry[q].soul => entry'[q].soul) /\ (entry[q].seal => entry'[q].seal)
    BY <1>1 DEF Lasting, Akumas
  <2> QED
    BY <1>2, <2>1 DEF Verdicts, VerdictOf
<1>3. ASSUME NEW p \in Callers, OwnStep(p) PROVE Verdicts'
  <2>1. \A q \in Callers \ {p} : call'[q] = call[q]
    BY <1>3, CallersMindTheirOwn DEF Shape
  <2>2. VerdictOf(p)'
    BY <1>1, <1>3, OwnVerdict, CallersLearn DEF Shape, Verdicts
  <2> QED
    BY <1>2, <2>1, <2>2 DEF Verdicts
<1>4. ASSUME call' = call PROVE Verdicts'
  BY <1>2, <1>4 DEF Verdicts
<1>5. ForeignStep => call' = call
  BY WorldIsCalm DEF Shape, Calm
<1> QED
  BY <1>3, <1>4, <1>5, StepKinds DEF vars

LEMMA SeenKept == Shape /\ OwnLeash /\ Seen /\ [Next]_vars => Seen'
<1> SUFFICES ASSUME Shape, OwnLeash, Seen, [Next]_vars,
                    NEW p \in Callers, holder'[p] = p, call'[p].at \in Judging, Undecided(p)'
             PROVE  call'[p].seen
  BY DEF Seen
<1>1. Undecided(p)
  BY DecidedForGood DEF Lasting, Undecided, Akumas
<1>2. CASE call'[p].seen = Undecided(p)
  BY <1>1, <1>2
<1>3. CASE holder[p] = p /\ call[p].at \in Judging /\ call'[p].seen = call[p].seen
  BY <1>1, <1>3 DEF Seen
<1> QED
  BY <1>2, <1>3, LookedOnce DEF Frame, Shape

(* A caller's step gives a Dispatch to its own child only, and only when it  *)
(* publishes.                                                                *)
LEMMA CallersDispatchTheirOwn ==
  ASSUME NEW p \in Callers, DOMAIN dispatch = Akumas, OwnStep(p)
  PROVE  /\ \A q \in Callers \ {p} : dispatch'[q] = dispatch[q]
         /\ call[p].at # "publishing" => dispatch' = dispatch
<1>1. CASE InitializeHeart(p)
  BY <1>1 DEF git, InitializeHeart
<1>2. CASE InitializeLeash(p)
  BY <1>2 DEF git, InitializeLeash
<1>3. CASE Launch(p)
  BY <1>3 DEF git, Launch
<1>4. CASE SealLocal(p)
  BY <1>4 DEF git, SealLocal
<1>5. CASE AwaitBirth(p)
  BY <1>5 DEF git, AwaitBirth
<1>6. CASE TimeOut(p)
  BY <1>6 DEF git, TimeOut
<1>7. CASE AwaitAsleep(p)
  BY <1>7 DEF git, AwaitAsleep
<1>8. CASE Settle(p)
  BY <1>8 DEF git, Settle
<1>9. CASE CloseBirth(p)
  BY <1>9 DEF git, CloseBirth
<1>10. CASE Judge(p)
  BY <1>10 DEF git, Judge
<1>11. CASE FirstTell(p)
  BY <1>11 DEF git, FirstTell
<1>12. CASE FirstWake(p)
  BY <1>12 DEF git, FirstWake
<1>13. CASE Watch(p)
  BY <1>13 DEF git, Watch
<1>14. CASE Associate(p)
  BY <1>14 DEF git, Associate
<1>15. CASE TakeSeat(p)
  BY <1>15 DEF git, TakeSeat
<1>16. CASE Publish(p)
  BY <1>16 DEF git, Publish, Commit, Akumas
<1>17. CASE ReadBack(p)
  BY <1>17 DEF git, ReadBack
<1>18. CASE TakeAliases(p)
  BY <1>18 DEF git, TakeAliases
<1>19. CASE MoveAlias(p)
  BY <1>19 DEF git, MoveAlias
<1>20. CASE Answer(p)
  BY <1>20 DEF git, Answer
<1>21. CASE LookForIdle(p)
  BY <1>21 DEF git, LookForIdle
<1>22. CASE TakeCandidate(p)
  BY <1>22 DEF git, TakeCandidate
<1>23. CASE GuardNames(p)
  BY <1>23 DEF git, GuardNames
<1>24. CASE GuardDispatch(p)
  BY <1>24 DEF git, GuardDispatch
<1>25. CASE LastLook(p)
  BY <1>25 DEF git, LastLook
<1>26. CASE RemoveLeash(p)
  BY <1>26 DEF git, RemoveLeash
<1>27. CASE RemoveHeart(p)
  BY <1>27 DEF git, RemoveHeart
<1>28. CASE Allocate(p)
  BY <1>28 DEF git, Allocate
<1>29. CASE Abort(p)
  BY <1>29 DEF git, Abort
<1>30. CASE Die(p)
  BY <1>30 DEF git, Die
<1> QED
  BY <1>1, <1>2, <1>3, <1>4, <1>5, <1>6, <1>7, <1>8, <1>9, <1>10, <1>11, <1>12, <1>13, <1>14, <1>15, <1>16, <1>17,
     <1>18, <1>19, <1>20, <1>21, <1>22, <1>23, <1>24, <1>25, <1>26, <1>27, <1>28, <1>29, <1>30 DEF OwnStep, CallStep

(* What is durably there when it is read back is the caller's own doing.     *)
LEMMA OwnStage ==
  ASSUME NEW p \in Callers, Shape, StageOf(p), Told(p), OwnStep(p)
  PROVE  StageOf(p)'
<1>0. call[p].at # "publishing" => dispatch' = dispatch
  BY CallersDispatchTheirOwn DEF Shape
<1>1. CASE InitializeHeart(p)
  <2>1. call[p].at = "allocated" /\ call'[p].at = "initializing"
    BY <1>1, CallerFields DEF Shape, CallShape, InitializeHeart, Goto
  <2> QED
    BY <2>1, <1>0 DEF Told, StageOf, Unpublished, BeforeLaunch
<1>2. CASE InitializeLeash(p)
  <2>1. call[p].at = "initializing" /\ call'[p].at \in {"launching", "sealing"}
    BY <1>2, CallerFields DEF Shape, CallShape, InitializeLeash, Goto
  <2> QED
    BY <2>1, <1>0 DEF Told, StageOf, Unpublished, BeforeLaunch
<1>3. CASE Launch(p)
  <2>1. call[p].at = "launching" /\ call'[p].at \in {"awaiting", "sealing"}
    BY <1>3, CallerFields DEF Shape, CallShape, Launch, Goto
  <2> QED
    BY <2>1, <1>0 DEF Told, StageOf, Unpublished, BeforeLaunch
<1>4. CASE SealLocal(p)
  <2>1. call[p].at = "sealing" /\ call'[p].at \in {"sealing", "judging"}
    BY <1>4, CallerFields DEF Shape, CallShape, SealLocal, Grasp, Conclude
  <2> QED
    BY <2>1, <1>0 DEF Told, StageOf, Unpublished, BeforeLaunch
<1>5. CASE AwaitBirth(p)
  <2>1. call[p].at = "awaiting" /\ call'[p].at \in {"resting", "born", "settling"}
    BY <1>5, CallerFields DEF Shape, CallShape, AwaitBirth, Trouble, Goto, Confirmed
  <2> QED
    BY <2>1, <1>0 DEF Told, StageOf, Unpublished, BeforeLaunch
<1>6. CASE TimeOut(p)
  <2>1. call[p].at = "awaiting" /\ call'[p].at \in {"awaiting", "resting", "born", "settling"}
    BY <1>6, CallerFields DEF Shape, CallShape, TimeOut, Grasp, Conclude, Trouble, Confirmed
  <2> QED
    BY <2>1, <1>0 DEF Told, StageOf, Unpublished, BeforeLaunch
<1>7. CASE AwaitAsleep(p)
  <2>1. call[p].at = "resting" /\ call'[p].at \in {"born", "settling"}
    BY <1>7, CallerFields DEF Shape, CallShape, AwaitAsleep, Goto, Trouble
  <2> QED
    BY <2>1, <1>0 DEF Told, StageOf, Unpublished, BeforeLaunch
<1>8. CASE Settle(p)
  <2>1. call[p].at = "settling" /\ call'[p].at \in {"born", "judging", "closing"}
    BY <1>8, CallerFields DEF Shape, CallShape, Settle, Goto, Outcome
  <2> QED
    BY <2>1, <1>0 DEF Told, StageOf, Unpublished, BeforeLaunch
<1>9. CASE CloseBirth(p)
  <2>1. call[p].at = "closing" /\ call'[p].at \in {"closing", "born", "judging"}
    BY <1>9, CallerFields DEF Shape, CallShape, CloseBirth, Grasp, Conclude, Outcome
  <2> QED
    BY <2>1, <1>0 DEF Told, StageOf, Unpublished, BeforeLaunch
<1>10. CASE Judge(p)
  <2>1. call[p].at = "judging" /\ call'[p].at \in {"ended", "dispatching"}
    BY <1>10, CallerFields DEF Shape, CallShape, Judge
  <2> QED
    BY <2>1, <1>0 DEF Told, StageOf, Unpublished, BeforeLaunch
<1>11. CASE FirstTell(p)
  <2>1. call[p].at = "born" /\ call'[p].at \in {"dispatching", "waking"}
    BY <1>11, CallerFields DEF Shape, CallShape, FirstTell, Goto
  <2> QED
    BY <2>1, <1>0 DEF Told, StageOf, Unpublished, BeforeLaunch
<1>12. CASE FirstWake(p)
  <2>1. call[p].at = "waking" /\ call'[p].at \in {"watching", "dispatching"}
    BY <1>12, CallerFields DEF Shape, CallShape, FirstWake, Goto
  <2> QED
    BY <2>1, <1>0 DEF Told, StageOf, Unpublished, BeforeLaunch
<1>13. CASE Watch(p)
  <2>1. call[p].at = "watching" /\ call'[p].at = "dispatching"
    BY <1>13, CallerFields DEF Shape, CallShape, Watch
  <2> QED
    BY <2>1, <1>0 DEF Told, StageOf, Unpublished, BeforeLaunch
<1>14. CASE Associate(p)
  <2>1. /\ call[p].at = "dispatching" /\ call'[p].at \in {"naming", "seating"}
        /\ call'[p].at = "seating" => call'[p].contract # None /\ call'[p].stage = call[p].stage
        /\ call'[p].stage \in {call[p].stage, "thrown"}
    BY <1>14, CallerFields DEF Shape, CallShape, Associate
  <2> QED
    BY <2>1, <1>0 DEF Told, StageOf, Unpublished, BeforeLaunch
<1>15. CASE TakeSeat(p)
  <2>1. call[p].at = "seating" /\ call'[p].at \in {"publishing", "naming"}
    BY <1>15, CallerFields DEF Shape, CallShape, TakeSeat
  <2>2. call'[p].stage = IF call'[p].at = "naming" THEN "thrown" ELSE call[p].stage
    BY <1>15, CallerFields DEF Shape, CallShape, TakeSeat
  <2> QED
    BY <2>1, <2>2, <1>0 DEF Told, StageOf, Unpublished, BeforeLaunch
<1>16. CASE Publish(p)
  <2>1. call[p].at = "publishing" /\ call'[p].at = "reading back"
    BY <1>16, CallerFields DEF Shape, CallShape, Publish, Goto
  <2>2. dispatch'[p] \in {dispatch[p], call[p].contract}
    BY <1>16 DEF Shape, Publish, Commit, Akumas
  <2> QED
    BY <2>1, <2>2 DEF Told, StageOf, Unpublished, BeforeLaunch
<1>17. CASE ReadBack(p)
  <2>1. /\ call[p].at = "reading back" /\ call'[p].at = "naming"
        /\ call'[p].stage \in Readings(p)
    BY <1>17, CallerFields DEF Shape, CallShape, ReadBack
  <2> QED
    BY <2>1, <1>0 DEF Readings, Told, StageOf, Unpublished, BeforeLaunch
<1>18. CASE TakeAliases(p)
  <2>1. call[p].at = "naming" /\ call'[p].at \in {"moving", "answering"}
    BY <1>18, CallerFields DEF Shape, CallShape, TakeAliases, Goto
  <2> QED
    BY <2>1, <1>0 DEF Told, StageOf, Unpublished, BeforeLaunch
<1>19. CASE MoveAlias(p)
  <2>1. call[p].at = "moving" /\ call'[p].at = "answering"
    BY <1>19, CallerFields DEF Shape, CallShape, MoveAlias
  <2> QED
    BY <2>1, <1>0 DEF Told, StageOf, Unpublished, BeforeLaunch
<1>20. CASE Answer(p)
  <2>1. call[p].at = "answering" /\ call'[p].at \in {"sweeping", "ended"}
    BY <1>20, CallerFields DEF Shape, CallShape, Answer
  <2> QED
    BY <2>1, <1>0 DEF Told, StageOf, Unpublished, BeforeLaunch
<1>21. CASE LookForIdle(p)
  <2>1. call[p].at = "sweeping" /\ call'[p].at = "retiring"
    BY <1>21, CallerFields DEF Shape, CallShape, LookForIdle
  <2> QED
    BY <2>1, <1>0 DEF Told, StageOf, Unpublished, BeforeLaunch
<1>22. CASE TakeCandidate(p)
  BY <1>22, <1>0, CandidateTaken DEF Shape, Told, StageOf, Unpublished, BeforeLaunch
<1>23. CASE GuardNames(p)
  <2>1. call[p].at = "guarding" /\ call'[p].at \in {"guarded", "retiring"}
    BY <1>23, CallerFields DEF Shape, CallShape, GuardNames, Goto, LetGo
  <2> QED
    BY <2>1, <1>0 DEF Told, StageOf, Unpublished, BeforeLaunch
<1>24. CASE GuardDispatch(p)
  <2>1. call[p].at = "guarded" /\ call'[p].at \in {"judged", "retiring"}
    BY <1>24, CallerFields DEF Shape, CallShape, GuardDispatch, Goto, LetGo
  <2> QED
    BY <2>1, <1>0 DEF Told, StageOf, Unpublished, BeforeLaunch
<1>25. CASE LastLook(p)
  <2>1. call[p].at = "judged" /\ call'[p].at \in {"removing", "retiring"}
    BY <1>25, CallerFields DEF Shape, CallShape, LastLook, Goto, LetGo
  <2> QED
    BY <2>1, <1>0 DEF Told, StageOf, Unpublished, BeforeLaunch
<1>26. CASE RemoveLeash(p)
  <2>1. call[p].at = "removing" /\ call'[p].at = "removing heart"
    BY <1>26, CallerFields DEF Shape, CallShape, RemoveLeash, Goto, LetGo
  <2> QED
    BY <2>1, <1>0 DEF Told, StageOf, Unpublished, BeforeLaunch
<1>27. CASE RemoveHeart(p)
  <2>1. call[p].at = "removing heart" /\ call'[p].at = "retiring"
    BY <1>27, CallerFields DEF Shape, CallShape, RemoveHeart, Goto, LetGo
  <2> QED
    BY <2>1, <1>0 DEF Told, StageOf, Unpublished, BeforeLaunch
<1>28. CASE Allocate(p)
  <2>1. call[p].at = "idle" /\ call'[p].at = "allocated"
    BY <1>28, CallerFields DEF Shape, CallShape, Allocate, Goto
  <2> QED
    BY <2>1, <1>0 DEF Told, StageOf, Unpublished, BeforeLaunch
<1>29. CASE Abort(p)
  <2>1. call'[p].at = call[p].at /\ call'[p].stage = call[p].stage /\ call'[p].contract = call[p].contract
    BY <1>29, CallerFields DEF Shape, CallShape, Abort
  <2>2. dispatch' = dispatch
    BY <1>29 DEF Abort, git
  <2> QED
    BY <2>1, <2>2 DEF Told, StageOf, Unpublished, BeforeLaunch
<1>30. CASE Die(p)
  <2>1. call'[p].at = "dead" /\ call'[p].stage = call[p].stage /\ call'[p].contract = call[p].contract
    BY <1>30, CallerFields DEF Shape, CallShape, Die
  <2>2. dispatch' = dispatch
    BY <1>30 DEF Die
  <2> QED
    BY <2>1, <2>2 DEF Told, StageOf, Unpublished, BeforeLaunch
<1> QED
  BY <1>1, <1>2, <1>3, <1>4, <1>5, <1>6, <1>7, <1>8, <1>9, <1>10, <1>11, <1>12, <1>13, <1>14, <1>15, <1>16, <1>17,
     <1>18, <1>19, <1>20, <1>21, <1>22, <1>23, <1>24, <1>25, <1>26, <1>27, <1>28, <1>29, <1>30 DEF OwnStep, CallStep

(* A ref transaction that outlives its caller touches nobody who still reads. *)
LEMMA StagesKept == Shape /\ Stages /\ Orphanage /\ [Next]_vars => Stages'
<1> SUFFICES ASSUME Shape, Stages, Orphanage, [Next]_vars PROVE Stages'
  OBVIOUS
<1>1. ASSUME NEW q \in Callers, call'[q] = call[q], dispatch'[q] = dispatch[q] PROVE StageOf(q)'
  BY <1>1 DEF Stages, StageOf
<1>2. ASSUME NEW p \in Callers, OwnStep(p) PROVE Stages'
  <2>1. \A q \in Callers \ {p} : call'[q] = call[q] /\ dispatch'[q] = dispatch[q]
    BY <1>2, CallersMindTheirOwn, CallersDispatchTheirOwn DEF Shape
  <2>2. StageOf(p)'
    BY <1>2, OwnStage, CallersLearn DEF Shape, Stages
  <2> QED
    BY <1>1, <2>1, <2>2 DEF Stages
<1>3. ASSUME call' = call, dispatch' = dispatch PROVE Stages'
  BY <1>1, <1>3 DEF Stages
<1>4. CASE ForeignStep
  <2>1. call' = call
    BY <1>4, WorldIsCalm DEF Shape, Calm
  <2>2. ASSUME NEW o \in orphans, OrphanEnds(o), NEW q \in Callers PROVE StageOf(q)'
    <3>1. CASE q = o.akuma
      BY <2>1, <3>1 DEF Orphanage, Stages, StageOf, Unpublished, BeforeLaunch
    <3>2. CASE q # o.akuma
      BY <1>1, <2>1, <2>2, <3>2 DEF Shape, OrphanEnds, Commit, Akumas
    <3> QED
      BY <3>1, <3>2
  <2>3. (\E o \in orphans : OrphanEnds(o)) \/ dispatch' = dispatch
    BY <1>4 DEF ForeignStep, HostStep, git, HostTakes, HostLooks, HostBears, HostWakes, HostRecords, HostDrives,
       HostReleases, HostFails, HostSeals, Unpeek, HostDies, Peek, RecordTell, WakeTold, GrowOld, EndContract
  <2> QED
    BY <1>3, <2>1, <2>2, <2>3 DEF Stages
<1> QED
  BY <1>2, <1>3, <1>4, StepKinds DEF vars, git

(* The dead take no step.                                                    *)
LEMMA TheDeadDoNothing ==
  ASSUME NEW p \in Callers, DOMAIN call = Callers, OwnStep(p)
  PROVE  call[p].at # "dead"
<1>1. CASE InitializeHeart(p)
  BY <1>1 DEF git, InitializeHeart
<1>2. CASE InitializeLeash(p)
  BY <1>2 DEF git, InitializeLeash
<1>3. CASE Launch(p)
  BY <1>3 DEF git, Launch
<1>4. CASE SealLocal(p)
  BY <1>4 DEF git, SealLocal
<1>5. CASE AwaitBirth(p)
  BY <1>5 DEF git, AwaitBirth
<1>6. CASE TimeOut(p)
  BY <1>6 DEF git, TimeOut
<1>7. CASE AwaitAsleep(p)
  BY <1>7 DEF git, AwaitAsleep
<1>8. CASE Settle(p)
  BY <1>8 DEF git, Settle
<1>9. CASE CloseBirth(p)
  BY <1>9 DEF git, CloseBirth
<1>10. CASE Judge(p)
  BY <1>10 DEF git, Judge
<1>11. CASE FirstTell(p)
  BY <1>11 DEF git, FirstTell
<1>12. CASE FirstWake(p)
  BY <1>12 DEF git, FirstWake
<1>13. CASE Watch(p)
  BY <1>13 DEF git, Watch
<1>14. CASE Associate(p)
  BY <1>14 DEF git, Associate
<1>15. CASE TakeSeat(p)
  BY <1>15 DEF git, TakeSeat
<1>16. CASE Publish(p)
  BY <1>16 DEF git, Publish
<1>17. CASE ReadBack(p)
  BY <1>17 DEF git, ReadBack
<1>18. CASE TakeAliases(p)
  BY <1>18 DEF git, TakeAliases
<1>19. CASE MoveAlias(p)
  BY <1>19 DEF git, MoveAlias
<1>20. CASE Answer(p)
  BY <1>20 DEF git, Answer
<1>21. CASE LookForIdle(p)
  BY <1>21 DEF git, LookForIdle
<1>22. CASE TakeCandidate(p)
  BY <1>22 DEF git, TakeCandidate
<1>23. CASE GuardNames(p)
  BY <1>23 DEF git, GuardNames
<1>24. CASE GuardDispatch(p)
  BY <1>24 DEF git, GuardDispatch
<1>25. CASE LastLook(p)
  BY <1>25 DEF git, LastLook
<1>26. CASE RemoveLeash(p)
  BY <1>26 DEF git, RemoveLeash
<1>27. CASE RemoveHeart(p)
  BY <1>27 DEF git, RemoveHeart
<1>28. CASE Allocate(p)
  BY <1>28 DEF git, Allocate
<1>29. CASE Abort(p)
  BY <1>29 DEF git, Abort, Live
<1>30. CASE Die(p)
  BY <1>30 DEF git, Die, Live
<1> QED
  BY <1>1, <1>2, <1>3, <1>4, <1>5, <1>6, <1>7, <1>8, <1>9, <1>10, <1>11, <1>12, <1>13, <1>14, <1>15, <1>16, <1>17,
     <1>18, <1>19, <1>20, <1>21, <1>22, <1>23, <1>24, <1>25, <1>26, <1>27, <1>28, <1>29, <1>30 DEF OwnStep, CallStep

LEMMA OrphanageKept == Shape /\ Stages /\ Orphanage /\ [Next]_vars => Orphanage'
<1> SUFFICES ASSUME Shape, Stages, Orphanage, [Next]_vars PROVE Orphanage'
  OBVIOUS
<1>1. ASSUME call' = call, orphans' \subseteq orphans PROVE Orphanage'
  BY <1>1 DEF Orphanage
<1>2. ASSUME NEW p \in Callers, OwnStep(p) PROVE Orphanage'
  <2>1. call[p].at # "dead" /\ \A q \in Callers \ {p} : call'[q] = call[q]
    BY <1>2, CallersMindTheirOwn, TheDeadDoNothing DEF Shape, CallShape
  <2>2. \A o \in orphans : o.akuma \in Callers /\ call'[o.akuma].at = "dead" /\ call'[o.akuma].stage = "none"
    BY <2>1 DEF Orphanage
  <2>3. CASE orphans' = orphans
    BY <2>2, <2>3 DEF Orphanage
  <2>4. CASE Die(p)
    <3>1. call'[p].at = "dead" /\ call'[p].stage = call[p].stage
      BY <2>4, CallerFields DEF Shape, CallShape, Die
    <3>2. call[p].at = "publishing" => call[p].stage = "none"
      BY DEF Stages, StageOf, Unpublished
    <3>3. \A o \in orphans' : o \in orphans \/ (o.akuma = p /\ call[p].at = "publishing")
      BY <2>4 DEF Die
    <3> QED
      BY <2>2, <3>1, <3>2, <3>3 DEF Orphanage
  <2>5. orphans' = orphans \/ Die(p)
    BY <1>2 DEF OwnStep, CallStep, git, InitializeHeart, InitializeLeash, Launch, SealLocal, AwaitBirth, TimeOut,
       AwaitAsleep, Settle, CloseBirth, Judge, FirstTell, FirstWake, Watch, Associate, TakeSeat, Publish, ReadBack,
       TakeAliases, MoveAlias, Answer, LookForIdle, TakeCandidate, GuardNames, GuardDispatch, LastLook, RemoveLeash,
       RemoveHeart, Allocate, Abort
  <2> QED
    BY <2>3, <2>4, <2>5
<1>3. CASE ForeignStep
  <2>1. call' = call
    BY <1>3, WorldIsCalm DEF Shape, Calm
  <2>2. orphans' \subseteq orphans
    BY <1>3 DEF ForeignStep, HostStep, git, HostTakes, HostLooks, HostBears, HostWakes, HostRecords, HostDrives,
       HostReleases, HostFails, HostSeals, Unpeek, HostDies, Peek, RecordTell, WakeTold, GrowOld, EndContract,
       OrphanEnds
  <2> QED
    BY <1>1, <2>1, <2>2
<1> QED
  BY <1>1, <1>2, <1>3, StepKinds DEF vars, git

(* The names are replaced by a caller that moves one. No caller here ends a   *)
(* Contract.                                                                 *)
LEMMA CallersNameTheirOwn ==
  ASSUME NEW p \in Callers, DOMAIN call = Callers, OwnStep(p)
  PROVE  (call[p].at # "moving" => alias' = alias) /\ terminal' = terminal
<1>1. CASE InitializeHeart(p)
  BY <1>1 DEF git, InitializeHeart
<1>2. CASE InitializeLeash(p)
  BY <1>2 DEF git, InitializeLeash
<1>3. CASE Launch(p)
  BY <1>3 DEF git, Launch
<1>4. CASE SealLocal(p)
  BY <1>4 DEF git, SealLocal
<1>5. CASE AwaitBirth(p)
  BY <1>5 DEF git, AwaitBirth
<1>6. CASE TimeOut(p)
  BY <1>6 DEF git, TimeOut
<1>7. CASE AwaitAsleep(p)
  BY <1>7 DEF git, AwaitAsleep
<1>8. CASE Settle(p)
  BY <1>8 DEF git, Settle
<1>9. CASE CloseBirth(p)
  BY <1>9 DEF git, CloseBirth
<1>10. CASE Judge(p)
  BY <1>10 DEF git, Judge
<1>11. CASE FirstTell(p)
  BY <1>11 DEF git, FirstTell
<1>12. CASE FirstWake(p)
  BY <1>12 DEF git, FirstWake
<1>13. CASE Watch(p)
  BY <1>13 DEF git, Watch
<1>14. CASE Associate(p)
  BY <1>14 DEF git, Associate
<1>15. CASE TakeSeat(p)
  BY <1>15 DEF git, TakeSeat
<1>16. CASE Publish(p)
  BY <1>16 DEF git, Publish
<1>17. CASE ReadBack(p)
  BY <1>17 DEF git, ReadBack
<1>18. CASE TakeAliases(p)
  BY <1>18 DEF git, TakeAliases
<1>19. CASE MoveAlias(p)
  BY <1>19 DEF git, MoveAlias
<1>20. CASE Answer(p)
  BY <1>20 DEF git, Answer
<1>21. CASE LookForIdle(p)
  BY <1>21 DEF git, LookForIdle
<1>22. CASE TakeCandidate(p)
  BY <1>22 DEF git, TakeCandidate
<1>23. CASE GuardNames(p)
  BY <1>23 DEF git, GuardNames
<1>24. CASE GuardDispatch(p)
  BY <1>24 DEF git, GuardDispatch
<1>25. CASE LastLook(p)
  BY <1>25 DEF git, LastLook
<1>26. CASE RemoveLeash(p)
  BY <1>26 DEF git, RemoveLeash
<1>27. CASE RemoveHeart(p)
  BY <1>27 DEF git, RemoveHeart
<1>28. CASE Allocate(p)
  BY <1>28 DEF git, Allocate
<1>29. CASE Abort(p)
  BY <1>29 DEF git, Abort
<1>30. CASE Die(p)
  BY <1>30 DEF git, Die
<1> QED
  BY <1>1, <1>2, <1>3, <1>4, <1>5, <1>6, <1>7, <1>8, <1>9, <1>10, <1>11, <1>12, <1>13, <1>14, <1>15, <1>16, <1>17,
     <1>18, <1>19, <1>20, <1>21, <1>22, <1>23, <1>24, <1>25, <1>26, <1>27, <1>28, <1>29, <1>30 DEF OwnStep, CallStep

(* A move starts from the names as they are.                                 *)
LEMMA OwnMove ==
  ASSUME NEW p \in Callers, Shape, MoveOf(p), Told(p), OwnStep(p)
  PROVE  MoveOf(p)'
<1>0. call[p].at # "moving" => alias' = alias
  BY CallersNameTheirOwn DEF Shape, CallShape
<1>1. CASE InitializeHeart(p)
  <2>1. call[p].at = "allocated" /\ call'[p].at = "initializing"
    BY <1>1, CallerFields DEF Shape, CallShape, InitializeHeart, Goto
  <2> QED
    BY <2>1, <1>0 DEF Told, MoveOf, Unpublished, BeforeLaunch
<1>2. CASE InitializeLeash(p)
  <2>1. call[p].at = "initializing" /\ call'[p].at \in {"launching", "sealing"}
    BY <1>2, CallerFields DEF Shape, CallShape, InitializeLeash, Goto
  <2> QED
    BY <2>1, <1>0 DEF Told, MoveOf, Unpublished, BeforeLaunch
<1>3. CASE Launch(p)
  <2>1. call[p].at = "launching" /\ call'[p].at \in {"awaiting", "sealing"}
    BY <1>3, CallerFields DEF Shape, CallShape, Launch, Goto
  <2> QED
    BY <2>1, <1>0 DEF Told, MoveOf, Unpublished, BeforeLaunch
<1>4. CASE SealLocal(p)
  <2>1. call[p].at = "sealing" /\ call'[p].at \in {"sealing", "judging"}
    BY <1>4, CallerFields DEF Shape, CallShape, SealLocal, Grasp, Conclude
  <2> QED
    BY <2>1, <1>0 DEF Told, MoveOf, Unpublished, BeforeLaunch
<1>5. CASE AwaitBirth(p)
  <2>1. call[p].at = "awaiting" /\ call'[p].at \in {"resting", "born", "settling"}
    BY <1>5, CallerFields DEF Shape, CallShape, AwaitBirth, Trouble, Goto, Confirmed
  <2> QED
    BY <2>1, <1>0 DEF Told, MoveOf, Unpublished, BeforeLaunch
<1>6. CASE TimeOut(p)
  <2>1. call[p].at = "awaiting" /\ call'[p].at \in {"awaiting", "resting", "born", "settling"}
    BY <1>6, CallerFields DEF Shape, CallShape, TimeOut, Grasp, Conclude, Trouble, Confirmed
  <2> QED
    BY <2>1, <1>0 DEF Told, MoveOf, Unpublished, BeforeLaunch
<1>7. CASE AwaitAsleep(p)
  <2>1. call[p].at = "resting" /\ call'[p].at \in {"born", "settling"}
    BY <1>7, CallerFields DEF Shape, CallShape, AwaitAsleep, Goto, Trouble
  <2> QED
    BY <2>1, <1>0 DEF Told, MoveOf, Unpublished, BeforeLaunch
<1>8. CASE Settle(p)
  <2>1. call[p].at = "settling" /\ call'[p].at \in {"born", "judging", "closing"}
    BY <1>8, CallerFields DEF Shape, CallShape, Settle, Goto, Outcome
  <2> QED
    BY <2>1, <1>0 DEF Told, MoveOf, Unpublished, BeforeLaunch
<1>9. CASE CloseBirth(p)
  <2>1. call[p].at = "closing" /\ call'[p].at \in {"closing", "born", "judging"}
    BY <1>9, CallerFields DEF Shape, CallShape, CloseBirth, Grasp, Conclude, Outcome
  <2> QED
    BY <2>1, <1>0 DEF Told, MoveOf, Unpublished, BeforeLaunch
<1>10. CASE Judge(p)
  <2>1. call[p].at = "judging" /\ call'[p].at \in {"ended", "dispatching"}
    BY <1>10, CallerFields DEF Shape, CallShape, Judge
  <2> QED
    BY <2>1, <1>0 DEF Told, MoveOf, Unpublished, BeforeLaunch
<1>11. CASE FirstTell(p)
  <2>1. call[p].at = "born" /\ call'[p].at \in {"dispatching", "waking"}
    BY <1>11, CallerFields DEF Shape, CallShape, FirstTell, Goto
  <2> QED
    BY <2>1, <1>0 DEF Told, MoveOf, Unpublished, BeforeLaunch
<1>12. CASE FirstWake(p)
  <2>1. call[p].at = "waking" /\ call'[p].at \in {"watching", "dispatching"}
    BY <1>12, CallerFields DEF Shape, CallShape, FirstWake, Goto
  <2> QED
    BY <2>1, <1>0 DEF Told, MoveOf, Unpublished, BeforeLaunch
<1>13. CASE Watch(p)
  <2>1. call[p].at = "watching" /\ call'[p].at = "dispatching"
    BY <1>13, CallerFields DEF Shape, CallShape, Watch
  <2> QED
    BY <2>1, <1>0 DEF Told, MoveOf, Unpublished, BeforeLaunch
<1>14. CASE Associate(p)
  <2>1. call[p].at = "dispatching" /\ call'[p].at \in {"naming", "seating"}
    BY <1>14, CallerFields DEF Shape, CallShape, Associate
  <2> QED
    BY <2>1, <1>0 DEF Told, MoveOf, Unpublished, BeforeLaunch
<1>15. CASE TakeSeat(p)
  <2>1. call[p].at = "seating" /\ call'[p].at \in {"publishing", "naming"}
    BY <1>15, CallerFields DEF Shape, CallShape, TakeSeat
  <2> QED
    BY <2>1, <1>0 DEF Told, MoveOf, Unpublished, BeforeLaunch
<1>16. CASE Publish(p)
  <2>1. call[p].at = "publishing" /\ call'[p].at = "reading back"
    BY <1>16, CallerFields DEF Shape, CallShape, Publish, Goto
  <2> QED
    BY <2>1, <1>0 DEF Told, MoveOf, Unpublished, BeforeLaunch
<1>17. CASE ReadBack(p)
  <2>1. call[p].at = "reading back" /\ call'[p].at = "naming"
    BY <1>17, CallerFields DEF Shape, CallShape, ReadBack
  <2> QED
    BY <2>1, <1>0 DEF Told, MoveOf, Unpublished, BeforeLaunch
<1>18. CASE TakeAliases(p)
  <2>1. call[p].at = "naming" /\ call'[p].at \in {"moving", "answering"} /\ alias' = alias
    BY <1>18, CallerFields DEF Shape, CallShape, TakeAliases, Goto
  <2>2. call'[p].at = "moving" => call'[p].seen = alias /\ call[p].ask.name # None
    BY <1>18, CallerFields DEF Shape, CallShape, TakeAliases, Goto, Wanted
  <2> QED
    BY <2>1, <2>2 DEF Told, MoveOf, Unpublished, BeforeLaunch
<1>19. CASE MoveAlias(p)
  <2>1. call[p].at = "moving" /\ call'[p].at = "answering"
    BY <1>19, CallerFields DEF Shape, CallShape, MoveAlias
  <2>2. call[p].ask.name \in Names
    BY <2>1 DEF MoveOf, Asks
  <2> QED
    BY <2>1, <2>2 DEF Told, MoveOf, Unpublished, BeforeLaunch
<1>20. CASE Answer(p)
  <2>1. call[p].at = "answering" /\ call'[p].at \in {"sweeping", "ended"}
    BY <1>20, CallerFields DEF Shape, CallShape, Answer
  <2> QED
    BY <2>1, <1>0 DEF Told, MoveOf, Unpublished, BeforeLaunch
<1>21. CASE LookForIdle(p)
  <2>1. call[p].at = "sweeping" /\ call'[p].at = "retiring"
    BY <1>21, CallerFields DEF Shape, CallShape, LookForIdle
  <2> QED
    BY <2>1, <1>0 DEF Told, MoveOf, Unpublished, BeforeLaunch
<1>22. CASE TakeCandidate(p)
  BY <1>22, CandidateTaken DEF Shape, Told, MoveOf, Unpublished, BeforeLaunch
<1>23. CASE GuardNames(p)
  <2>1. call[p].at = "guarding" /\ call'[p].at \in {"guarded", "retiring"}
    BY <1>23, CallerFields DEF Shape, CallShape, GuardNames, Goto, LetGo
  <2> QED
    BY <2>1, <1>0 DEF Told, MoveOf, Unpublished, BeforeLaunch
<1>24. CASE GuardDispatch(p)
  <2>1. call[p].at = "guarded" /\ call'[p].at \in {"judged", "retiring"}
    BY <1>24, CallerFields DEF Shape, CallShape, GuardDispatch, Goto, LetGo
  <2> QED
    BY <2>1, <1>0 DEF Told, MoveOf, Unpublished, BeforeLaunch
<1>25. CASE LastLook(p)
  <2>1. call[p].at = "judged" /\ call'[p].at \in {"removing", "retiring"}
    BY <1>25, CallerFields DEF Shape, CallShape, LastLook, Goto, LetGo
  <2> QED
    BY <2>1, <1>0 DEF Told, MoveOf, Unpublished, BeforeLaunch
<1>26. CASE RemoveLeash(p)
  <2>1. call[p].at = "removing" /\ call'[p].at = "removing heart"
    BY <1>26, CallerFields DEF Shape, CallShape, RemoveLeash, Goto, LetGo
  <2> QED
    BY <2>1, <1>0 DEF Told, MoveOf, Unpublished, BeforeLaunch
<1>27. CASE RemoveHeart(p)
  <2>1. call[p].at = "removing heart" /\ call'[p].at = "retiring"
    BY <1>27, CallerFields DEF Shape, CallShape, RemoveHeart, Goto, LetGo
  <2> QED
    BY <2>1, <1>0 DEF Told, MoveOf, Unpublished, BeforeLaunch
<1>28. CASE Allocate(p)
  <2>1. call[p].at = "idle" /\ call'[p].at = "allocated"
    BY <1>28, CallerFields DEF Shape, CallShape, Allocate, Goto
  <2> QED
    BY <2>1, <1>0 DEF Told, MoveOf, Unpublished, BeforeLaunch
<1>29. CASE Abort(p)
  <2>1. /\ call'[p].at = call[p].at /\ call'[p].named = call[p].named
        /\ call'[p].seen = call[p].seen /\ call'[p].ask = call[p].ask
    BY <1>29, CallerFields DEF Shape, CallShape, Abort
  <2>2. alias' = alias
    BY <1>29 DEF Abort
  <2> QED
    BY <2>1, <2>2 DEF MoveOf
<1>30. CASE Die(p)
  <2>1. call'[p].at = "dead" /\ call'[p].named = call[p].named
    BY <1>30, CallerFields DEF Shape, CallShape, Die
  <2> QED
    BY <2>1 DEF Told, MoveOf, Unpublished, BeforeLaunch
<1> QED
  BY <1>1, <1>2, <1>3, <1>4, <1>5, <1>6, <1>7, <1>8, <1>9, <1>10, <1>11, <1>12, <1>13, <1>14, <1>15, <1>16, <1>17,
     <1>18, <1>19, <1>20, <1>21, <1>22, <1>23, <1>24, <1>25, <1>26, <1>27, <1>28, <1>29, <1>30 DEF OwnStep, CallStep

(* A name goes from one caller that tried to move it to another.             *)
LEMMA MovesKept == Shape /\ Custody /\ Moves /\ [Next]_vars => Moves'
<1> SUFFICES ASSUME Shape, Custody, Moves, [Next]_vars PROVE Moves'
  OBVIOUS
<1>1. ASSUME call' = call, alias' = alias PROVE Moves'
  BY <1>1 DEF Moves, MoveOf, Reported
<1>2. ASSUME NEW p \in Callers, OwnStep(p) PROVE Moves'
  <2>1. Told(p) /\ \A q \in Callers \ {p} : call'[q] = call[q]
    BY <1>2, CallersLearn, CallersMindTheirOwn DEF Shape
  <2>2. \A q \in Callers : call'[q].ask = call[q].ask
    BY <2>1 DEF Told
  <2>3. MoveOf(p)'
    BY <1>2, <2>1, OwnMove DEF Moves
  <2>4. CASE call[p].at # "moving"
    <3>1. alias' = alias
      BY <1>2, <2>4, CallersNameTheirOwn DEF Shape, CallShape
    <3>2. \A q \in Callers : call'[q].named = call[q].named
      BY <2>1, <2>4 DEF Told
    <3>3. \A q \in Callers : Reported(q)'
      BY <2>2, <3>1, <3>2 DEF Moves, Reported
    <3>4. \A q \in Callers \ {p} : MoveOf(q)'
      BY <2>1, <3>1 DEF Moves, MoveOf
    <3> QED
      BY <2>3, <3>1, <3>3, <3>4 DEF Moves
  <2>5. CASE call[p].at = "moving"
    <3>1. MoveAlias(p) \/ (alias' = alias /\ \A q \in Callers : call'[q].named = call[q].named)
      <4>1. CASE MoveAlias(p)
        BY <4>1
      <4>2. CASE Abort(p)
        BY <2>1, <4>2, CallerFields DEF Abort, Shape, CallShape
      <4>3. CASE Die(p)
        BY <2>1, <4>3, CallerFields DEF Die, Shape, CallShape
      <4> QED
        BY <1>2, <2>5, <4>1, <4>2, <4>3 DEF OwnStep, CallStep, InitializeHeart, InitializeLeash, Launch, SealLocal,
           AwaitBirth, TimeOut, AwaitAsleep, Settle, CloseBirth, Judge, FirstTell, FirstWake, Watch, Associate,
           TakeSeat, Publish, ReadBack, TakeAliases, Answer, LookForIdle, TakeCandidate, GuardNames, GuardDispatch,
           LastLook, RemoveLeash, RemoveHeart, Allocate
    <3>2. call[p].named = "none" /\ call[p].seen = alias /\ call[p].ask.name \in Names
      BY <2>5 DEF Moves, MoveOf, Asks
    <3>3. CASE alias' = alias
      <4>1. \A q \in Callers \ {p} : MoveOf(q)'
        BY <2>1, <3>3 DEF Moves, MoveOf
      <4>2. \A q \in Callers : call[q].named # "none" => call'[q].named # "none"
        BY <2>1, <3>2
      <4>3. ASSUME NEW q \in Callers \ {p} PROVE Reported(q)'
        BY <2>1, <2>2, <3>3, <4>2, <4>3 DEF Moves, Reported
      <4>4. CASE call'[p].named # "aliased"
        BY <2>3, <3>3, <4>1, <4>3, <4>4 DEF Moves, Reported
      <4>5. CASE call'[p].named = "aliased"
        <5>1. alias' = [alias EXCEPT ![call[p].ask.name] = p]
          BY <3>1, <3>2, <4>5, CallerFields DEF MoveAlias, Shape, CallShape
        <5>2. alias'[call'[p].ask.name] = p
          BY <2>2, <3>2, <5>1 DEF Moves
        <5>3. Reported(p)'
          BY <4>5, <5>2 DEF Reported
        <5> QED
          BY <2>3, <3>3, <4>1, <4>3, <5>3 DEF Moves
      <4> QED
        BY <4>4, <4>5
    <3>4. CASE alias' = [alias EXCEPT ![call[p].ask.name] = p] /\ call'[p].named # "none"
      <4>1. ASSUME NEW q \in Callers \ {p} PROVE MoveOf(q)'
        <5>1. call[q].at # "moving"
          BY <2>5, <4>1 DEF Custody, CustodyOf
        <5> QED
          BY <2>1, <4>1, <5>1 DEF Moves, MoveOf
      <4>2. ASSUME NEW q \in Callers PROVE Reported(q)'
        <5>1. CASE call'[q].ask.name = call[p].ask.name
          <6>1. alias'[call'[q].ask.name] = p
            BY <3>2, <3>4, <5>1 DEF Moves
          <6> QED
            BY <2>2, <3>4, <5>1, <6>1 DEF Reported
        <5>2. CASE call'[q].ask.name # call[p].ask.name
          <6>1. q # p /\ call'[q] = call[q]
            BY <2>1, <2>2, <5>2
          <6>2. ASSUME call[q].named = "aliased"
                PROVE  \E r \in Callers : /\ alias'[call'[q].ask.name] = r
                                         /\ call'[r].ask.name = call'[q].ask.name /\ call'[r].named # "none"
            <7>1. PICK r \in Callers : /\ alias[call[q].ask.name] = r
                                       /\ call[r].ask.name = call[q].ask.name /\ call[r].named # "none"
              BY <6>2 DEF Moves, Reported
            <7>2. call[q].ask.name \in Names
              BY <6>2 DEF Moves, MoveOf
            <7>3. alias'[call'[q].ask.name] = r
              BY <3>4, <5>2, <6>1, <7>1, <7>2 DEF Moves
            <7>4. call'[r].ask.name = call'[q].ask.name /\ call'[r].named # "none"
              BY <2>1, <2>2, <3>4, <7>1
            <7> QED
              BY <7>3, <7>4
          <6> QED
            BY <6>1, <6>2 DEF Reported
        <5> QED
          BY <5>1, <5>2
      <4>3. DOMAIN alias' = Names
        BY <3>4 DEF Moves
      <4> QED
        BY <2>3, <4>1, <4>2, <4>3 DEF Moves
    <3>5. MoveAlias(p) =>
            alias' = alias \/ (alias' = [alias EXCEPT ![call[p].ask.name] = p] /\ call'[p].named # "none")
      BY <3>2, CallerFields DEF MoveAlias, Shape, CallShape
    <3> QED
      BY <3>1, <3>3, <3>4, <3>5
  <2> QED
    BY <2>4, <2>5
<1>3. ForeignStep => call' = call /\ alias' = alias
  <2>1. ForeignStep => call' = call
    BY WorldIsCalm DEF Shape, Calm
  <2>2. ForeignStep => alias' = alias
    BY DEF ForeignStep, HostStep, git, HostTakes, HostLooks, HostBears, HostWakes, HostRecords, HostDrives,
       HostReleases, HostFails, HostSeals, Unpeek, HostDies, Peek, RecordTell, WakeTold, GrowOld, EndContract,
       OrphanEnds
  <2> QED
    BY <2>1, <2>2
<1> QED
  BY <1>1, <1>2, <1>3, StepKinds DEF vars

(* So what a caller is told is so, for any number of callers, Akumas, names   *)
(* and Contracts (HonestCall).                                               *)
Honesty ==
    Places /\ Hosts /\ Launches /\ Custody /\ Verdicts /\ Seen /\ Stages /\ Orphanage /\ Moves
LEMMA HonestyKept == Shape /\ Fate /\ Honesty /\ [Next]_vars => Honesty'
<1> SUFFICES ASSUME Shape, Fate, Honesty, [Next]_vars PROVE Honesty'
  OBVIOUS
<1>1. Places' /\ Hosts' /\ Launches'
  BY PlacesKept, HostsKept, LaunchesKept DEF Honesty
<1>2. Custody' /\ Verdicts' /\ Seen'
  BY CustodyKept, VerdictsKept, SeenKept DEF Honesty, Shape, Fate
<1>3. Stages' /\ Orphanage' /\ Moves'
  BY StagesKept, OrphanageKept, MovesKept DEF Honesty
<1> QED
  BY <1>1, <1>2, <1>3 DEF Honesty

LEMMA HonestyTells == Honesty => HonestCall
<1> SUFFICES ASSUME Honesty PROVE HonestCall
  OBVIOUS
<1>1. TypeOK
  <2>1. \A p \in Callers : call[p].victim # None => holder[call[p].victim] = p
    BY DEF Honesty, Custody, CustodyOf
  <2> QED
    BY <2>1 DEF Honesty, Places, Hosts, Custody, TypeOK
<1>2. ASSUME NEW p \in Callers
      PROVE  /\ call[p].result \in {"called", "named"} => entry[p].soul
             /\ call[p].result = "failed" => call[p].yielded \/ entry[p].seal
             /\ call[p].result = "upstream" => call[p].yielded \/ entry[p].seal \/ entry[p].soul
  BY <1>2 DEF Honesty, Verdicts, VerdictOf
<1>3. ASSUME NEW p \in Callers
      PROVE  /\ call[p].stage = "dispatched" => dispatch[p] = call[p].contract
             /\ call[p].stage = "failed" => dispatch[p] = None
             /\ call[p].stage = "thrown" =>
                  dispatch[p] = None \/ (call[p].cause = "killed" /\ dispatch[p] = call[p].contract)
  BY <1>3 DEF Honesty, Stages, StageOf
<1>4. ASSUME NEW p \in Callers
      PROVE  call[p].named = "aliased" => \E q \in Callers :
               alias[call[p].ask.name] = q /\ call[q].ask.name = call[p].ask.name /\ call[q].named # "none"
  BY <1>4 DEF Honesty, Moves, Reported
<1> QED
  BY <1>1, <1>2, <1>3, <1>4 DEF HonestCall

(* What a call or a fork was told of birth, Dispatch and name is so in every  *)
(* state, as far as it can be known: after an exception a Dispatch may be     *)
(* there or not, and a name may be another caller's that was told of a        *)
(* failed move (akuma/publication.ts, publishPreparedCall; dispatch/index.ts, *)
(* publishDispatch; alias/index.ts, moveAlias).                              *)
THEOREM CallersAreToldTheTruth == Spec => []HonestCall
<1> DEFINE Inv == Shape /\ Fate /\ Honesty
<1>1. Init => Inv
  BY ShapeAtFirst, FateAtFirst, HonestAtFirst DEF Honesty
<1>2. Inv /\ [Next]_vars => Inv'
  <2> SUFFICES ASSUME Inv, [Next]_vars PROVE Inv'
    OBVIOUS
  <2>1. Shape'
    BY ShapeKept
  <2>2. Fate'
    BY SeatingKept, OwnLeashKept, FateKept, LookedKept DEF Shape, Fate
  <2> QED
    BY <2>1, <2>2, HonestyKept
<1>3. Inv => HonestCall
  BY HonestyTells
<1> QED
  BY <1>1, <1>2, <1>3, PTL DEF Spec

-----------------------------------------------------------------------------
(* What is retired                                                           *)

(* Only what may grow old does; where a ref transaction may outlive its       *)
(* caller, no caller's child does.                                           *)
Aging == \A a \in Akumas : entry[a].aged => a \in scene.aging
Mortality == (scene.left["death"] = 0 /\ orphans = {}) \/ scene.aging \cap Callers = {}

(* Who is not launched has no place that could be taken from it.             *)
Freshness == \A p \in Callers : call[p].at \in {"idle", "allocated"} => entry[p].place # "ready"

(* Each judgment of a retirement stands until the entry is gone.             *)
JudgmentOf(p) ==
    LET a == call[p].victim IN
    /\ call[p].at \in Retiring => entry[a].soul /\ a \in scene.aging
    /\ call[p].at \in Guards => Unnamed(a)
    /\ call[p].at \in Guards \ {"guarded"} => Detached(a)
    /\ call[p].at = "removing" => Settled(a) /\ (entry[a].pending => entry[a].late)
    /\ call[p].at = "removing heart" => entry[a].place # "ready"
Judgments == \A p \in Callers : JudgmentOf(p)
Retirement == Aging /\ Mortality /\ Freshness /\ Judgments

LEMMA RetirementAtFirst == Init => Retirement
<1> SUFFICES ASSUME NEW s \in Scenarios,
                    scene = [left |-> s.left, aging |-> s.aging],
                    entry = [a \in Akumas |-> IF a \in Elders \/ s.from[a] = "born" THEN Entry("ready", TRUE)
                                              ELSE Entry("none", FALSE)],
                    call = [p \in Callers |-> NewCall(s.from[p], s.asks[p])],
                    orphans = {}
             PROVE  Retirement
  BY DEF Init
<1>1. \A p \in Callers : s.from[p] \in {"idle", "born"}
  BY ScenariosAssumption DEF Scenes
<1>2. \A p \in Callers : call[p].at = s.from[p]
  BY DEF NewCall
<1>3. Aging
  BY DEF Aging, Entry
<1>4. Mortality
  BY ScenariosAssumption DEF Mortality
<1>5. Freshness
  <2>1. ASSUME NEW p \in Callers, s.from[p] # "born" PROVE entry[p].place = "none"
    BY <2>1, CallsAssumption DEF Akumas, Entry
  <2> QED
    BY <1>2, <2>1 DEF Freshness
<1>6. Judgments
  BY <1>1, <1>2 DEF Judgments, JudgmentOf, Retiring, Guards
<1> QED
  BY <1>3, <1>4, <1>5, <1>6 DEF Retirement

(* Who may grow old is settled from the start, and where nobody may die       *)
(* nobody does.                                                              *)
SceneStays ==
    /\ scene'.aging = scene.aging
    /\ scene.left["death"] = 0 => scene'.left["death"] = 0

(* Troubles are spent, and nothing else of the scene changes.                *)
LEMMA SceneKept == Shape /\ [Next]_vars => SceneStays
<1> SUFFICES ASSUME Shape, [Next]_vars PROVE SceneStays
  OBVIOUS
<1>1. ASSUME NEW a \in Akumas, HostStep(a) PROVE SceneStays
  <2>1. CASE HostTakes(a)
    BY <2>1 DEF Shape, Kinds, SceneStays, git, HostTakes
  <2>2. CASE HostLooks(a)
    BY <2>2 DEF Shape, Kinds, SceneStays, git, HostLooks
  <2>3. CASE HostBears(a)
    BY <2>3 DEF Shape, Kinds, SceneStays, git, HostBears
  <2>4. CASE HostWakes(a)
    BY <2>4 DEF Shape, Kinds, SceneStays, git, HostWakes
  <2>5. CASE HostRecords(a)
    BY <2>5 DEF Shape, Kinds, SceneStays, git, HostRecords
  <2>6. CASE HostDrives(a)
    BY <2>6 DEF Shape, Kinds, SceneStays, git, HostDrives, Spend
  <2>7. CASE HostReleases(a)
    BY <2>7 DEF Shape, Kinds, SceneStays, git, HostReleases
  <2>8. CASE HostFails(a)
    BY <2>8 DEF Shape, Kinds, SceneStays, git, HostFails, Spend
  <2>9. CASE HostSeals(a)
    BY <2>9 DEF Shape, Kinds, SceneStays, git, HostSeals
  <2> QED
    BY <1>1, <2>1, <2>2, <2>3, <2>4, <2>5, <2>6, <2>7, <2>8, <2>9 DEF HostStep
<1>2. ASSUME NEW p \in Callers, CallStep(p) PROVE SceneStays
  <2>1. CASE InitializeHeart(p)
    BY <2>1 DEF Shape, Kinds, SceneStays, git, InitializeHeart
  <2>2. CASE InitializeLeash(p)
    BY <2>2 DEF Shape, Kinds, SceneStays, git, InitializeLeash, Spend
  <2>3. CASE Launch(p)
    BY <2>3 DEF Shape, Kinds, SceneStays, git, Launch, Spend
  <2>4. CASE SealLocal(p)
    BY <2>4 DEF Shape, Kinds, SceneStays, git, SealLocal
  <2>5. CASE AwaitBirth(p)
    BY <2>5 DEF Shape, Kinds, SceneStays, git, AwaitBirth
  <2>6. CASE TimeOut(p)
    BY <2>6 DEF Shape, Kinds, SceneStays, git, TimeOut
  <2>7. CASE AwaitAsleep(p)
    BY <2>7 DEF Shape, Kinds, SceneStays, git, AwaitAsleep
  <2>8. CASE Settle(p)
    BY <2>8 DEF Shape, Kinds, SceneStays, git, Settle
  <2>9. CASE CloseBirth(p)
    BY <2>9 DEF Shape, Kinds, SceneStays, git, CloseBirth
  <2>10. CASE Judge(p)
    BY <2>10 DEF Shape, Kinds, SceneStays, git, Judge
  <2>11. CASE FirstTell(p)
    BY <2>11 DEF Shape, Kinds, SceneStays, git, FirstTell
  <2>12. CASE FirstWake(p)
    BY <2>12 DEF Shape, Kinds, SceneStays, git, FirstWake
  <2>13. CASE Watch(p)
    BY <2>13 DEF Shape, Kinds, SceneStays, git, Watch
  <2>14. CASE Associate(p)
    BY <2>14 DEF Shape, Kinds, SceneStays, git, Associate, Spend
  <2>15. CASE TakeSeat(p)
    BY <2>15 DEF Shape, Kinds, SceneStays, git, TakeSeat
  <2>16. CASE Publish(p)
    BY <2>16 DEF Shape, Kinds, SceneStays, git, Publish, Spend
  <2>17. CASE ReadBack(p)
    BY <2>17 DEF Shape, Kinds, SceneStays, git, ReadBack
  <2>18. CASE TakeAliases(p)
    BY <2>18 DEF Shape, Kinds, SceneStays, git, TakeAliases
  <2>19. CASE MoveAlias(p)
    BY <2>19 DEF Shape, Kinds, SceneStays, git, MoveAlias, Spend
  <2>20. CASE Answer(p)
    BY <2>20 DEF Shape, Kinds, SceneStays, git, Answer
  <2>21. CASE LookForIdle(p)
    BY <2>21 DEF Shape, Kinds, SceneStays, git, LookForIdle
  <2>22. CASE TakeCandidate(p)
    BY <2>22 DEF Shape, Kinds, SceneStays, git, TakeCandidate
  <2>23. CASE GuardNames(p)
    BY <2>23 DEF Shape, Kinds, SceneStays, git, GuardNames
  <2>24. CASE GuardDispatch(p)
    BY <2>24 DEF Shape, Kinds, SceneStays, git, GuardDispatch
  <2>25. CASE LastLook(p)
    BY <2>25 DEF Shape, Kinds, SceneStays, git, LastLook
  <2>26. CASE RemoveLeash(p)
    BY <2>26 DEF Shape, Kinds, SceneStays, git, RemoveLeash
  <2>27. CASE RemoveHeart(p)
    BY <2>27 DEF Shape, Kinds, SceneStays, git, RemoveHeart
  <2> QED
    BY <1>2, <2>1, <2>2, <2>3, <2>4, <2>5, <2>6, <2>7, <2>8, <2>9, <2>10, <2>11, <2>12, <2>13, <2>14, <2>15, <2>16,
       <2>17, <2>18, <2>19, <2>20, <2>21, <2>22, <2>23, <2>24, <2>25, <2>26, <2>27 DEF CallStep
<1>3. CASE World
  <2>1. ASSUME NEW p \in Callers, Allocate(p) PROVE SceneStays
    BY <2>1 DEF Shape, Kinds, SceneStays, git, Allocate
  <2>2. ASSUME NEW p \in Callers, Abort(p) PROVE SceneStays
    BY <2>2 DEF Shape, Kinds, SceneStays, git, Abort, Spend
  <2>3. ASSUME NEW p \in Callers, Die(p) PROVE SceneStays
    BY <2>3 DEF Shape, Kinds, SceneStays, git, Die, Spend
  <2>4. ASSUME NEW o \in orphans, OrphanEnds(o) PROVE SceneStays
    BY <2>4 DEF Shape, Kinds, SceneStays, git, OrphanEnds
  <2>5. ASSUME NEW a \in Akumas, HostDies(a) PROVE SceneStays
    BY <2>5 DEF Shape, Kinds, SceneStays, git, HostDies, Spend
  <2>6. ASSUME NEW a \in Akumas, Peek(a) PROVE SceneStays
    BY <2>6 DEF Shape, Kinds, SceneStays, git, Peek, Spend
  <2>7. ASSUME NEW a \in Akumas, RecordTell(a) PROVE SceneStays
    BY <2>7 DEF Shape, Kinds, SceneStays, git, RecordTell, Spend
  <2>8. ASSUME NEW a \in Akumas, WakeTold(a) PROVE SceneStays
    BY <2>8 DEF Shape, Kinds, SceneStays, git, WakeTold, Spend
  <2>9. ASSUME NEW a \in Akumas, GrowOld(a) PROVE SceneStays
    BY <2>9 DEF Shape, Kinds, SceneStays, git, GrowOld
  <2>10. ASSUME NEW c \in Contracts, EndContract(c) PROVE SceneStays
    BY <2>10 DEF Shape, Kinds, SceneStays, git, EndContract, Spend
  <2> QED
    BY <1>3, <2>1, <2>2, <2>3, <2>4, <2>5, <2>6, <2>7, <2>8, <2>9, <2>10 DEF World
<1>4. ASSUME NEW a \in Akumas, Unpeek(a) PROVE SceneStays
  BY <1>4 DEF Shape, Kinds, SceneStays, git, Unpeek
<1>5. CASE UNCHANGED vars
  BY <1>5 DEF Shape, Kinds, SceneStays, git, vars
<1> QED
  BY <1>1, <1>2, <1>3, <1>4, <1>5 DEF Next

(* Nothing grows old but what may.                                           *)
LEMMA AgingKept == Shape /\ Aging /\ [Next]_vars => Aging'
<1> SUFFICES ASSUME Shape, Aging, [Next]_vars PROVE Aging'
  OBVIOUS
<1>0. scene'.aging = scene.aging
  BY SceneKept DEF SceneStays
<1>1. ASSUME NEW a \in Akumas, HostStep(a) PROVE Aging'
  <2>1. CASE HostTakes(a)
    BY <2>1, <1>0 DEF Shape, EntryFields, Aging, HostTakes
  <2>2. CASE HostLooks(a)
    BY <2>2, <1>0 DEF Shape, EntryFields, Aging, HostLooks
  <2>3. CASE HostBears(a)
    BY <2>3, <1>0 DEF Shape, EntryFields, Aging, HostBears
  <2>4. CASE HostWakes(a)
    BY <2>4, <1>0 DEF Shape, EntryFields, Aging, HostWakes
  <2>5. CASE HostRecords(a)
    BY <2>5, <1>0 DEF Shape, EntryFields, Aging, HostRecords
  <2>6. CASE HostDrives(a)
    BY <2>6, <1>0 DEF Shape, EntryFields, Aging, HostDrives
  <2>7. CASE HostReleases(a)
    BY <2>7, <1>0 DEF Shape, EntryFields, Aging, HostReleases
  <2>8. CASE HostFails(a)
    BY <2>8, <1>0 DEF Shape, EntryFields, Aging, HostFails
  <2>9. CASE HostSeals(a)
    BY <2>9, <1>0 DEF Shape, EntryFields, Aging, HostSeals, Sealed
  <2> QED
    BY <1>1, <2>1, <2>2, <2>3, <2>4, <2>5, <2>6, <2>7, <2>8, <2>9 DEF HostStep
<1>2. ASSUME NEW p \in Callers, CallStep(p) PROVE Aging'
  <2>1. CASE InitializeHeart(p)
    BY <2>1, <1>0 DEF Shape, EntryFields, Aging, InitializeHeart
  <2>2. CASE InitializeLeash(p)
    BY <2>2, <1>0 DEF Shape, EntryFields, Aging, InitializeLeash
  <2>3. CASE Launch(p)
    BY <2>3, <1>0 DEF Shape, EntryFields, Aging, Launch
  <2>4. CASE SealLocal(p)
    BY <2>4, <1>0 DEF Shape, EntryFields, Aging, SealLocal, Conclude, Sealed
  <2>5. CASE AwaitBirth(p)
    BY <2>5, <1>0 DEF Shape, EntryFields, Aging, AwaitBirth
  <2>6. CASE TimeOut(p)
    BY <2>6, <1>0 DEF Shape, EntryFields, Aging, TimeOut, Conclude, Sealed
  <2>7. CASE AwaitAsleep(p)
    BY <2>7, <1>0 DEF Shape, EntryFields, Aging, AwaitAsleep
  <2>8. CASE Settle(p)
    BY <2>8, <1>0 DEF Shape, EntryFields, Aging, Settle
  <2>9. CASE CloseBirth(p)
    BY <2>9, <1>0 DEF Shape, EntryFields, Aging, CloseBirth, Conclude, Sealed
  <2>10. CASE Judge(p)
    BY <2>10, <1>0 DEF Shape, EntryFields, Aging, Judge
  <2>11. CASE FirstTell(p)
    BY <2>11, <1>0 DEF Shape, EntryFields, Aging, FirstTell
  <2>12. CASE FirstWake(p)
    BY <2>12, <1>0 DEF Shape, EntryFields, Aging, FirstWake
  <2>13. CASE Watch(p)
    BY <2>13, <1>0 DEF Shape, EntryFields, Aging, Watch
  <2>14. CASE Associate(p)
    BY <2>14, <1>0 DEF Shape, EntryFields, Aging, Associate
  <2>15. CASE TakeSeat(p)
    BY <2>15, <1>0 DEF Shape, EntryFields, Aging, TakeSeat
  <2>16. CASE Publish(p)
    BY <2>16, <1>0 DEF Shape, EntryFields, Aging, Publish
  <2>17. CASE ReadBack(p)
    BY <2>17, <1>0 DEF Shape, EntryFields, Aging, ReadBack
  <2>18. CASE TakeAliases(p)
    BY <2>18, <1>0 DEF Shape, EntryFields, Aging, TakeAliases
  <2>19. CASE MoveAlias(p)
    BY <2>19, <1>0 DEF Shape, EntryFields, Aging, MoveAlias
  <2>20. CASE Answer(p)
    BY <2>20, <1>0 DEF Shape, EntryFields, Aging, Answer
  <2>21. CASE LookForIdle(p)
    BY <2>21, <1>0 DEF Shape, EntryFields, Aging, LookForIdle
  <2>22. CASE TakeCandidate(p)
    BY <2>22, <1>0 DEF Shape, EntryFields, Aging, TakeCandidate
  <2>23. CASE GuardNames(p)
    BY <2>23, <1>0 DEF Shape, EntryFields, Aging, GuardNames
  <2>24. CASE GuardDispatch(p)
    BY <2>24, <1>0 DEF Shape, EntryFields, Aging, GuardDispatch
  <2>25. CASE LastLook(p)
    BY <2>25, <1>0 DEF Shape, EntryFields, Aging, LastLook
  <2>26. CASE RemoveLeash(p)
    BY <2>26, <1>0 DEF Shape, EntryFields, Aging, RemoveLeash
  <2>27. CASE RemoveHeart(p)
    BY <2>27, <1>0 DEF Shape, EntryFields, Aging, RemoveHeart
  <2> QED
    BY <1>2, <2>1, <2>2, <2>3, <2>4, <2>5, <2>6, <2>7, <2>8, <2>9, <2>10, <2>11, <2>12, <2>13, <2>14, <2>15, <2>16,
       <2>17, <2>18, <2>19, <2>20, <2>21, <2>22, <2>23, <2>24, <2>25, <2>26, <2>27 DEF CallStep
<1>3. CASE World
  <2>1. ASSUME NEW p \in Callers, Allocate(p) PROVE Aging'
    BY <2>1, <1>0 DEF Shape, EntryFields, Aging, Allocate
  <2>2. ASSUME NEW p \in Callers, Abort(p) PROVE Aging'
    BY <2>2, <1>0 DEF Shape, EntryFields, Aging, Abort
  <2>3. ASSUME NEW p \in Callers, Die(p) PROVE Aging'
    BY <2>3, <1>0 DEF Shape, EntryFields, Aging, Die
  <2>4. ASSUME NEW o \in orphans, OrphanEnds(o) PROVE Aging'
    BY <2>4, <1>0 DEF Shape, EntryFields, Aging, OrphanEnds
  <2>5. ASSUME NEW a \in Akumas, HostDies(a) PROVE Aging'
    BY <2>5, <1>0 DEF Shape, EntryFields, Aging, HostDies
  <2>6. ASSUME NEW a \in Akumas, Peek(a) PROVE Aging'
    BY <2>6, <1>0 DEF Shape, EntryFields, Aging, Peek
  <2>7. ASSUME NEW a \in Akumas, RecordTell(a) PROVE Aging'
    BY <2>7, <1>0 DEF Shape, EntryFields, Aging, RecordTell
  <2>8. ASSUME NEW a \in Akumas, WakeTold(a) PROVE Aging'
    BY <2>8, <1>0 DEF Shape, EntryFields, Aging, WakeTold
  <2>9. ASSUME NEW a \in Akumas, GrowOld(a) PROVE Aging'
    BY <2>9, <1>0 DEF Shape, EntryFields, Aging, GrowOld
  <2>10. ASSUME NEW c \in Contracts, EndContract(c) PROVE Aging'
    BY <2>10, <1>0 DEF Shape, EntryFields, Aging, EndContract
  <2> QED
    BY <1>3, <2>1, <2>2, <2>3, <2>4, <2>5, <2>6, <2>7, <2>8, <2>9, <2>10 DEF World
<1>4. ASSUME NEW a \in Akumas, Unpeek(a) PROVE Aging'
  BY <1>4, <1>0 DEF Shape, EntryFields, Aging, Unpeek
<1>5. CASE UNCHANGED vars
  BY <1>5, <1>0 DEF Shape, EntryFields, Aging, vars, git
<1> QED
  BY <1>1, <1>2, <1>3, <1>4, <1>5 DEF Next

(* Only a death leaves a ref transaction behind.                             *)
LEMMA MortalityKept == Shape /\ Mortality /\ [Next]_vars => Mortality'
<1> SUFFICES ASSUME Shape, Mortality, [Next]_vars PROVE Mortality'
  OBVIOUS
<1>1. ASSUME orphans' \subseteq orphans PROVE Mortality'
  BY <1>1, SceneKept DEF Mortality, SceneStays
<1>2. ASSUME NEW p \in Callers, Die(p) PROVE Mortality'
  <2>1. scene.left["death"] # 0
    BY <1>2 DEF Die, Spend
  <2> QED
    BY <2>1, SceneKept DEF Mortality, SceneStays
<1>3. ASSUME NEW p \in Callers, OwnStep(p) PROVE Die(p) \/ orphans' = orphans
  BY <1>3 DEF OwnStep, CallStep, git, InitializeHeart, InitializeLeash, Launch, SealLocal, AwaitBirth, TimeOut,
     AwaitAsleep, Settle, CloseBirth, Judge, FirstTell, FirstWake, Watch, Associate, TakeSeat, Publish, ReadBack,
     TakeAliases, MoveAlias, Answer, LookForIdle, TakeCandidate, GuardNames, GuardDispatch, LastLook, RemoveLeash,
     RemoveHeart, Allocate, Abort
<1>4. ForeignStep => orphans' \subseteq orphans
  BY DEF ForeignStep, HostStep, git, HostTakes, HostLooks, HostBears, HostWakes, HostRecords, HostDrives,
     HostReleases, HostFails, HostSeals, Unpeek, HostDies, Peek, RecordTell, WakeTold, GrowOld, EndContract,
     OrphanEnds
<1> QED
  BY <1>1, <1>2, <1>3, <1>4, StepKinds DEF vars, git

(* A place is ready once its leash is there.                                 *)
LEMMA FreshnessKept == Shape /\ Freshness /\ [Next]_vars => Freshness'
<1> SUFFICES ASSUME Shape, Freshness, [Next]_vars PROVE Freshness'
  OBVIOUS
<1>1. ASSUME NEW a \in Akumas, HostStep(a) PROVE Freshness'
  <2>1. CASE HostTakes(a)
    BY <2>1, CallerFields DEF Shape, CallShape, EntryFields, Freshness, Akumas, HostTakes
  <2>2. CASE HostLooks(a)
    BY <2>2, CallerFields DEF Shape, CallShape, EntryFields, Freshness, Akumas, HostLooks
  <2>3. CASE HostBears(a)
    BY <2>3, CallerFields DEF Shape, CallShape, EntryFields, Freshness, Akumas, HostBears
  <2>4. CASE HostWakes(a)
    BY <2>4, CallerFields DEF Shape, CallShape, EntryFields, Freshness, Akumas, HostWakes
  <2>5. CASE HostRecords(a)
    BY <2>5, CallerFields DEF Shape, CallShape, EntryFields, Freshness, Akumas, HostRecords
  <2>6. CASE HostDrives(a)
    BY <2>6, CallerFields DEF Shape, CallShape, EntryFields, Freshness, Akumas, HostDrives
  <2>7. CASE HostReleases(a)
    BY <2>7, CallerFields DEF Shape, CallShape, EntryFields, Freshness, Akumas, HostReleases
  <2>8. CASE HostFails(a)
    BY <2>8, CallerFields DEF Shape, CallShape, EntryFields, Freshness, Akumas, HostFails
  <2>9. CASE HostSeals(a)
    BY <2>9, CallerFields DEF Shape, CallShape, EntryFields, Freshness, Akumas, HostSeals, Sealed
  <2> QED
    BY <1>1, <2>1, <2>2, <2>3, <2>4, <2>5, <2>6, <2>7, <2>8, <2>9 DEF HostStep
<1>2. ASSUME NEW p \in Callers, CallStep(p) PROVE Freshness'
  <2>1. CASE InitializeHeart(p)
    BY <2>1, CallerFields DEF Shape, CallShape, EntryFields, Freshness, Akumas, InitializeHeart, Goto
  <2>2. CASE InitializeLeash(p)
    BY <2>2, CallerFields DEF Shape, CallShape, EntryFields, Freshness, Akumas, InitializeLeash, Goto
  <2>3. CASE Launch(p)
    BY <2>3, CallerFields DEF Shape, CallShape, EntryFields, Freshness, Akumas, Launch, Goto
  <2>4. CASE SealLocal(p)
    BY <2>4, CallerFields DEF Shape, CallShape, EntryFields, Freshness, Akumas, SealLocal, Grasp, Conclude, Sealed
  <2>5. CASE AwaitBirth(p)
    BY <2>5, CallerFields DEF Shape, CallShape, EntryFields, Freshness, Akumas, AwaitBirth, Trouble, Goto, Confirmed
  <2>6. CASE TimeOut(p)
    BY <2>6, CallerFields DEF Shape, CallShape, EntryFields, Freshness, Akumas, TimeOut, Grasp, Conclude, Sealed,
       Trouble, Confirmed
  <2>7. CASE AwaitAsleep(p)
    BY <2>7, CallerFields DEF Shape, CallShape, EntryFields, Freshness, Akumas, AwaitAsleep, Goto, Trouble
  <2>8. CASE Settle(p)
    BY <2>8, CallerFields DEF Shape, CallShape, EntryFields, Freshness, Akumas, Settle, Goto, Outcome
  <2>9. CASE CloseBirth(p)
    BY <2>9, CallerFields DEF Shape, CallShape, EntryFields, Freshness, Akumas, CloseBirth, Grasp, Conclude,
       Sealed, Outcome
  <2>10. CASE Judge(p)
    BY <2>10, CallerFields DEF Shape, CallShape, EntryFields, Freshness, Akumas, Judge
  <2>11. CASE FirstTell(p)
    BY <2>11, CallerFields DEF Shape, CallShape, EntryFields, Freshness, Akumas, FirstTell, Goto
  <2>12. CASE FirstWake(p)
    BY <2>12, CallerFields DEF Shape, CallShape, EntryFields, Freshness, Akumas, FirstWake, Goto
  <2>13. CASE Watch(p)
    BY <2>13, CallerFields DEF Shape, CallShape, EntryFields, Freshness, Akumas, Watch
  <2>14. CASE Associate(p)
    BY <2>14, CallerFields DEF Shape, CallShape, EntryFields, Freshness, Akumas, Associate
  <2>15. CASE TakeSeat(p)
    BY <2>15, CallerFields DEF Shape, CallShape, EntryFields, Freshness, Akumas, TakeSeat
  <2>16. CASE Publish(p)
    <3>1. entry' = entry /\ call'[p].at = "reading back" /\ \A q \in Callers \ {p} : call'[q] = call[q]
      BY <2>16, CallerFields DEF Shape, CallShape, Publish, Goto
    <3> QED
      BY <3>1 DEF Freshness
  <2>17. CASE ReadBack(p)
    <3>1. entry' = entry /\ call'[p].at = "naming" /\ \A q \in Callers \ {p} : call'[q] = call[q]
      BY <2>17, CallerFields DEF Shape, CallShape, ReadBack
    <3> QED
      BY <3>1 DEF Freshness
  <2>18. CASE TakeAliases(p)
    BY <2>18, CallerFields DEF Shape, CallShape, EntryFields, Freshness, Akumas, TakeAliases, Goto
  <2>19. CASE MoveAlias(p)
    BY <2>19, CallerFields DEF Shape, CallShape, EntryFields, Freshness, Akumas, MoveAlias
  <2>20. CASE Answer(p)
    BY <2>20, CallerFields DEF Shape, CallShape, EntryFields, Freshness, Akumas, Answer
  <2>21. CASE LookForIdle(p)
    BY <2>21, CallerFields DEF Shape, CallShape, EntryFields, Freshness, Akumas, LookForIdle
  <2>22. CASE TakeCandidate(p)
    <3>1. entry' = entry /\ \A q \in Callers \ {p} : call'[q] = call[q]
      BY <2>22, CallersMindTheirOwn DEF Shape, TakeCandidate, OwnStep, CallStep
    <3> QED
      BY <2>22, <3>1, CandidateTaken DEF Shape, Freshness
  <2>23. CASE GuardNames(p)
    BY <2>23, CallerFields DEF Shape, CallShape, EntryFields, Freshness, Akumas, GuardNames, Goto, LetGo
  <2>24. CASE GuardDispatch(p)
    BY <2>24, CallerFields DEF Shape, CallShape, EntryFields, Freshness, Akumas, GuardDispatch, Goto, LetGo
  <2>25. CASE LastLook(p)
    BY <2>25, CallerFields DEF Shape, CallShape, EntryFields, Freshness, Akumas, LastLook, Goto, LetGo
  <2>26. CASE RemoveLeash(p)
    BY <2>26, CallerFields DEF Shape, CallShape, EntryFields, Freshness, Akumas, RemoveLeash, Goto, LetGo
  <2>27. CASE RemoveHeart(p)
    BY <2>27, CallerFields DEF Shape, CallShape, EntryFields, Freshness, Akumas, RemoveHeart, Goto, LetGo
  <2> QED
    BY <1>2, <2>1, <2>2, <2>3, <2>4, <2>5, <2>6, <2>7, <2>8, <2>9, <2>10, <2>11, <2>12, <2>13, <2>14, <2>15, <2>16,
       <2>17, <2>18, <2>19, <2>20, <2>21, <2>22, <2>23, <2>24, <2>25, <2>26, <2>27 DEF CallStep
<1>3. CASE World
  <2>1. ASSUME NEW p \in Callers, Allocate(p) PROVE Freshness'
    BY <2>1, CallerFields DEF Shape, CallShape, EntryFields, Freshness, Akumas, Allocate, Goto
  <2>2. ASSUME NEW p \in Callers, Abort(p) PROVE Freshness'
    BY <2>2, CallerFields DEF Shape, CallShape, EntryFields, Freshness, Akumas, Abort
  <2>3. ASSUME NEW p \in Callers, Die(p) PROVE Freshness'
    BY <2>3, CallerFields DEF Shape, CallShape, EntryFields, Freshness, Akumas, Die
  <2>4. ASSUME NEW o \in orphans, OrphanEnds(o) PROVE Freshness'
    BY <2>4, CallerFields DEF Shape, CallShape, EntryFields, Freshness, Akumas, OrphanEnds
  <2>5. ASSUME NEW a \in Akumas, HostDies(a) PROVE Freshness'
    BY <2>5, CallerFields DEF Shape, CallShape, EntryFields, Freshness, Akumas, HostDies
  <2>6. ASSUME NEW a \in Akumas, Peek(a) PROVE Freshness'
    BY <2>6, CallerFields DEF Shape, CallShape, EntryFields, Freshness, Akumas, Peek
  <2>7. ASSUME NEW a \in Akumas, RecordTell(a) PROVE Freshness'
    BY <2>7, CallerFields DEF Shape, CallShape, EntryFields, Freshness, Akumas, RecordTell
  <2>8. ASSUME NEW a \in Akumas, WakeTold(a) PROVE Freshness'
    BY <2>8, CallerFields DEF Shape, CallShape, EntryFields, Freshness, Akumas, WakeTold
  <2>9. ASSUME NEW a \in Akumas, GrowOld(a) PROVE Freshness'
    BY <2>9, CallerFields DEF Shape, CallShape, EntryFields, Freshness, Akumas, GrowOld
  <2>10. ASSUME NEW c \in Contracts, EndContract(c) PROVE Freshness'
    BY <2>10, CallerFields DEF Shape, CallShape, EntryFields, Freshness, Akumas, EndContract
  <2> QED
    BY <1>3, <2>1, <2>2, <2>3, <2>4, <2>5, <2>6, <2>7, <2>8, <2>9, <2>10 DEF World
<1>4. ASSUME NEW a \in Akumas, Unpeek(a) PROVE Freshness'
  BY <1>4, CallerFields DEF Shape, CallShape, EntryFields, Freshness, Akumas, Unpeek
<1>5. CASE UNCHANGED vars
  BY <1>5, CallerFields DEF Shape, CallShape, EntryFields, Freshness, Akumas, vars, git
<1> QED
  BY <1>1, <1>2, <1>3, <1>4, <1>5 DEF Next

(* Whose leash another caller holds rests.                                   *)
Rests(a) ==
    /\ entry'[a].place = entry[a].place /\ entry'[a].soul = entry[a].soul /\ entry'[a].body = entry[a].body
    /\ entry'[a].pending = entry[a].pending /\ entry'[a].late = entry[a].late

(* A caller changes its own child, which it has not launched or whose leash   *)
(* is free or its own, or an entry whose leash it holds.                     *)
LEMMA OthersRest ==
  ASSUME NEW p \in Callers, Shape, Launches, CustodyOf(p), OwnStep(p)
  PROVE  \A a \in Akumas : holder[a] \in Callers \ {p} /\ entry[a].soul => Rests(a)
<1>1. CASE InitializeHeart(p)
  BY <1>1, CallerLocks DEF Shape, EntryFields, Rests, Akumas, Launches, BeforeLaunch, InitializeHeart
<1>2. CASE InitializeLeash(p)
  BY <1>2, CallerLocks DEF Shape, EntryFields, Rests, Akumas, Launches, BeforeLaunch, InitializeLeash
<1>3. CASE Launch(p)
  BY <1>3, CallerLocks DEF Shape, EntryFields, Rests, Akumas, Launch
<1>4. CASE SealLocal(p)
  BY <1>4, CallerLocks DEF Shape, EntryFields, Rests, Akumas, SealLocal, Sealed, Conclude
<1>5. CASE AwaitBirth(p)
  BY <1>5, CallerLocks DEF Shape, EntryFields, Rests, Akumas, AwaitBirth
<1>6. CASE TimeOut(p)
  BY <1>6, CallerLocks DEF Shape, EntryFields, Rests, Akumas, TimeOut, Sealed, Conclude
<1>7. CASE AwaitAsleep(p)
  BY <1>7, CallerLocks DEF Shape, EntryFields, Rests, Akumas, AwaitAsleep
<1>8. CASE Settle(p)
  BY <1>8, CallerLocks DEF Shape, EntryFields, Rests, Akumas, Settle
<1>9. CASE CloseBirth(p)
  BY <1>9, CallerLocks DEF Shape, EntryFields, Rests, Akumas, CloseBirth, Sealed, Conclude
<1>10. CASE Judge(p)
  BY <1>10, CallerLocks DEF Shape, EntryFields, Rests, Akumas, Judge
<1>11. CASE FirstTell(p)
  BY <1>11, CallerLocks DEF Shape, EntryFields, Rests, Akumas, FirstTell, Takable
<1>12. CASE FirstWake(p)
  BY <1>12, CallerLocks DEF Shape, EntryFields, Rests, Akumas, FirstWake
<1>13. CASE Watch(p)
  BY <1>13, CallerLocks DEF Shape, EntryFields, Rests, Akumas, Watch
<1>14. CASE Associate(p)
  BY <1>14, CallerLocks DEF Shape, EntryFields, Rests, Akumas, Associate
<1>15. CASE TakeSeat(p)
  BY <1>15, CallerLocks DEF Shape, EntryFields, Rests, Akumas, TakeSeat
<1>16. CASE Publish(p)
  BY <1>16, CallerLocks DEF Shape, EntryFields, Rests, Akumas, Publish
<1>17. CASE ReadBack(p)
  BY <1>17, CallerLocks DEF Shape, EntryFields, Rests, Akumas, ReadBack
<1>18. CASE TakeAliases(p)
  BY <1>18, CallerLocks DEF Shape, EntryFields, Rests, Akumas, TakeAliases
<1>19. CASE MoveAlias(p)
  BY <1>19, CallerLocks DEF Shape, EntryFields, Rests, Akumas, MoveAlias
<1>20. CASE Answer(p)
  BY <1>20, CallerLocks DEF Shape, EntryFields, Rests, Akumas, Answer
<1>21. CASE LookForIdle(p)
  BY <1>21, CallerLocks DEF Shape, EntryFields, Rests, Akumas, LookForIdle
<1>22. CASE TakeCandidate(p)
  BY <1>22, CallerLocks DEF Shape, EntryFields, Rests, Akumas, TakeCandidate
<1>23. CASE GuardNames(p)
  BY <1>23, CallerLocks DEF Shape, EntryFields, Rests, Akumas, GuardNames
<1>24. CASE GuardDispatch(p)
  BY <1>24, CallerLocks DEF Shape, EntryFields, Rests, Akumas, GuardDispatch
<1>25. CASE LastLook(p)
  BY <1>25, CallerLocks DEF Shape, EntryFields, Rests, Akumas, LastLook
<1>26. CASE RemoveLeash(p)
  BY <1>26, CallerLocks DEF Shape, EntryFields, Rests, Akumas, CustodyOf, Retiring, RemoveLeash
<1>27. CASE RemoveHeart(p)
  BY <1>27, CallerLocks DEF Shape, EntryFields, Rests, Akumas, CustodyOf, Retiring, RemoveHeart
<1>28. CASE Allocate(p)
  BY <1>28, CallerLocks DEF Shape, EntryFields, Rests, Akumas, Launches, BeforeLaunch, Allocate
<1>29. CASE Abort(p)
  BY <1>29, CallerLocks DEF Shape, EntryFields, Rests, Akumas, Abort
<1>30. CASE Die(p)
  BY <1>30, CallerLocks DEF Shape, EntryFields, Rests, Akumas, Die
<1> QED
  BY <1>1, <1>2, <1>3, <1>4, <1>5, <1>6, <1>7, <1>8, <1>9, <1>10, <1>11, <1>12, <1>13, <1>14, <1>15, <1>16, <1>17,
     <1>18, <1>19, <1>20, <1>21, <1>22, <1>23, <1>24, <1>25, <1>26, <1>27, <1>28, <1>29, <1>30 DEF OwnStep, CallStep

(* The world changes an entry under the leash, except for a Tell.             *)
LEMMA WorldRests ==
  ASSUME Shape, Hosts, ForeignStep
  PROVE  \A b \in Akumas : holder[b] \in Callers /\ entry[b].soul => Rests(b) \/ RecordTell(b)
<1>1. ASSUME NEW a \in Akumas, HostTakes(a) PROVE \A b \in Akumas : holder[b] \in Callers /\ entry[b].soul => Rests(b) \/ RecordTell(b)
  BY <1>1, CallerLocks DEF Shape, EntryFields, Rests, git, HostTakes
<1>2. ASSUME NEW a \in Akumas, HostLooks(a) PROVE \A b \in Akumas : holder[b] \in Callers /\ entry[b].soul => Rests(b) \/ RecordTell(b)
  BY <1>2, CallerLocks DEF Shape, EntryFields, Rests, git, HostLooks
<1>3. ASSUME NEW a \in Akumas, HostBears(a) PROVE \A b \in Akumas : holder[b] \in Callers /\ entry[b].soul => Rests(b) \/ RecordTell(b)
  BY <1>3, CallerLocks DEF Shape, EntryFields, Rests, git, HostBears
<1>4. ASSUME NEW a \in Akumas, HostWakes(a) PROVE \A b \in Akumas : holder[b] \in Callers /\ entry[b].soul => Rests(b) \/ RecordTell(b)
  BY <1>4, CallerLocks DEF Shape, EntryFields, Rests, git, HostWakes
<1>5. ASSUME NEW a \in Akumas, HostRecords(a) PROVE \A b \in Akumas : holder[b] \in Callers /\ entry[b].soul => Rests(b) \/ RecordTell(b)
  BY <1>5, CallerLocks DEF Shape, EntryFields, Rests, git, Hosts, Seated, HostRecords
<1>6. ASSUME NEW a \in Akumas, HostDrives(a) PROVE \A b \in Akumas : holder[b] \in Callers /\ entry[b].soul => Rests(b) \/ RecordTell(b)
  BY <1>6, CallerLocks DEF Shape, EntryFields, Rests, git, Hosts, Seated, HostDrives
<1>7. ASSUME NEW a \in Akumas, HostReleases(a) PROVE \A b \in Akumas : holder[b] \in Callers /\ entry[b].soul => Rests(b) \/ RecordTell(b)
  BY <1>7, CallerLocks DEF Shape, EntryFields, Rests, git, HostReleases
<1>8. ASSUME NEW a \in Akumas, HostFails(a) PROVE \A b \in Akumas : holder[b] \in Callers /\ entry[b].soul => Rests(b) \/ RecordTell(b)
  BY <1>8, CallerLocks DEF Shape, EntryFields, Rests, git, HostFails
<1>9. ASSUME NEW a \in Akumas, HostSeals(a) PROVE \A b \in Akumas : holder[b] \in Callers /\ entry[b].soul => Rests(b) \/ RecordTell(b)
  <2>1. CASE entry' = entry
    BY <2>1 DEF Rests
  <2>2. CASE Sealed(a)
    BY <2>2 DEF Shape, EntryFields, Rests, Sealed
  <2> QED
    BY <1>9, <2>1, <2>2 DEF HostSeals
<1>10. ASSUME NEW a \in Akumas, Unpeek(a) PROVE \A b \in Akumas : holder[b] \in Callers /\ entry[b].soul => Rests(b) \/ RecordTell(b)
  BY <1>10, CallerLocks DEF Shape, EntryFields, Rests, git, Unpeek
<1>11. ASSUME NEW a \in Akumas, HostDies(a) PROVE \A b \in Akumas : holder[b] \in Callers /\ entry[b].soul => Rests(b) \/ RecordTell(b)
  BY <1>11, CallerLocks DEF Shape, EntryFields, Rests, git, HostDies
<1>12. ASSUME NEW a \in Akumas, Peek(a) PROVE \A b \in Akumas : holder[b] \in Callers /\ entry[b].soul => Rests(b) \/ RecordTell(b)
  BY <1>12, CallerLocks DEF Shape, EntryFields, Rests, git, Peek
<1>13. ASSUME NEW a \in Akumas, RecordTell(a) PROVE \A b \in Akumas : holder[b] \in Callers /\ entry[b].soul => Rests(b) \/ RecordTell(b)
  BY <1>13, CallerLocks DEF Shape, EntryFields, Rests, git, RecordTell
<1>14. ASSUME NEW a \in Akumas, WakeTold(a) PROVE \A b \in Akumas : holder[b] \in Callers /\ entry[b].soul => Rests(b) \/ RecordTell(b)
  BY <1>14, CallerLocks DEF Shape, EntryFields, Rests, git, WakeTold
<1>15. ASSUME NEW a \in Akumas, GrowOld(a) PROVE \A b \in Akumas : holder[b] \in Callers /\ entry[b].soul => Rests(b) \/ RecordTell(b)
  BY <1>15, CallerLocks DEF Shape, EntryFields, Rests, git, GrowOld
<1>16. ASSUME NEW o \in orphans, OrphanEnds(o) PROVE \A b \in Akumas : holder[b] \in Callers /\ entry[b].soul => Rests(b) \/ RecordTell(b)
  BY <1>16, CallerLocks DEF Shape, EntryFields, Rests, git, OrphanEnds
<1>17. ASSUME NEW k \in Contracts, EndContract(k) PROVE \A b \in Akumas : holder[b] \in Callers /\ entry[b].soul => Rests(b) \/ RecordTell(b)
  BY <1>17, CallerLocks DEF Shape, EntryFields, Rests, git, EndContract
<1> QED
  BY <1>1, <1>2, <1>3, <1>4, <1>5, <1>6, <1>7, <1>8, <1>9, <1>10, <1>11, <1>12, <1>13, <1>14, <1>15, <1>16,
     <1>17 DEF ForeignStep, HostStep

(* Each judgment is made under its lock, before the next.                     *)
LEMMA OwnJudgment ==
  ASSUME NEW p \in Callers, Shape, Aging, CustodyOf(p), JudgmentOf(p), scene'.aging = scene.aging, OwnStep(p)
  PROVE  JudgmentOf(p)'
<1>0. scene'.aging = scene.aging
  OBVIOUS
<1>1. CASE InitializeHeart(p)
  <2>1. call[p].at = "allocated" /\ call'[p].at = "initializing"
    BY <1>1, CallerFields DEF Shape, CallShape, InitializeHeart, Goto
  <2> QED
    BY <2>1 DEF JudgmentOf, Retiring, Guards
<1>2. CASE InitializeLeash(p)
  <2>1. call[p].at = "initializing" /\ call'[p].at \in {"launching", "sealing"}
    BY <1>2, CallerFields DEF Shape, CallShape, InitializeLeash, Goto
  <2> QED
    BY <2>1 DEF JudgmentOf, Retiring, Guards
<1>3. CASE Launch(p)
  <2>1. call[p].at = "launching" /\ call'[p].at \in {"awaiting", "sealing"}
    BY <1>3, CallerFields DEF Shape, CallShape, Launch, Goto
  <2> QED
    BY <2>1 DEF JudgmentOf, Retiring, Guards
<1>4. CASE SealLocal(p)
  <2>1. call[p].at = "sealing" /\ call'[p].at \in {"sealing", "judging"}
    BY <1>4, CallerFields DEF Shape, CallShape, SealLocal, Grasp, Conclude
  <2> QED
    BY <2>1 DEF JudgmentOf, Retiring, Guards
<1>5. CASE AwaitBirth(p)
  <2>1. call[p].at = "awaiting" /\ call'[p].at \in {"resting", "born", "settling"}
    BY <1>5, CallerFields DEF Shape, CallShape, AwaitBirth, Trouble, Goto, Confirmed
  <2> QED
    BY <2>1 DEF JudgmentOf, Retiring, Guards
<1>6. CASE TimeOut(p)
  <2>1. call[p].at = "awaiting" /\ call'[p].at \in {"awaiting", "resting", "born", "settling"}
    BY <1>6, CallerFields DEF Shape, CallShape, TimeOut, Grasp, Conclude, Trouble, Confirmed
  <2> QED
    BY <2>1 DEF JudgmentOf, Retiring, Guards
<1>7. CASE AwaitAsleep(p)
  <2>1. call[p].at = "resting" /\ call'[p].at \in {"born", "settling"}
    BY <1>7, CallerFields DEF Shape, CallShape, AwaitAsleep, Goto, Trouble
  <2> QED
    BY <2>1 DEF JudgmentOf, Retiring, Guards
<1>8. CASE Settle(p)
  <2>1. call[p].at = "settling" /\ call'[p].at \in {"born", "judging", "closing"}
    BY <1>8, CallerFields DEF Shape, CallShape, Settle, Goto, Outcome
  <2> QED
    BY <2>1 DEF JudgmentOf, Retiring, Guards
<1>9. CASE CloseBirth(p)
  <2>1. call[p].at = "closing" /\ call'[p].at \in {"closing", "born", "judging"}
    BY <1>9, CallerFields DEF Shape, CallShape, CloseBirth, Grasp, Conclude, Outcome
  <2> QED
    BY <2>1 DEF JudgmentOf, Retiring, Guards
<1>10. CASE Judge(p)
  <2>1. call[p].at = "judging" /\ call'[p].at \in {"ended", "dispatching"}
    BY <1>10, CallerFields DEF Shape, CallShape, Judge
  <2> QED
    BY <2>1 DEF JudgmentOf, Retiring, Guards
<1>11. CASE FirstTell(p)
  <2>1. call[p].at = "born" /\ call'[p].at \in {"dispatching", "waking"}
    BY <1>11, CallerFields DEF Shape, CallShape, FirstTell, Goto
  <2> QED
    BY <2>1 DEF JudgmentOf, Retiring, Guards
<1>12. CASE FirstWake(p)
  <2>1. call[p].at = "waking" /\ call'[p].at \in {"watching", "dispatching"}
    BY <1>12, CallerFields DEF Shape, CallShape, FirstWake, Goto
  <2> QED
    BY <2>1 DEF JudgmentOf, Retiring, Guards
<1>13. CASE Watch(p)
  <2>1. call[p].at = "watching" /\ call'[p].at = "dispatching"
    BY <1>13, CallerFields DEF Shape, CallShape, Watch
  <2> QED
    BY <2>1 DEF JudgmentOf, Retiring, Guards
<1>14. CASE Associate(p)
  <2>1. call[p].at = "dispatching" /\ call'[p].at \in {"naming", "seating"}
    BY <1>14, CallerFields DEF Shape, CallShape, Associate
  <2> QED
    BY <2>1 DEF JudgmentOf, Retiring, Guards
<1>15. CASE TakeSeat(p)
  <2>1. call[p].at = "seating" /\ call'[p].at \in {"publishing", "naming"}
    BY <1>15, CallerFields DEF Shape, CallShape, TakeSeat
  <2> QED
    BY <2>1 DEF JudgmentOf, Retiring, Guards
<1>16. CASE Publish(p)
  <2>1. call[p].at = "publishing" /\ call'[p].at = "reading back"
    BY <1>16, CallerFields DEF Shape, CallShape, Publish, Goto
  <2> QED
    BY <2>1 DEF JudgmentOf, Retiring, Guards
<1>17. CASE ReadBack(p)
  <2>1. call[p].at = "reading back" /\ call'[p].at = "naming"
    BY <1>17, CallerFields DEF Shape, CallShape, ReadBack
  <2> QED
    BY <2>1 DEF JudgmentOf, Retiring, Guards
<1>18. CASE TakeAliases(p)
  <2>1. call[p].at = "naming" /\ call'[p].at \in {"moving", "answering"}
    BY <1>18, CallerFields DEF Shape, CallShape, TakeAliases, Goto
  <2> QED
    BY <2>1 DEF JudgmentOf, Retiring, Guards
<1>19. CASE MoveAlias(p)
  <2>1. call[p].at = "moving" /\ call'[p].at = "answering"
    BY <1>19, CallerFields DEF Shape, CallShape, MoveAlias
  <2> QED
    BY <2>1 DEF JudgmentOf, Retiring, Guards
<1>20. CASE Answer(p)
  <2>1. call[p].at = "answering" /\ call'[p].at \in {"sweeping", "ended"}
    BY <1>20, CallerFields DEF Shape, CallShape, Answer
  <2> QED
    BY <2>1 DEF JudgmentOf, Retiring, Guards
<1>21. CASE LookForIdle(p)
  <2>1. call[p].at = "sweeping" /\ call'[p].at = "retiring"
    BY <1>21, CallerFields DEF Shape, CallShape, LookForIdle
  <2> QED
    BY <2>1 DEF JudgmentOf, Retiring, Guards
<1>22. CASE TakeCandidate(p)
  <2>1. CASE Goto(p, "ended")
    <3>1. call'[p].at = "ended"
      BY <2>1, CallerFields DEF Shape, CallShape, Goto
    <3> QED
      BY <3>1 DEF JudgmentOf, Retiring, Guards
  <2>3. ASSUME NEW a \in call[p].todo, call' = [call EXCEPT ![p].todo = call[p].todo \ {a}] PROVE JudgmentOf(p)'
    <3>1. call'[p].at = "retiring"
      BY <1>22, <2>3, CallerFields DEF Shape, CallShape, TakeCandidate
    <3> QED
      BY <3>1 DEF JudgmentOf, Retiring, Guards
  <2>2. ASSUME NEW a \in call[p].todo, Eligible(a),
               call' = [call EXCEPT ![p].at = "guarding", ![p].todo = call[p].todo \ {a}, ![p].victim = a]
        PROVE  JudgmentOf(p)'
    <3>1. call'[p].at = "guarding" /\ call'[p].victim = a
      BY <2>2, CallerFields DEF Shape, CallShape
    <3>2. a \in Akumas /\ entry' = entry
      BY <1>22 DEF TakeCandidate, CustodyOf
    <3>3. entry[a].soul /\ a \in scene.aging
      BY <2>2, <3>2 DEF Eligible, Stopped, Aging
    <3> QED
      BY <3>1, <3>2, <3>3, <1>0 DEF JudgmentOf, Guards
  <2> QED
    BY <1>22, <2>1, <2>2, <2>3 DEF TakeCandidate
<1>23. CASE GuardNames(p)
  <2>1. CASE call'[p].at = "guarded"
    <3>1. /\ call[p].at = "guarding" /\ call'[p].victim = call[p].victim /\ Unnamed(call[p].victim)
          /\ entry' = entry /\ alias' = alias /\ dispatch' = dispatch /\ terminal' = terminal
      BY <1>23, <2>1, CallerFields DEF Shape, CallShape, GuardNames, Goto, LetGo, git
    <3> QED
      BY <2>1, <3>1, <1>0 DEF JudgmentOf, Retiring, Guards, Unnamed
  <2>2. CASE call'[p].at = "retiring"
    BY <2>2 DEF JudgmentOf, Retiring, Guards
  <2> QED
    BY <1>23, <2>1, <2>2, CallerFields DEF Shape, CallShape, GuardNames, Goto, LetGo
<1>24. CASE GuardDispatch(p)
  <2>1. CASE call'[p].at = "judged"
    <3>1. /\ call[p].at = "guarded" /\ call'[p].victim = call[p].victim /\ Detached(call[p].victim)
          /\ entry' = entry /\ alias' = alias /\ dispatch' = dispatch /\ terminal' = terminal
      BY <1>24, <2>1, CallerFields DEF Shape, CallShape, GuardDispatch, Goto, LetGo, git
    <3> QED
      BY <2>1, <3>1, <1>0 DEF JudgmentOf, Retiring, Guards, Unnamed, Detached
  <2>2. CASE call'[p].at = "retiring"
    BY <2>2 DEF JudgmentOf, Retiring, Guards
  <2> QED
    BY <1>24, <2>1, <2>2, CallerFields DEF Shape, CallShape, GuardDispatch, Goto, LetGo
<1>25. CASE LastLook(p)
  <2>1. CASE call'[p].at = "removing"
    <3>1. /\ call[p].at = "judged" /\ call'[p].victim = call[p].victim /\ Eligible(call[p].victim)
          /\ entry' = entry /\ alias' = alias /\ dispatch' = dispatch /\ terminal' = terminal
      BY <1>25, <2>1, CallerFields DEF Shape, CallShape, LastLook, Goto, LetGo, git
    <3> QED
      BY <2>1, <3>1, <1>0 DEF JudgmentOf, Retiring, Guards, Unnamed, Detached, Eligible, Stopped, Settled
  <2>2. CASE call'[p].at = "retiring"
    BY <2>2 DEF JudgmentOf, Retiring, Guards
  <2> QED
    BY <1>25, <2>1, <2>2, CallerFields DEF Shape, CallShape, LastLook, Goto, LetGo
<1>26. CASE RemoveLeash(p)
  <2>1. /\ call[p].at = "removing" /\ call'[p].at = "removing heart" /\ call'[p].victim = call[p].victim
        /\ alias' = alias /\ dispatch' = dispatch /\ terminal' = terminal
    BY <1>26, CallerFields DEF Shape, CallShape, RemoveLeash, Goto, git
  <2>2. call[p].victim \in Akumas
    BY <2>1 DEF CustodyOf, Retiring
  <2>3. entry'[call[p].victim].place = "leashless" /\ entry'[call[p].victim].soul = entry[call[p].victim].soul
    BY <1>26, <2>2 DEF Shape, EntryFields, RemoveLeash
  <2> QED
    BY <2>1, <2>3, <1>0 DEF JudgmentOf, Retiring, Guards, Unnamed, Detached
<1>27. CASE RemoveHeart(p)
  <2>1. call[p].at = "removing heart" /\ call'[p].at = "retiring"
    BY <1>27, CallerFields DEF Shape, CallShape, RemoveHeart, Goto, LetGo
  <2> QED
    BY <2>1 DEF JudgmentOf, Retiring, Guards
<1>28. CASE Allocate(p)
  <2>1. call[p].at = "idle" /\ call'[p].at = "allocated"
    BY <1>28, CallerFields DEF Shape, CallShape, Allocate, Goto
  <2> QED
    BY <2>1 DEF JudgmentOf, Retiring, Guards
<1>29. CASE Abort(p)
  <2>1. /\ call'[p].at = call[p].at /\ call'[p].victim = call[p].victim
        /\ entry' = entry /\ alias' = alias /\ dispatch' = dispatch /\ terminal' = terminal
    BY <1>29, CallerFields DEF Shape, CallShape, Abort, git
  <2> QED
    BY <2>1, <1>0 DEF JudgmentOf, Unnamed, Detached, Settled
<1>30. CASE Die(p)
  <2>1. call'[p].at = "dead"
    BY <1>30, CallerFields DEF Shape, CallShape, Die
  <2> QED
    BY <2>1 DEF JudgmentOf, Retiring, Guards
<1> QED
  BY <1>1, <1>2, <1>3, <1>4, <1>5, <1>6, <1>7, <1>8, <1>9, <1>10, <1>11, <1>12, <1>13, <1>14, <1>15, <1>16, <1>17,
     <1>18, <1>19, <1>20, <1>21, <1>22, <1>23, <1>24, <1>25, <1>26, <1>27, <1>28, <1>29, <1>30 DEF OwnStep, CallStep

(* What a judgment rests on is kept by the locks it was made under.           *)
LEMMA JudgmentsKept ==
  Shape /\ Fate /\ Hosts /\ Launches /\ Custody /\ Orphanage /\ Retirement /\ [Next]_vars => Judgments'
<1> SUFFICES ASSUME Shape, Fate, Hosts, Launches, Custody, Orphanage, Retirement, [Next]_vars PROVE Judgments'
  OBVIOUS
<1>1. scene'.aging = scene.aging
  BY SceneKept DEF SceneStays
<1>2. ASSUME NEW q \in Callers, call'[q] = call[q],
             call[q].at \in Retiring => Rests(call[q].victim) \/ RecordTell(call[q].victim),
             call[q].at \in Guards => (Unnamed(call[q].victim) => Unnamed(call[q].victim)'),
             call[q].at \in Guards \ {"guarded"} => (Detached(call[q].victim) => Detached(call[q].victim)')
      PROVE  JudgmentOf(q)'
  <2> DEFINE a == call[q].victim
  <2>1. JudgmentOf(q) /\ CustodyOf(q)
    BY DEF Retirement, Judgments, Custody
  <2>2. CASE call[q].at \notin Retiring
    BY <1>2, <2>2 DEF JudgmentOf, Retiring, Guards
  <2>3. CASE call[q].at \in Retiring /\ Rests(a)
    BY <1>1, <1>2, <2>1, <2>3 DEF JudgmentOf, Rests, Settled
  <2>4. CASE call[q].at \in Retiring /\ RecordTell(a)
    <3>1. a \in Akumas
      BY <2>1, <2>4 DEF CustodyOf
    <3>2. /\ entry'[a].place = entry[a].place /\ entry'[a].soul = entry[a].soul /\ entry'[a].body = entry[a].body
          /\ call[q].at = "removing" => entry'[a].late
      BY <2>4, <3>1 DEF Shape, EntryFields, RecordTell
    <3> QED
      BY <1>1, <1>2, <2>1, <2>4, <3>2 DEF JudgmentOf, Settled
  <2> QED
    BY <1>2, <2>2, <2>3, <2>4
<1>3. ASSUME NEW p \in Callers, OwnStep(p) PROVE Judgments'
  <2>1. JudgmentOf(p)'
    BY <1>1, <1>3, OwnJudgment DEF Retirement, Judgments, Custody
  <2>2. ASSUME NEW q \in Callers \ {p} PROVE JudgmentOf(q)'
    <3>1. call'[q] = call[q]
      BY <1>3, CallersMindTheirOwn DEF Shape
    <3>2. JudgmentOf(q) /\ CustodyOf(q) /\ CustodyOf(p)
      BY DEF Retirement, Judgments, Custody
    <3>3. call[q].at \in Retiring => Rests(call[q].victim)
      BY <1>3, <3>2, OthersRest DEF CustodyOf, JudgmentOf
    <3>4. call[q].at \in Guards => alias' = alias
      BY <1>3, <3>2, CallersNameTheirOwn DEF Shape, CallShape, CustodyOf
    <3>5. call[q].at \in Guards \ {"guarded"} => dispatch' = dispatch
      BY <1>3, <3>2, CallersDispatchTheirOwn DEF Shape, CustodyOf, Guards, Seats
    <3>6. terminal' = terminal
      BY <1>3, CallersNameTheirOwn DEF Shape, CallShape
    <3> QED
      BY <1>2, <3>1, <3>3, <3>4, <3>5, <3>6 DEF Unnamed, Detached
  <2> QED
    BY <2>1, <2>2 DEF Judgments
<1>4. CASE ForeignStep
  <2>1. call' = call
    BY <1>4, WorldIsCalm DEF Shape, Calm
  <2>2. alias' = alias
    BY <1>4 DEF ForeignStep, HostStep, git, HostTakes, HostLooks, HostBears, HostWakes, HostRecords, HostDrives,
       HostReleases, HostFails, HostSeals, Unpeek, HostDies, Peek, RecordTell, WakeTold, GrowOld, EndContract,
       OrphanEnds
  <2>3. terminal \subseteq terminal'
    BY <1>4 DEF ForeignStep, HostStep, git, HostTakes, HostLooks, HostBears, HostWakes, HostRecords, HostDrives,
       HostReleases, HostFails, HostSeals, Unpeek, HostDies, Peek, RecordTell, WakeTold, GrowOld, EndContract,
       OrphanEnds
  <2>4. dispatch' = dispatch \/ \E o \in orphans : OrphanEnds(o)
    BY <1>4 DEF ForeignStep, HostStep, git, HostTakes, HostLooks, HostBears, HostWakes, HostRecords, HostDrives,
       HostReleases, HostFails, HostSeals, Unpeek, HostDies, Peek, RecordTell, WakeTold, GrowOld, EndContract
  <2>5. ASSUME NEW q \in Callers PROVE JudgmentOf(q)'
    <3>1. JudgmentOf(q) /\ CustodyOf(q)
      BY DEF Retirement, Judgments, Custody
    <3>2. call[q].at \in Retiring => Rests(call[q].victim) \/ RecordTell(call[q].victim)
      BY <1>4, <3>1, WorldRests DEF CustodyOf, JudgmentOf
    <3>3. call[q].at \in Retiring => dispatch'[call[q].victim] = dispatch[call[q].victim]
      <4>1. CASE dispatch' = dispatch
        BY <4>1
      <4>2. ASSUME NEW o \in orphans, OrphanEnds(o), call[q].at \in Retiring
            PROVE  dispatch'[call[q].victim] = dispatch[call[q].victim]
        <5>1. o.akuma \in Callers /\ call[q].victim \in Akumas /\ call[q].victim \in scene.aging
          BY <3>1, <4>2 DEF Orphanage, CustodyOf, JudgmentOf
        <5>2. scene.aging \cap Callers = {}
          BY <4>2 DEF Retirement, Mortality
        <5> QED
          BY <4>2, <5>1, <5>2 DEF OrphanEnds, Commit, Shape
      <4> QED
        BY <2>4, <4>1, <4>2
    <3> QED
      BY <1>2, <2>1, <2>2, <2>3, <3>2, <3>3 DEF Unnamed, Detached, Guards, Retiring
  <2> QED
    BY <2>5 DEF Judgments
<1>5. CASE UNCHANGED vars
  BY <1>5 DEF vars, git, Retirement, Judgments, JudgmentOf, Unnamed, Detached, Settled
<1> QED
  BY <1>3, <1>4, <1>5, StepKinds

LEMMA RetirementKept ==
  Shape /\ Fate /\ Hosts /\ Launches /\ Custody /\ Orphanage /\ Retirement /\ [Next]_vars => Retirement'
BY AgingKept, MortalityKept, FreshnessKept, JudgmentsKept DEF Retirement

(* A place is lost to the removal of its leash only.                         *)
LEMMA OnlyRemoval ==
  ASSUME NEW p \in Callers, Shape, Freshness, JudgmentOf(p), OwnStep(p)
  PROVE  \A a \in Akumas : entry[a].place = "ready" /\ entry'[a].place # "ready" =>
           RemoveLeash(p) /\ call[p].victim = a
<1>1. CASE InitializeHeart(p)
  BY <1>1 DEF Shape, EntryFields, Akumas, Freshness, InitializeHeart
<1>2. CASE InitializeLeash(p)
  BY <1>2 DEF Shape, EntryFields, Akumas, InitializeLeash
<1>3. CASE Launch(p)
  BY <1>3 DEF Shape, EntryFields, Akumas, Launch
<1>4. CASE SealLocal(p)
  BY <1>4 DEF Shape, EntryFields, Akumas, SealLocal, Sealed, Conclude
<1>5. CASE AwaitBirth(p)
  BY <1>5 DEF Shape, EntryFields, Akumas, AwaitBirth
<1>6. CASE TimeOut(p)
  BY <1>6 DEF Shape, EntryFields, Akumas, TimeOut, Sealed, Conclude
<1>7. CASE AwaitAsleep(p)
  BY <1>7 DEF Shape, EntryFields, Akumas, AwaitAsleep
<1>8. CASE Settle(p)
  BY <1>8 DEF Shape, EntryFields, Akumas, Settle
<1>9. CASE CloseBirth(p)
  BY <1>9 DEF Shape, EntryFields, Akumas, CloseBirth, Sealed, Conclude
<1>10. CASE Judge(p)
  BY <1>10 DEF Shape, EntryFields, Akumas, Judge
<1>11. CASE FirstTell(p)
  BY <1>11 DEF Shape, EntryFields, Akumas, FirstTell
<1>12. CASE FirstWake(p)
  BY <1>12 DEF Shape, EntryFields, Akumas, FirstWake
<1>13. CASE Watch(p)
  BY <1>13 DEF Shape, EntryFields, Akumas, Watch
<1>14. CASE Associate(p)
  BY <1>14 DEF Shape, EntryFields, Akumas, Associate
<1>15. CASE TakeSeat(p)
  BY <1>15 DEF Shape, EntryFields, Akumas, TakeSeat
<1>16. CASE Publish(p)
  BY <1>16 DEF Shape, EntryFields, Akumas, Publish
<1>17. CASE ReadBack(p)
  BY <1>17 DEF Shape, EntryFields, Akumas, ReadBack
<1>18. CASE TakeAliases(p)
  BY <1>18 DEF Shape, EntryFields, Akumas, TakeAliases
<1>19. CASE MoveAlias(p)
  BY <1>19 DEF Shape, EntryFields, Akumas, MoveAlias
<1>20. CASE Answer(p)
  BY <1>20 DEF Shape, EntryFields, Akumas, Answer
<1>21. CASE LookForIdle(p)
  BY <1>21 DEF Shape, EntryFields, Akumas, LookForIdle
<1>22. CASE TakeCandidate(p)
  BY <1>22 DEF Shape, EntryFields, Akumas, TakeCandidate
<1>23. CASE GuardNames(p)
  BY <1>23 DEF Shape, EntryFields, Akumas, GuardNames
<1>24. CASE GuardDispatch(p)
  BY <1>24 DEF Shape, EntryFields, Akumas, GuardDispatch
<1>25. CASE LastLook(p)
  BY <1>25 DEF Shape, EntryFields, Akumas, LastLook
<1>26. CASE RemoveLeash(p)
  BY <1>26 DEF Shape, EntryFields, Akumas, OwnStep, CallStep, RemoveLeash
<1>27. CASE RemoveHeart(p)
  BY <1>27 DEF Shape, EntryFields, Akumas, JudgmentOf, RemoveHeart
<1>28. CASE Allocate(p)
  BY <1>28 DEF Shape, EntryFields, Akumas, Freshness, Allocate
<1>29. CASE Abort(p)
  BY <1>29 DEF Shape, EntryFields, Akumas, Abort
<1>30. CASE Die(p)
  BY <1>30 DEF Shape, EntryFields, Akumas, Die
<1> QED
  BY <1>1, <1>2, <1>3, <1>4, <1>5, <1>6, <1>7, <1>8, <1>9, <1>10, <1>11, <1>12, <1>13, <1>14, <1>15, <1>16, <1>17,
     <1>18, <1>19, <1>20, <1>21, <1>22, <1>23, <1>24, <1>25, <1>26, <1>27, <1>28, <1>29, <1>30 DEF OwnStep, CallStep

(* The world takes nobody's place.                                           *)
LEMMA WorldLeavesPlaces ==
  ASSUME Shape, ForeignStep
  PROVE  \A b \in Akumas : entry'[b].place = entry[b].place
<1>1. ASSUME NEW a \in Akumas, HostTakes(a) PROVE \A b \in Akumas : entry'[b].place = entry[b].place
  BY <1>1 DEF Shape, EntryFields, git, HostTakes
<1>2. ASSUME NEW a \in Akumas, HostLooks(a) PROVE \A b \in Akumas : entry'[b].place = entry[b].place
  BY <1>2 DEF Shape, EntryFields, git, HostLooks
<1>3. ASSUME NEW a \in Akumas, HostBears(a) PROVE \A b \in Akumas : entry'[b].place = entry[b].place
  BY <1>3 DEF Shape, EntryFields, git, HostBears
<1>4. ASSUME NEW a \in Akumas, HostWakes(a) PROVE \A b \in Akumas : entry'[b].place = entry[b].place
  BY <1>4 DEF Shape, EntryFields, git, HostWakes
<1>5. ASSUME NEW a \in Akumas, HostRecords(a) PROVE \A b \in Akumas : entry'[b].place = entry[b].place
  BY <1>5 DEF Shape, EntryFields, git, HostRecords
<1>6. ASSUME NEW a \in Akumas, HostDrives(a) PROVE \A b \in Akumas : entry'[b].place = entry[b].place
  BY <1>6 DEF Shape, EntryFields, git, HostDrives
<1>7. ASSUME NEW a \in Akumas, HostReleases(a) PROVE \A b \in Akumas : entry'[b].place = entry[b].place
  BY <1>7 DEF Shape, EntryFields, git, HostReleases
<1>8. ASSUME NEW a \in Akumas, HostFails(a) PROVE \A b \in Akumas : entry'[b].place = entry[b].place
  BY <1>8 DEF Shape, EntryFields, git, HostFails
<1>9. ASSUME NEW a \in Akumas, HostSeals(a) PROVE \A b \in Akumas : entry'[b].place = entry[b].place
  <2>1. CASE entry' = entry
    BY <2>1
  <2>2. CASE Sealed(a)
    BY <2>2 DEF Shape, EntryFields, Sealed
  <2> QED
    BY <1>9, <2>1, <2>2 DEF HostSeals
<1>10. ASSUME NEW a \in Akumas, Unpeek(a) PROVE \A b \in Akumas : entry'[b].place = entry[b].place
  BY <1>10 DEF Shape, EntryFields, git, Unpeek
<1>11. ASSUME NEW a \in Akumas, HostDies(a) PROVE \A b \in Akumas : entry'[b].place = entry[b].place
  BY <1>11 DEF Shape, EntryFields, git, HostDies
<1>12. ASSUME NEW a \in Akumas, Peek(a) PROVE \A b \in Akumas : entry'[b].place = entry[b].place
  BY <1>12 DEF Shape, EntryFields, git, Peek
<1>13. ASSUME NEW a \in Akumas, RecordTell(a) PROVE \A b \in Akumas : entry'[b].place = entry[b].place
  BY <1>13 DEF Shape, EntryFields, git, RecordTell
<1>14. ASSUME NEW a \in Akumas, WakeTold(a) PROVE \A b \in Akumas : entry'[b].place = entry[b].place
  BY <1>14 DEF Shape, EntryFields, git, WakeTold
<1>15. ASSUME NEW a \in Akumas, GrowOld(a) PROVE \A b \in Akumas : entry'[b].place = entry[b].place
  BY <1>15 DEF Shape, EntryFields, git, GrowOld
<1>16. ASSUME NEW o \in orphans, OrphanEnds(o) PROVE \A b \in Akumas : entry'[b].place = entry[b].place
  BY <1>16 DEF Shape, EntryFields, git, OrphanEnds
<1>17. ASSUME NEW k \in Contracts, EndContract(k) PROVE \A b \in Akumas : entry'[b].place = entry[b].place
  BY <1>17 DEF Shape, EntryFields, git, EndContract
<1> QED
  BY <1>1, <1>2, <1>3, <1>4, <1>5, <1>6, <1>7, <1>8, <1>9, <1>10, <1>11, <1>12, <1>13, <1>14, <1>15, <1>16,
     <1>17 DEF ForeignStep, HostStep

(* So nothing is retired that somebody still refers to (RetiredUnneeded).    *)
LEMMA RemovalIsUnneeded ==
  ASSUME Shape, Hosts, Custody, Retirement, [Next]_vars,
         NEW a \in Akumas, entry[a].place = "ready", entry'[a].place # "ready"
  PROVE  /\ entry[a].soul /\ Settled(a) /\ host[a].at \notin Seated
         /\ Unnamed(a) /\ Detached(a)
         /\ entry[a].pending => entry[a].late
<1>1. ~UNCHANGED vars
  BY DEF vars
<1>2. ~ForeignStep
  BY WorldLeavesPlaces
<1>3. PICK p \in Callers : OwnStep(p)
  BY <1>1, <1>2, StepKinds
<1>4. JudgmentOf(p) /\ CustodyOf(p)
  BY DEF Retirement, Judgments, Custody
<1>5. RemoveLeash(p) /\ call[p].victim = a
  BY <1>3, <1>4, OnlyRemoval DEF Retirement
<1>6. call[p].at = "removing" /\ holder[a] = p
  BY <1>4, <1>5 DEF RemoveLeash, CustodyOf, Retiring
<1>7. host[a].at \notin Seated
  BY <1>6, CallerLocks DEF Hosts
<1> QED
  BY <1>4, <1>5, <1>6, <1>7 DEF JudgmentOf, Retiring, Guards

THEOREM NothingNeededIsRetired == Spec => RetiredUnneeded
<1> DEFINE Inv == Shape /\ Fate /\ Honesty /\ Retirement
<1>1. Init => Inv
  BY ShapeAtFirst, FateAtFirst, HonestAtFirst, RetirementAtFirst DEF Honesty
<1>2. Inv /\ [Next]_vars => Inv'
  <2> SUFFICES ASSUME Inv, [Next]_vars PROVE Inv'
    OBVIOUS
  <2>1. Shape'
    BY ShapeKept
  <2>2. Fate'
    BY SeatingKept, OwnLeashKept, FateKept, LookedKept DEF Shape, Fate
  <2>3. Honesty'
    BY HonestyKept
  <2>4. Retirement'
    BY RetirementKept DEF Honesty
  <2> QED
    BY <2>1, <2>2, <2>3, <2>4
<1>3. Inv /\ [Next]_vars =>
        [\A a \in Akumas : (entry[a].place = "ready" /\ entry'[a].place # "ready") =>
            /\ entry[a].soul /\ Settled(a) /\ host[a].at \notin Seated
            /\ Unnamed(a) /\ Detached(a)
            /\ entry[a].pending => entry[a].late]_vars
  BY RemovalIsUnneeded DEF Honesty
<1> QED
  BY <1>1, <1>2, <1>3, PTL DEF Spec, RetiredUnneeded
=============================================================================
