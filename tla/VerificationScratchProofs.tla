---------------------- MODULE VerificationScratchProofs ----------------------
(* What holds of every number of verification attempts and reconciles: that   *)
(* two never work on one scene, that a scene goes only by who may remove it,  *)
(* and that an attempt which ends says what it left.                          *)
(*                                                                            *)
(* The argument is about who holds which lock file. An attempt from its        *)
(* beginning to its last release, and a reconcile that removes, hold the lock  *)
(* file that is at the path they work on; a lock file is unlinked only where   *)
(* no scene is left and its attempt owns nothing any more.                     *)
EXTENDS VerificationScratch, Integers, FiniteSetTheorems, TLAPS

-----------------------------------------------------------------------------
(* Types                                                                     *)

Before == {"idle", "adding", "undoing", "undone"}
Reported == {"cleaning", "retiring", "replacing", "moving", "falling", "busy", "closing"}
Places == Before \cup Reported \cup {"settings", "setup", "checking", "unlinking", "done", "lost", "dead"}
Leaks == {"none", "own", "unnamed", "kept"}
Terms == {"none", "sent", "refused", "failed", "done", "grace", "polling", "leader"}

AttemptRecords ==
    [at : Places, outcome : Reports \cup {"none", "unavailable"}, limited : BOOLEAN, aborted : BOOLEAN,
     todo : Int, destroy : Int, cleanup : BOOLEAN, leak : Leaks]
CollectorRecords ==
    [at : {"idle", "looking", "removing", "releasing", "unlinking", "done", "dead"}, todo : SUBSET Paths,
     path : Paths \cup {None}, removed : BOOLEAN]
ChildRecords ==
    [at : {"none", "running", "stray", "over"}, limited : BOOLEAN, leader : {"none", "alive", "exited"},
     code : {"none", "zero", "other", "killed"}, crew : BOOLEAN, keeps : BOOLEAN, seen : BOOLEAN,
     stop : {"none", "timeout", "cancelled"}, term : Terms, killed : BOOLEAN]

Typed ==
    /\ attempt \in [Attempts -> AttemptRecords] /\ collector \in [Collectors -> CollectorRecords]
    /\ proc \in [Attempts -> ChildRecords] /\ terminal \subseteq Contracts
    /\ scene \in [Paths -> Attempts \cup {None}] /\ lock \in [Paths -> Attempts \cup Collectors \cup {None}]
    /\ \A a \in Attempts : scene[a] \in {a, None}

-----------------------------------------------------------------------------
(* The invariant                                                             *)

(* A group whose termination is over has no member left, and what outlives   *)
(* its command does so because it could not be ended.                        *)
GroupKept(a) ==
    /\ proc[a].seen => proc[a].leader = "exited"
    /\ Running(a) /\ proc[a].term \in {"leader", "done"} => proc[a].seen /\ ~proc[a].crew
    /\ proc[a].at \in {"none", "over"} /\ Alive(a) => proc[a].term = "failed"
    /\ Running(a) => At(a, Phases)
    /\ proc[a].at = "stray" => At(a, {"dead"})

(* Who owns a scene or handles a slot holds the lock file that is there.     *)
Locked(a) ==
    /\ Owning(a) => lock[a] = a
    /\ Handling(a) => lock[SlotOf[a]] = a /\ Retained(a)

(* What an attempt will report, and what it says it left.                    *)
Told(a) ==
    /\ At(a, {"idle"}) => scene[a] = None /\ attempt[a].leak = "none"
    /\ At(a, Before) => attempt[a].outcome = "none"
    /\ At(a, Reported) => attempt[a].outcome \in Reports
    /\ At(a, {"undone", "closing", "unlinking", "done"}) =>
         /\ attempt[a].leak = "none" => scene[a] = None
         /\ attempt[a].outcome \in {"unsatisfied", "environment", "stopped"} => attempt[a].leak # "none"
         /\ attempt[a].outcome \in {"satisfied", "cancelled", "none"} => attempt[a].leak \in {"none", "own"}

(* A path that a reconcile may remove: no attempt owns it or ever will, and  *)
(* no living contract keeps it.                                              *)
Forsaken(p) ==
    IF p \in Attempts THEN ~At(p, {"idle"}) /\ ~Owning(p) ELSE ContractOf[p] \in terminal
Collecting(c) ==
    /\ \A p \in collector[c].todo : IF p \in Attempts THEN ~At(p, {"idle"}) ELSE ContractOf[p] \in terminal
    /\ collector[c].at \in {"removing", "releasing", "unlinking"} =>
         collector[c].path \in Paths /\ Forsaken(collector[c].path)
    /\ collector[c].at = "removing" /\ (scene[collector[c].path] # None \/ collector[c].path \in Slots) =>
         lock[collector[c].path] = c
    /\ collector[c].at = "releasing" /\ Spent(c) => scene[collector[c].path] = None
    /\ collector[c].at = "unlinking" => collector[c].path \in Attempts /\ scene[collector[c].path] = None

Inv ==
    /\ Typed
    /\ \A a \in Attempts : GroupKept(a) /\ Locked(a) /\ Told(a)
    /\ \A c \in Collectors : Collecting(c)

-----------------------------------------------------------------------------
(* Frames                                                                    *)

(* What one attempt's step may do to what others rely on: it takes a lock    *)
(* that is free, gives up one that it holds, or unlinks that of its own      *)
(* scene when that is gone and it owns nothing; it touches its own scene and *)
(* its slot.                                                                 *)
OwnStep(a) ==
    /\ \A b \in Attempts : b # a => attempt'[b] = attempt[b] /\ proc'[b] = proc[b]
    /\ \A p \in Paths : p \notin {a, SlotOf[a]} => scene'[p] = scene[p]
    /\ \A p \in Paths : \/ lock'[p] = lock[p] \/ lock[p] \in {None, a}
                        \/ p = a /\ scene[a] = None /\ ~Owning(a)
    /\ At(a, {"idle"})' => At(a, {"idle"})
    /\ Owning(a)' => Owning(a) \/ At(a, {"idle"})
    /\ scene'[a] # None => scene[a] # None \/ Owning(a) \/ At(a, {"idle"})
    /\ UNCHANGED <<collector, terminal>>

LEMMA OwnStepKeeps ==
    ASSUME Inv, NEW a \in Attempts, OwnStep(a), Typed', GroupKept(a)', Locked(a)', Told(a)'
    PROVE  Inv'
<1>1. ASSUME NEW b \in Attempts PROVE GroupKept(b)' /\ Locked(b)' /\ Told(b)'
  <2>1. CASE b = a
    BY <2>1
  <2>2. CASE b # a
    <3>1. /\ attempt'[b] = attempt[b] /\ proc'[b] = proc[b]
          /\ b # None /\ b # SlotOf[a] /\ SlotOf[b] # a /\ SlotOf[b] \in Paths /\ b \in Paths
      BY <2>2, ScratchAssumption DEF OwnStep, Paths
    <3>2. scene'[b] = scene[b]
      BY <2>2, <3>1 DEF OwnStep
    <3>3. GroupKept(b)'
      BY <3>1 DEF Inv, GroupKept, Running, Alive, At
    <3>4. Locked(b)'
      <4>1. (Owning(b)' <=> Owning(b)) /\ (Handling(b)' <=> Handling(b)) /\ (Retained(b)' <=> Retained(b))
        BY <3>1 DEF Owning, Handling, Retained, At
      <4>2. Locked(b)
        BY DEF Inv
      <4>3. Owning(b) => lock'[b] = b
        BY <2>2, <3>1, <4>2 DEF OwnStep, Locked
      <4>4. Handling(b) => lock'[SlotOf[b]] = b
        BY <2>2, <3>1, <4>2 DEF OwnStep, Locked
      <4> QED
        BY <4>1, <4>2, <4>3, <4>4 DEF Locked
    <3>5. Told(b)'
      BY <3>1, <3>2 DEF Inv, Told, At
    <3> QED
      BY <3>3, <3>4, <3>5
  <2> QED
    BY <2>1, <2>2
<1>2. ASSUME NEW c \in Collectors PROVE Collecting(c)'
  <2>1. /\ collector' = collector /\ terminal' = terminal /\ Collecting(c) /\ c # None /\ c # a
        /\ collector[c].todo \subseteq Paths
    BY ScratchAssumption DEF OwnStep, Inv, Typed, CollectorRecords
  <2>2. \A p \in Attempts : ~At(p, {"idle"}) => ~At(p, {"idle"})'
    BY DEF OwnStep, At
  <2>3. \A p \in Paths : Forsaken(p) => Forsaken(p)'
    BY <2>1, <2>2 DEF OwnStep, Forsaken, Owning, At
  <2>4. \A p \in Attempts : Forsaken(p) /\ scene[p] = None => scene'[p] = None
    <3>1. \A p \in Attempts : p \in Paths /\ p # SlotOf[a]
      BY ScratchAssumption DEF Paths
    <3>2. ASSUME NEW p \in Attempts, p # a PROVE scene'[p] = scene[p]
      BY <3>1, <3>2 DEF OwnStep
    <3> QED
      BY <3>2 DEF OwnStep, Forsaken
  <2> DEFINE p == collector[c].path
  <2>5. collector[c].at = "removing" /\ (scene'[p] # None \/ p \in Slots) => lock'[p] = c
    <3> SUFFICES ASSUME collector[c].at = "removing", scene'[p] # None \/ p \in Slots
                 PROVE  lock'[p] = c
      OBVIOUS
    <3>1. p \in Paths /\ Forsaken(p)
      BY <2>1 DEF Collecting
    <3>2. scene[p] # None \/ p \in Slots
      BY <2>4, <3>1 DEF Paths
    <3>3. lock[p] = c
      BY <2>1, <3>2 DEF Collecting
    <3>4. ~(p = a /\ scene[a] = None)
      BY <3>2, ScratchAssumption
    <3> QED
      BY <2>1, <3>1, <3>3, <3>4 DEF OwnStep
  <2>6. \A q \in collector[c].todo : IF q \in Attempts THEN ~At(q, {"idle"})' ELSE ContractOf[q] \in terminal'
    BY <2>1, <2>2 DEF Collecting
  <2>7. collector[c].at \in {"removing", "releasing", "unlinking"} => p \in Paths /\ Forsaken(p)'
    BY <2>1, <2>3 DEF Collecting
  <2>8. /\ collector[c].at = "releasing" /\ Spent(c) => scene'[p] = None
        /\ collector[c].at = "unlinking" => p \in Attempts /\ scene'[p] = None
    BY <2>1, <2>4 DEF Collecting, Spent
  <2>9. Spent(c)' <=> Spent(c)
    BY <2>1 DEF Spent
  <2>10. p' = p
    BY <2>1
  <2> QED
    BY <2>1, <2>5, <2>6, <2>7, <2>8, <2>9, <2>10 DEF Collecting
<1> QED
  BY <1>1, <1>2 DEF Inv

(* What a reconcile's step may do: it removes, locks a path that is free,    *)
(* gives up its own lock, or unlinks that of a scene that is gone and that   *)
(* nobody owns.                                                              *)
CollectorStep(c) ==
    /\ \A d \in Collectors : d # c => collector'[d] = collector[d]
    /\ \A p \in Paths : scene'[p] \in {scene[p], None}
    /\ \A p \in Paths : \/ lock'[p] = lock[p] \/ lock[p] \in {None, c}
                        \/ p \in Attempts /\ scene[p] = None /\ ~Owning(p)
    /\ UNCHANGED <<attempt, proc, terminal>>

LEMMA CollectorStepKeeps ==
    ASSUME Inv, NEW c \in Collectors, CollectorStep(c), Typed', Collecting(c)'
    PROVE  Inv'
<1>1. ASSUME NEW b \in Attempts PROVE GroupKept(b)' /\ Locked(b)' /\ Told(b)'
  <2>1. /\ attempt' = attempt /\ proc' = proc /\ b # None /\ b # c /\ b \in Paths
        /\ SlotOf[b] \in Paths /\ SlotOf[b] \notin Attempts
    BY ScratchAssumption DEF CollectorStep, Paths
  <2>2. GroupKept(b)'
    BY <2>1 DEF Inv, GroupKept, Running, Alive, At
  <2>3. Locked(b)'
    <3>1. (Owning(b)' <=> Owning(b)) /\ (Handling(b)' <=> Handling(b)) /\ (Retained(b)' <=> Retained(b))
      BY <2>1 DEF Owning, Handling, Retained, At
    <3>2. Locked(b)
      BY DEF Inv
    <3>3. Owning(b) => lock'[b] = b
      BY <2>1, <3>2 DEF CollectorStep, Locked
    <3>4. Handling(b) => lock'[SlotOf[b]] = b
      BY <2>1, <3>2 DEF CollectorStep, Locked
    <3> QED
      BY <3>1, <3>2, <3>3, <3>4 DEF Locked
  <2>4. Told(b)'
    <3>1. scene[b] = None => scene'[b] = None
      BY <2>1 DEF CollectorStep
    <3> QED
      BY <2>1, <3>1 DEF Inv, Told, At
  <2> QED
    BY <2>2, <2>3, <2>4
<1>2. ASSUME NEW d \in Collectors PROVE Collecting(d)'
  <2>1. CASE d = c
    BY <2>1
  <2>2. CASE d # c
    <3>1. /\ collector'[d] = collector[d] /\ terminal' = terminal /\ Collecting(d) /\ attempt' = attempt
          /\ d # None
      BY <2>2, ScratchAssumption DEF CollectorStep, Inv
    <3> DEFINE p == collector[d].path
    <3>2. collector[d].at = "removing" /\ (scene'[p] # None \/ p \in Slots) => lock'[p] = d
      <4> SUFFICES ASSUME collector[d].at = "removing", scene'[p] # None \/ p \in Slots
                   PROVE  lock'[p] = d
        OBVIOUS
      <4>1. p \in Paths
        BY <3>1 DEF Collecting
      <4>2. scene[p] # None \/ p \in Slots
        BY <4>1 DEF CollectorStep
      <4>3. lock[p] = d
        BY <3>1, <4>2 DEF Collecting
      <4>4. ~(p \in Attempts /\ scene[p] = None)
        BY <4>2, ScratchAssumption
      <4> QED
        BY <2>2, <3>1, <4>1, <4>3, <4>4 DEF CollectorStep
    <3>3. /\ collector[d].at = "releasing" /\ Spent(d) => scene'[p] = None
          /\ collector[d].at = "unlinking" => p \in Attempts /\ scene'[p] = None
      BY <3>1 DEF CollectorStep, Collecting, Paths, Spent
    <3>4. (Spent(d)' <=> Spent(d)) /\ p' = p
      BY <3>1 DEF Spent
    <3>5. (Forsaken(p))' <=> Forsaken(p)
      BY <3>1, <3>4 DEF Forsaken, Owning, At
    <3>6. \A q \in collector[d].todo : IF q \in Attempts THEN ~At(q, {"idle"})' ELSE ContractOf[q] \in terminal'
      BY <3>1 DEF Collecting, At
    <3> QED
      BY <3>1, <3>2, <3>3, <3>4, <3>5, <3>6 DEF Collecting
  <2> QED
    BY <2>1, <2>2
<1> QED
  BY <1>1, <1>2 DEF Inv

-----------------------------------------------------------------------------
(* The initial states                                                        *)

LEMMA InitInv == Init => Inv
<1> SUFFICES ASSUME Init PROVE Inv
  OBVIOUS
<1> PICK s \in Scenarios :
         /\ attempt = [a \in Attempts |->
              [at |-> s.from[a].at, outcome |-> s.from[a].outcome, limited |-> a \in s.limited, aborted |-> FALSE,
               todo |-> 0, destroy |-> 0, cleanup |-> FALSE, leak |-> "none"]]
         /\ scene = [p \in Paths |-> IF p \in Attempts /\ s.from[p].at = "retiring" THEN p
                                     ELSE IF p \in s.kept THEN CHOOSE a \in Attempts : SlotOf[a] = p ELSE None]
         /\ lock = [p \in Paths |-> IF p \in Attempts /\ s.from[p].at = "retiring" THEN p ELSE None]
         /\ collector = [c \in Collectors |->
              [at |-> IF c \in s.collectors THEN "idle" ELSE "done", todo |-> {}, path |-> None, removed |-> FALSE]]
         /\ terminal = s.terminal /\ left = s.left
         /\ proc = [a \in Attempts |-> NoChild]
  BY DEF Init
<1>1. /\ s.from \in [Attempts -> Starts] /\ s.terminal \subseteq Contracts
      /\ s.kept \subseteq {SlotOf[a] : a \in Attempts}
      /\ Attempts \cap Slots = {} /\ None \notin Attempts /\ SlotOf \in [Attempts -> Slots]
  BY ScratchAssumption
<1>2. ASSUME NEW a \in Attempts
      PROVE  \/ s.from[a].at = "idle" /\ s.from[a].outcome = "none"
             \/ s.from[a].at = "retiring" /\ s.from[a].outcome \in Reports
             \/ s.from[a].at = "done" /\ s.from[a].outcome \in {"satisfied", "cancelled"}
  <2> DEFINE f == s.from[a]
  <2>1. f \in Starts
    BY <1>1
  <2>2. f \in [at : {"idle"}, outcome : {"none"}] => f.at = "idle" /\ f.outcome = "none"
    OBVIOUS
  <2>3. f \in [at : {"retiring"}, outcome : Reports] => f.at = "retiring" /\ f.outcome \in Reports
    OBVIOUS
  <2>4. f \in [at : {"done"}, outcome : {"satisfied", "cancelled"}] =>
          f.at = "done" /\ f.outcome \in {"satisfied", "cancelled"}
    OBVIOUS
  <2> HIDE DEF f
  <2>5. \/ f.at = "idle" /\ f.outcome = "none"
        \/ f.at = "retiring" /\ f.outcome \in Reports
        \/ f.at = "done" /\ f.outcome \in {"satisfied", "cancelled"}
    BY <2>1, <2>2, <2>3, <2>4 DEF Starts
  <2> QED
    BY <2>5 DEF f
<1>3. ASSUME NEW a \in Attempts
      PROVE  /\ attempt[a] = [at |-> s.from[a].at, outcome |-> s.from[a].outcome, limited |-> a \in s.limited,
                              aborted |-> FALSE, todo |-> 0, destroy |-> 0, cleanup |-> FALSE, leak |-> "none"]
             /\ scene[a] = IF s.from[a].at = "retiring" THEN a ELSE None
             /\ s.from[a].at = "retiring" => lock[a] = a
             /\ proc[a] = NoChild
  <2>1. a \notin s.kept
    BY <1>1
  <2> QED
    BY <1>1, <2>1 DEF Paths
<1>4. NoChild \in ChildRecords /\ NoChild.at = "none" /\ NoChild.leader = "none" /\ ~NoChild.crew /\ ~NoChild.seen
  BY DEF NoChild, Child, ChildRecords, Terms
<1>5. Typed
  <2>1. ASSUME NEW a \in Attempts PROVE attempt[a] \in AttemptRecords
    BY <1>2, <1>3 DEF AttemptRecords, Places, Before, Reported, Reports, Leaks
  <2>2. scene \in [Paths -> Attempts \cup {None}]
    <3>1. ASSUME NEW p \in s.kept PROVE (CHOOSE a \in Attempts : SlotOf[a] = p) \in Attempts
      BY <1>1
    <3> QED
      BY <3>1 DEF Paths
  <2>3. /\ attempt \in [Attempts -> AttemptRecords] /\ proc \in [Attempts -> ChildRecords]
        /\ collector \in [Collectors -> CollectorRecords] /\ terminal \subseteq Contracts
        /\ lock \in [Paths -> Attempts \cup Collectors \cup {None}]
    BY <2>1, <1>1, <1>4 DEF CollectorRecords, Paths
  <2> QED
    BY <2>2, <2>3, <1>3 DEF Typed
<1>6. ASSUME NEW a \in Attempts PROVE GroupKept(a) /\ Locked(a) /\ Told(a)
  <2>1. GroupKept(a)
    BY <1>3, <1>4 DEF GroupKept, Running, Alive
  <2>2. Locked(a)
    BY <1>2, <1>3 DEF Locked, Owning, Handling, At
  <2>3. Told(a)
    <3>1. /\ attempt[a].at = s.from[a].at /\ attempt[a].outcome = s.from[a].outcome /\ attempt[a].leak = "none"
          /\ s.from[a].at # "retiring" => scene[a] = None
      BY <1>3
    <3>2. CASE s.from[a].at = "idle" /\ s.from[a].outcome = "none"
      BY <3>1, <3>2 DEF Told, At, Before, Reported
    <3>3. CASE s.from[a].at = "retiring" /\ s.from[a].outcome \in Reports
      BY <3>1, <3>3 DEF Told, At, Before, Reported
    <3>4. CASE s.from[a].at = "done" /\ s.from[a].outcome \in {"satisfied", "cancelled"}
      BY <3>1, <3>4 DEF Told, At, Before, Reported
    <3> QED
      BY <1>2, <3>2, <3>3, <3>4
  <2> QED
    BY <2>1, <2>2, <2>3
<1>7. ASSUME NEW c \in Collectors PROVE Collecting(c)
  BY DEF Collecting, Spent
<1> QED
  BY <1>5, <1>6, <1>7 DEF Inv

-----------------------------------------------------------------------------
(* The steps of a child's group                                              *)

(* What a step on the group of one attempt leaves: the child is still of the *)
(* same kind, a group that is over stays over, and nobody comes back to it.  *)
GroupStep(a) ==
    /\ proc' \in [Attempts -> ChildRecords]
    /\ \A b \in Attempts : b # a => proc'[b] = proc[b]
    /\ proc'[a].at = proc[a].at /\ (Alive(a)' => Alive(a))
    /\ proc'[a].seen => proc'[a].leader = "exited"
    /\ Running(a) /\ proc'[a].term \in {"leader", "done"} => proc'[a].seen /\ ~proc'[a].crew
    /\ ~Running(a) => proc'[a].term = proc[a].term

LEMMA GroupStepKeeps ==
    ASSUME NEW a \in Attempts, GroupKept(a), GroupStep(a), attempt'[a].at = attempt[a].at
    PROVE  GroupKept(a)'
BY DEF GroupKept, GroupStep, Running, Alive, At

(* Processes end by themselves, or because the kernel ends them.             *)
LEMMA ExitsAreGroupSteps ==
    ASSUME Typed, NEW a \in Attempts, GroupKept(a), LeaderExits(a) \/ CrewEnds(a) \/ KernelKills(a)
    PROVE  GroupStep(a)
<1>1. proc \in [Attempts -> ChildRecords] /\ proc[a] \in ChildRecords
  BY DEF Typed
<1>2. CASE LeaderExits(a)
  <2>1. PICK code \in {"zero", "other", "killed"} :
          proc' = [proc EXCEPT ![a].leader = "exited", ![a].code = code]
    BY <1>2 DEF LeaderExits
  <2> QED
    BY <1>1, <1>2, <2>1 DEF LeaderExits, GroupStep, GroupKept, Running, Alive, ChildRecords, Terms
<1>3. CASE CrewEnds(a)
  BY <1>1, <1>3 DEF CrewEnds, GroupStep, GroupKept, Running, Alive, ChildRecords, Terms
<1>4. CASE KernelKills(a)
  BY <1>1, <1>4 DEF KernelKills, GroupStep, GroupKept, Running, Alive, ChildRecords, Terms
<1> QED
  BY <1>2, <1>3, <1>4

(* To ask for a stop starts the one termination there is, if none has begun. *)
LEMMA StopIsGroupStep ==
    ASSUME Typed, NEW a \in Attempts, GroupKept(a), NEW reason \in {"timeout", "cancelled"}, NEW sent \in Signals,
           Stoppable(a), RequestStop(a, reason, sent)
    PROVE  GroupStep(a)
<1>1. proc \in [Attempts -> ChildRecords] /\ proc[a] \in ChildRecords
  BY DEF Typed
<1>2. proc' = [proc EXCEPT ![a] = IF proc[a].term = "none" THEN [proc[a] EXCEPT !.stop = reason, !.term = sent]
                                  ELSE [proc[a] EXCEPT !.stop = reason]]
  BY <1>1 DEF RequestStop, Terminating, ChildRecords
<1> QED
  BY <1>1, <1>2 DEF GroupStep, GroupKept, Stoppable, Running, Alive, Signals, ChildRecords, Terms

LEMMA SeeExitIsGroupStep ==
    ASSUME Typed, NEW a \in Attempts, GroupKept(a), NEW sent \in Signals, SeeExit(a, sent)
    PROVE  GroupStep(a)
<1>1. proc \in [Attempts -> ChildRecords] /\ proc[a] \in ChildRecords
  BY DEF Typed
<1>2. proc' = [proc EXCEPT ![a] = IF proc[a].term = "none" THEN [proc[a] EXCEPT !.seen = TRUE, !.term = sent]
                                  ELSE [proc[a] EXCEPT !.seen = TRUE]]
  BY <1>1 DEF SeeExit, Terminating, ChildRecords
<1>3. Running(a) /\ proc[a].leader = "exited" /\ ~proc[a].seen /\ proc[a].term \notin {"leader", "done"}
  BY DEF SeeExit, GroupKept
<1> QED
  BY <1>1, <1>2, <1>3 DEF GroupStep, Running, Alive, Signals, ChildRecords, Terms

(* A stage of the termination: it is over only where the group is.           *)
LEMMA StagesAreGroupSteps ==
    ASSUME Typed, NEW a \in Attempts, GroupKept(a), NEW sent \in Signals,
           Stage(a) \/ GraceOver(a, sent) \/ GiveUp(a)
    PROVE  GroupStep(a)
<1>1. proc \in [Attempts -> ChildRecords] /\ proc[a] \in ChildRecords
  BY DEF Typed
<1>2. CASE Refused(a)
  BY <1>1, <1>2 DEF Refused, To, GroupStep, GroupKept, Running, Alive, ChildRecords, Terms
<1>3. CASE AfterSignal(a)
  BY <1>1, <1>3 DEF AfterSignal, GroupExists, To, GroupStep, GroupKept, Running, Alive, ChildRecords, Terms
<1>4. CASE GroupGone(a)
  BY <1>1, <1>4 DEF GroupGone, GroupExists, To, GroupStep, GroupKept, Running, Alive, ChildRecords, Terms
<1>5. CASE LeaderSeen(a)
  BY <1>1, <1>5 DEF LeaderSeen, To, GroupStep, GroupKept, Running, Alive, ChildRecords, Terms
<1>6. CASE GiveUp(a)
  BY <1>1, <1>6 DEF GiveUp, GroupExists, To, GroupStep, GroupKept, Running, Alive, ChildRecords, Terms
<1>7. CASE GraceOver(a, sent)
  <2>1. CASE GroupExists(a)
    <3>1. proc' = [proc EXCEPT ![a].killed = sent # "failed", ![a].term = IF sent = "sent" THEN "polling" ELSE sent]
      BY <1>7, <2>1 DEF GraceOver
    <3> QED
      BY <1>1, <1>7, <3>1 DEF GraceOver, GroupStep, GroupKept, Running, Alive, Signals, ChildRecords, Terms
  <2>2. CASE ~GroupExists(a)
    BY <1>1, <1>7, <2>2 DEF GraceOver, GroupExists, To, GroupStep, GroupKept, Running, Alive, ChildRecords, Terms
  <2> QED
    BY <2>1, <2>2
<1> QED
  BY <1>2, <1>3, <1>4, <1>5, <1>6, <1>7 DEF Stage

(* Where only the group of an attempt moves, nothing else is disturbed.      *)
LEMMA GroupStepKeepsInv ==
    ASSUME Inv, NEW a \in Attempts, GroupStep(a), UNCHANGED <<attempt, collector, scene, lock, terminal>>
    PROVE  Inv'
<1>1. Typed'
  BY DEF Inv, Typed, GroupStep
<1>2. ASSUME NEW b \in Attempts PROVE GroupKept(b)' /\ Locked(b)' /\ Told(b)'
  <2>1. GroupKept(b) /\ Locked(b) /\ Told(b)
    BY DEF Inv
  <2>2. GroupKept(b)'
    <3>1. CASE b = a
      BY <2>1, <3>1, GroupStepKeeps
    <3>2. CASE b # a
      BY <2>1, <3>2 DEF GroupStep, GroupKept, Running, Alive, At
    <3> QED
      BY <3>1, <3>2
  <2>3. Locked(b)' /\ Told(b)'
    BY <2>1 DEF Locked, Told, Owning, Handling, Retained, At
  <2> QED
    BY <2>2, <2>3
<1>3. ASSUME NEW c \in Collectors PROVE Collecting(c)'
  <2>1. Collecting(c)
    BY DEF Inv
  <2> QED
    BY <2>1 DEF Collecting, Forsaken, Spent, Owning, At
<1> QED
  BY <1>1, <1>2, <1>3 DEF Inv

-----------------------------------------------------------------------------
(* What becomes of an attempt                                                *)

Became(a, place, outcome, leak) ==
    /\ attempt' \in [Attempts -> AttemptRecords]
    /\ \A b \in Attempts : b # a => attempt'[b] = attempt[b]
    /\ attempt'[a].at = place /\ attempt'[a].outcome = outcome /\ attempt'[a].leak = leak

LEMMA GoToBecomes ==
    ASSUME Typed, NEW a \in Attempts, NEW place \in Places, GoTo(a, place)
    PROVE  Became(a, place, attempt[a].outcome, attempt[a].leak)
<1>1. attempt \in [Attempts -> AttemptRecords] /\ attempt[a] \in AttemptRecords
  BY DEF Typed
<1> QED
  BY <1>1 DEF GoTo, Became, AttemptRecords

LEMMA ReportBecomes ==
    ASSUME Typed, NEW a \in Attempts, NEW place \in Places, NEW outcome \in Reports \cup {"none", "unavailable"},
           Report(a, outcome, place)
    PROVE  Became(a, place, outcome, attempt[a].leak)
<1>1. attempt \in [Attempts -> AttemptRecords] /\ attempt[a] \in AttemptRecords
  BY DEF Typed
<1> QED
  BY <1>1 DEF Report, Became, AttemptRecords

(* Who ends without an outcome was aborted or could not begin.               *)
LEMMA FinishBecomes ==
    ASSUME Typed, NEW a \in Attempts, Finish(a)
    PROVE  \E outcome \in Reports \cup {"unavailable"} :
             /\ Became(a, "done", outcome, attempt[a].leak)
             /\ attempt[a].outcome # "none" => outcome = attempt[a].outcome
             /\ attempt[a].outcome = "none" => outcome \in {"cancelled", "unavailable"}
<1> DEFINE outcome == IF attempt[a].outcome = "none" THEN Excused(a, "unavailable") ELSE attempt[a].outcome
<1>1. attempt[a].outcome \in Reports \cup {"none", "unavailable"}
  BY DEF Typed, AttemptRecords
<1>2. /\ outcome \in Reports \cup {"unavailable"}
      /\ attempt[a].outcome # "none" => outcome = attempt[a].outcome
      /\ attempt[a].outcome = "none" => outcome \in {"cancelled", "unavailable"}
  BY <1>1 DEF Excused, Reports
<1>3. Report(a, outcome, "done")
  BY DEF Finish
<1> HIDE DEF outcome
<1>4. Became(a, "done", outcome, attempt[a].leak)
  BY <1>2, <1>3, ReportBecomes DEF Places
<1> QED
  BY <1>2, <1>4

(* The places where an attempt works in its scene, and what a step between   *)
(* them needs to keep.                                                       *)
Working == {"settings", "setup", "checking", "cleaning"}

LEMMA WorkKeeps ==
    ASSUME Inv, NEW a \in Attempts, At(a, Working),
           NEW place \in {"setup", "checking", "cleaning", "retiring", "lost"}, NEW outcome,
           place \in {"cleaning", "retiring"} => outcome \in Reports,
           Became(a, place, outcome, attempt[a].leak),
           proc' \in [Attempts -> ChildRecords], \A b \in Attempts : b # a => proc'[b] = proc[b], GroupKept(a)',
           UNCHANGED <<collector, scene, lock, terminal>>
    PROVE  Inv'
<1>1. Typed'
  BY DEF Inv, Typed, Became
<1>2. Owning(a) /\ Owning(a)' /\ ~Handling(a)' /\ ~At(a, {"idle"})'
  BY DEF Became, Owning, Handling, At, Working
<1>3. Locked(a)'
  BY <1>2 DEF Inv, Locked
<1>4. Told(a)'
  BY DEF Became, Told, At, Before, Reported
<1>5. OwnStep(a)
  BY <1>2 DEF OwnStep, Became
<1> QED
  BY <1>1, <1>3, <1>4, <1>5, OwnStepKeeps

Results == {"thrown", "zero", "other", "timeout", "cancelled", "unknown", "spawn"}

(* Whatever a command's result is, the attempt goes on in its scene, and     *)
(* whoever leaves the commands has something to report.                      *)
LEMMA AfterCommandBecomes ==
    ASSUME Inv, NEW a \in Attempts, At(a, Phases), NEW result \in Results, AfterCommand(a, result)
    PROVE  \E place \in {"setup", "checking", "cleaning", "retiring", "lost"},
              outcome \in Reports \cup {"none", "unavailable"} :
             /\ place \in {"cleaning", "retiring"} => outcome \in Reports
             /\ Became(a, place, outcome, attempt[a].leak)
<1> DEFINE Goal == \E place \in {"setup", "checking", "cleaning", "retiring", "lost"},
                      outcome \in Reports \cup {"none", "unavailable"} :
                     /\ place \in {"cleaning", "retiring"} => outcome \in Reports
                     /\ Became(a, place, outcome, attempt[a].leak)
<1>1. /\ attempt \in [Attempts -> AttemptRecords] /\ attempt[a] \in AttemptRecords /\ Typed
      /\ attempt[a].outcome \in Reports \cup {"none", "unavailable"}
      /\ At(a, {"cleaning"}) => attempt[a].outcome \in Reports
  BY DEF Inv, Typed, AttemptRecords, Told, At, Reported
<1>2. ASSUME NEW outcome \in Reports, Cleaning(a, outcome) PROVE Became(a, "cleaning", outcome, attempt[a].leak)
  <2>1. attempt' = [attempt EXCEPT ![a] = [attempt[a] EXCEPT !.outcome = outcome, !.at = "cleaning",
                                                             !.todo = attempt[a].destroy]]
    BY <1>1, <1>2 DEF Cleaning
  <2>2. [attempt[a] EXCEPT !.outcome = outcome, !.at = "cleaning", !.todo = attempt[a].destroy] \in AttemptRecords
    BY <1>1 DEF AttemptRecords, Places, Reported
  <2> QED
    BY <1>1, <2>1, <2>2 DEF Became, AttemptRecords
<1>3. CASE result = "thrown"
  <2>1. CASE At(a, {"cleaning"})
    <3>1. GoTo(a, "lost")
      BY <1>3, <2>1 DEF AfterCommand
    <3>2. Became(a, "lost", attempt[a].outcome, attempt[a].leak)
      BY <1>1, <3>1, GoToBecomes DEF Places
    <3> QED
      BY <1>1, <3>2
  <2>2. CASE ~At(a, {"cleaning"})
    <3> DEFINE outcome == Excused(a, "environment")
    <3>1. Report(a, outcome, "retiring")
      BY <1>3, <2>2 DEF AfterCommand
    <3>2. outcome \in Reports
      BY DEF Excused, Reports
    <3> HIDE DEF outcome
    <3>3. Became(a, "retiring", outcome, attempt[a].leak)
      BY <1>1, <3>1, <3>2, ReportBecomes DEF Places, Reported
    <3> QED
      BY <3>2, <3>3
  <2> QED
    BY <2>1, <2>2
<1>4. CASE result # "thrown" /\ At(a, {"checking"})
  <2> DEFINE outcome == Verdict[result]
  <2>1. Cleaning(a, outcome)
    BY <1>4 DEF AfterCommand
  <2>2. outcome \in Reports
    BY <1>4 DEF Verdict, Results, Reports
  <2> HIDE DEF outcome
  <2>3. Became(a, "cleaning", outcome, attempt[a].leak)
    BY <1>2, <2>1, <2>2
  <2> QED
    BY <2>2, <2>3
<1>5. CASE result = "zero" /\ ~At(a, {"checking"})
  <2>1. NextCommand(a)
    BY <1>5 DEF AfterCommand
  <2>2. Became(a, attempt[a].at, attempt[a].outcome, attempt[a].leak)
    BY <1>1, <2>1 DEF NextCommand, Became, AttemptRecords
  <2>3. attempt[a].at \in {"setup", "cleaning"}
    BY <1>5 DEF At, Phases
  <2> QED
    BY <1>1, <2>2, <2>3 DEF At
<1>6. CASE result \notin {"thrown", "zero"} /\ At(a, {"setup"})
  <2> DEFINE outcome == IF result = "cancelled" THEN "cancelled" ELSE "environment"
  <2>1. ~At(a, {"checking"})
    BY <1>6 DEF At
  <2>2. Cleaning(a, outcome)
    BY <1>6, <2>1 DEF AfterCommand
  <2>3. outcome \in Reports
    BY DEF Reports
  <2> HIDE DEF outcome
  <2>4. Became(a, "cleaning", outcome, attempt[a].leak)
    BY <1>2, <2>2, <2>3
  <2> QED
    BY <2>3, <2>4
<1>7. CASE result \notin {"thrown", "zero"} /\ At(a, {"cleaning"})
  <2>1. ~At(a, {"checking"}) /\ ~At(a, {"setup"})
    BY <1>7 DEF At
  <2>2. attempt' = [attempt EXCEPT ![a].cleanup = TRUE, ![a].at = "retiring"]
    BY <1>7, <2>1 DEF AfterCommand
  <2>3. Became(a, "retiring", attempt[a].outcome, attempt[a].leak)
    BY <1>1, <2>2 DEF Became, AttemptRecords, Places, Reported
  <2> QED
    BY <1>1, <1>7, <2>3
<1> QED
  BY <1>3, <1>4, <1>5, <1>6, <1>7 DEF At, Phases

-----------------------------------------------------------------------------
(* The steps of an attempt that works in its scene                           *)

LEMMA AfterCommandKeeps ==
    ASSUME Inv, NEW a \in Attempts, At(a, Phases), NEW result \in Results, AfterCommand(a, result),
           proc' \in [Attempts -> ChildRecords], \A b \in Attempts : b # a => proc'[b] = proc[b],
           ~Running(a)', proc'[a].at # "stray",
           proc'[a].seen => proc'[a].leader = "exited",
           proc'[a].at \in {"none", "over"} /\ Alive(a)' => proc'[a].term = "failed",
           UNCHANGED <<collector, scene, lock, terminal>>
    PROVE  Inv'
<1> PICK place \in {"setup", "checking", "cleaning", "retiring", "lost"},
         outcome \in Reports \cup {"none", "unavailable"} :
      /\ place \in {"cleaning", "retiring"} => outcome \in Reports
      /\ Became(a, place, outcome, attempt[a].leak)
  BY AfterCommandBecomes
<1>1. GroupKept(a)'
  BY DEF GroupKept
<1>2. At(a, Working)
  BY DEF At, Phases, Working
<1> QED
  BY <1>1, <1>2, WorkKeeps

LEMMA PhasesKeep ==
    ASSUME Inv, NEW a \in Attempts, ReadHooks(a) \/ PhaseEnds(a)
    PROVE  Inv'
<1>1. /\ Typed /\ attempt \in [Attempts -> AttemptRecords] /\ attempt[a] \in AttemptRecords
      /\ proc \in [Attempts -> ChildRecords] /\ GroupKept(a) /\ Told(a)
  BY DEF Inv, Typed
<1>2. CASE ReadHooks(a)
  <2>1. /\ At(a, Working) /\ At(a, {"settings"}) /\ ~Running(a) /\ proc[a].at # "stray"
        /\ proc' = proc /\ UNCHANGED <<collector, scene, lock, terminal>>
    BY <1>1, <1>2 DEF ReadHooks, At, Working, GroupKept, Phases
  <2>2. /\ GroupKept(a)' /\ proc' \in [Attempts -> ChildRecords]
        /\ \A b \in Attempts : b # a => proc'[b] = proc[b]
    BY <1>1, <2>1 DEF GroupKept, Running, Alive
  <2>3. ASSUME NEW outcome \in {"cancelled", "environment"}, Report(a, outcome, "retiring")
        PROVE  Inv'
    <3>1. Became(a, "retiring", outcome, attempt[a].leak)
      BY <1>1, <2>3, ReportBecomes DEF Places, Reported, Reports
    <3> QED
      BY <2>1, <2>2, <3>1, WorkKeeps DEF Reports
  <2>4. ASSUME NEW create \in Commands, NEW destroy \in Commands,
               attempt' = [attempt EXCEPT ![a].at = "setup", ![a].todo = create, ![a].destroy = destroy]
        PROVE  Inv'
    <3>1. create \in Int /\ destroy \in Int
      BY ScratchAssumption
    <3>2. Became(a, "setup", attempt[a].outcome, attempt[a].leak)
      BY <1>1, <2>4, <3>1 DEF Became, AttemptRecords, Places
    <3> QED
      BY <2>1, <2>2, <3>2, WorkKeeps
  <2> QED
    BY <1>2, <2>3, <2>4 DEF ReadHooks
<1>3. CASE PhaseEnds(a)
  <2>1. /\ At(a, Working) /\ ~Running(a) /\ proc[a].at # "stray"
        /\ proc' = proc /\ UNCHANGED <<collector, scene, lock, terminal>>
    BY <1>1, <1>3 DEF PhaseEnds, At, Working, GroupKept, Phases
  <2>2. /\ GroupKept(a)' /\ proc' \in [Attempts -> ChildRecords]
        /\ \A b \in Attempts : b # a => proc'[b] = proc[b]
    BY <1>1, <2>1 DEF GroupKept, Running, Alive
  <2>3. CASE At(a, {"setup"}) /\ GoTo(a, "checking")
    <3>1. Became(a, "checking", attempt[a].outcome, attempt[a].leak)
      BY <1>1, <2>3, GoToBecomes DEF Places
    <3> QED
      BY <2>1, <2>2, <3>1, WorkKeeps
  <2>4. CASE At(a, {"cleaning"}) /\ GoTo(a, "retiring")
    <3>1. Became(a, "retiring", attempt[a].outcome, attempt[a].leak)
      BY <1>1, <2>4, GoToBecomes DEF Places, Reported
    <3>2. attempt[a].outcome \in Reports
      BY <1>1, <2>4 DEF Told, At, Reported
    <3> QED
      BY <2>1, <2>2, <3>1, <3>2, WorkKeeps
  <2> QED
    BY <1>3, <2>3, <2>4 DEF PhaseEnds
<1> QED
  BY <1>2, <1>3

LEMMA CommandsKeep ==
    ASSUME Inv, NEW a \in Attempts, StartsCommand(a) \/ CommandReturns(a)
    PROVE  Inv'
<1>1. /\ Typed /\ proc \in [Attempts -> ChildRecords] /\ proc[a] \in ChildRecords /\ GroupKept(a)
  BY DEF Inv, Typed
<1>2. CASE StartsCommand(a)
  <2>1. /\ At(a, Phases) /\ ~Running(a) /\ proc[a].at # "stray" /\ UNCHANGED <<collector, scene, lock, terminal>>
    BY <1>1, <1>2 DEF StartsCommand, GroupKept, At, Phases
  <2>2. ASSUME NEW result \in Results, AfterCommand(a, result), UNCHANGED proc PROVE Inv'
    BY <1>1, <2>1, <2>2, AfterCommandKeeps DEF GroupKept, Running, Alive
  <2>3. ASSUME NEW crew \in BOOLEAN, NEW keeps \in BOOLEAN, UNCHANGED attempt,
               proc' = [proc EXCEPT ![a] = Child(attempt[a].limited \/ ~At(a, {"checking"}), crew, keeps)]
        PROVE  Inv'
    <3> DEFINE limited == attempt[a].limited \/ ~At(a, {"checking"})
    <3>1. limited \in BOOLEAN
      OBVIOUS
    <3> HIDE DEF limited
    <3>2. Child(limited, crew, keeps) \in ChildRecords
      BY <3>1 DEF Child, ChildRecords, Terms
    <3>3. /\ Child(limited, crew, keeps).at = "running" /\ ~Child(limited, crew, keeps).seen
          /\ Child(limited, crew, keeps).term = "none"
      BY DEF Child
    <3>4. proc' = [proc EXCEPT ![a] = Child(limited, crew, keeps)]
      BY <2>3 DEF limited
    <3>5. proc' \in [Attempts -> ChildRecords] /\ \A b \in Attempts : b # a => proc'[b] = proc[b]
      BY <1>1, <3>2, <3>4
    <3>6. proc'[a] = Child(limited, crew, keeps)
      BY <1>1, <3>4
    <3>7. Became(a, attempt[a].at, attempt[a].outcome, attempt[a].leak)
      BY <1>1, <2>3 DEF Typed, Became
    <3>8. GroupKept(a)'
      BY <2>1, <2>3, <3>3, <3>6 DEF GroupKept, Running, At
    <3>9. At(a, Working) /\ attempt[a].at \in Phases
      BY <2>1 DEF At, Working, Phases
    <3>10. attempt[a].at = "cleaning" => attempt[a].outcome \in Reports
      BY DEF Inv, Told, At, Reported
    <3> QED
      BY <2>1, <3>5, <3>7, <3>8, <3>9, <3>10, WorkKeeps DEF Phases
  <2> QED
    BY <1>2, <2>2, <2>3 DEF StartsCommand, Results
<1>3. CASE CommandReturns(a)
  <2>1. /\ Returns(a) /\ Reap(a) /\ AfterCommand(a, Outcome(a)) /\ UNCHANGED <<collector, scene, lock, terminal>>
        /\ Running(a) /\ At(a, Phases)
    BY <1>1, <1>3 DEF CommandReturns, Returns, GroupKept
  <2>2. Outcome(a) \in Results
    BY <1>1 DEF Outcome, Results, ChildRecords
  <2>3. proc[a].term = "failed" \/ ~Alive(a)
    BY <1>1, <2>1 DEF Returns, Alive, GroupKept
  <2> DEFINE k == proc[a].killed /\ Alive(a)
             r == [NoChild EXCEPT !.at = "over", !.leader = proc[a].leader, !.crew = proc[a].crew,
                                  !.term = proc[a].term, !.killed = k]
  <2>4. proc' = [proc EXCEPT ![a] = r]
    BY <2>1 DEF Reap
  <2>8. k \in BOOLEAN
    OBVIOUS
  <2> HIDE DEF k
  <2>9. NoChild \in ChildRecords /\ ~NoChild.seen
    BY DEF NoChild, Child, ChildRecords, Terms
  <2>5. /\ r \in ChildRecords /\ r.at = "over" /\ ~r.seen /\ r.term = proc[a].term
        /\ r.leader = proc[a].leader /\ r.crew = proc[a].crew
    <3>1. /\ proc[a].leader \in {"none", "alive", "exited"} /\ proc[a].crew \in BOOLEAN /\ proc[a].term \in Terms
          /\ k \in BOOLEAN
      BY <1>1, <2>8 DEF ChildRecords
    <3> DEFINE leader == proc[a].leader
               crew == proc[a].crew
               term == proc[a].term
    <3> HIDE DEF leader, crew, term
    <3>2. [NoChild EXCEPT !.at = "over", !.leader = leader, !.crew = crew, !.term = term, !.killed = k] \in ChildRecords
      BY <2>9, <3>1 DEF ChildRecords, leader, crew, term
    <3> QED
      BY <2>9, <3>2 DEF ChildRecords, leader, crew, term
  <2> HIDE DEF r
  <2>6. /\ proc' \in [Attempts -> ChildRecords] /\ \A b \in Attempts : b # a => proc'[b] = proc[b]
        /\ proc'[a] = r
    BY <1>1, <2>4, <2>5
  <2>7. /\ ~Running(a)' /\ proc'[a].at # "stray" /\ ~proc'[a].seen
        /\ Alive(a)' => proc'[a].term = "failed"
    BY <2>3, <2>5, <2>6 DEF Running, Alive
  <2> QED
    BY <2>1, <2>2, <2>6, <2>7, AfterCommandKeeps
<1> QED
  BY <1>2, <1>3

-----------------------------------------------------------------------------
(* The steps at the ends of an attempt                                       *)

LEMMA QuietGroup ==
    ASSUME Inv, NEW a \in Attempts, ~At(a, Phases), ~At(a, {"dead"}), proc' = proc
    PROVE  GroupKept(a)'
BY DEF Inv, GroupKept, Running, Alive, At

LEMMA RemovalLeaves ==
    ASSUME Typed, NEW p \in Paths, NEW ok \in BOOLEAN, Removal(p, ok)
    PROVE  /\ scene' \in [Paths -> Attempts \cup {None}]
           /\ \A q \in Paths : q # p => scene'[q] = scene[q]
           /\ scene'[p] \in {scene[p], None}
           /\ ok => scene'[p] = None
<1>1. PICK rest \in {scene[p], None} : (ok => rest = None) /\ scene' = [scene EXCEPT ![p] = rest]
  BY DEF Removal
<1>2. scene \in [Paths -> Attempts \cup {None}]
  BY DEF Typed
<1> QED
  BY <1>1, <1>2

LEMMA LockLeaves ==
    ASSUME Typed, NEW p \in Paths, NEW who \in Attempts \cup Collectors,
           TryLock(p, who) \/ lock' = Released(p, who) \/ lock' = Unlinked(p) \/ lock' = Dropped(who)
    PROVE  /\ lock' \in [Paths -> Attempts \cup Collectors \cup {None}]
           /\ lock' # Dropped(who) => \A q \in Paths : q # p => lock'[q] = lock[q]
           /\ lock' = Released(p, who) \/ lock' = Dropped(who) =>
                \A q \in Paths : lock'[q] = lock[q] \/ lock[q] = who
           /\ TryLock(p, who) => lock[p] = None /\ lock'[p] = who
<1>1. lock \in [Paths -> Attempts \cup Collectors \cup {None}]
  BY DEF Typed
<1>2. CASE TryLock(p, who)
  BY <1>1, <1>2 DEF TryLock, Released, Dropped
<1>3. CASE lock' = Released(p, who)
  BY <1>1, <1>3 DEF TryLock, Released, Dropped
<1>4. CASE lock' = Unlinked(p)
  BY <1>1, <1>4 DEF TryLock, Released, Unlinked, Dropped
<1>5. CASE lock' = Dropped(who)
  BY <1>1, <1>5 DEF TryLock, Released, Dropped
<1> QED
  BY <1>2, <1>3, <1>4, <1>5

(* An attempt that begins locks a path that is free, and nothing is there.   *)
LEMMA BeginKeeps ==
    ASSUME Inv, NEW a \in Attempts, Begin(a)
    PROVE  Inv'
<1>1. /\ Typed /\ Told(a) /\ At(a, {"idle"}) /\ a \in Paths /\ a # None
      /\ UNCHANGED <<collector, scene, terminal, proc>>
  BY ScratchAssumption DEF Inv, Begin, Paths
<1>2. /\ scene[a] = None /\ attempt[a].leak = "none" /\ attempt[a].outcome = "none"
      /\ ~Owning(a) /\ ~Handling(a)
  BY <1>1 DEF Told, At, Owning, Handling, Before
<1>3. GroupKept(a)'
  BY <1>1, QuietGroup DEF At, Phases
<1>4. CASE Finish(a) /\ UNCHANGED lock
  <2> PICK outcome \in Reports \cup {"unavailable"} :
        /\ Became(a, "done", outcome, attempt[a].leak)
        /\ attempt[a].outcome = "none" => outcome \in {"cancelled", "unavailable"}
    BY <1>1, <1>4, FinishBecomes
  <2>1. Typed'
    BY <1>1, <1>4 DEF Typed, Became
  <2>2. Locked(a)' /\ Told(a)'
    BY <1>1, <1>2 DEF Became, Locked, Told, Owning, Handling, At, Before, Reported
  <2>3. OwnStep(a)
    BY <1>1, <1>4 DEF OwnStep, Became, At, Owning
  <2> QED
    BY <1>3, <2>1, <2>2, <2>3, OwnStepKeeps
<1>5. CASE TryLock(a, a) /\ GoTo(a, "adding")
  <2>1. Became(a, "adding", attempt[a].outcome, attempt[a].leak)
    BY <1>1, <1>5, GoToBecomes DEF Places, Before
  <2>2. /\ lock' \in [Paths -> Attempts \cup Collectors \cup {None}] /\ lock[a] = None /\ lock'[a] = a
        /\ \A q \in Paths : q # a => lock'[q] = lock[q]
    <3>1. lock \in [Paths -> Attempts \cup Collectors \cup {None}]
      BY <1>1 DEF Typed
    <3> QED
      BY <1>1, <1>5, <3>1 DEF TryLock
  <2>3. Typed'
    BY <1>1, <2>1, <2>2 DEF Typed, Became
  <2>4. Locked(a)' /\ Told(a)'
    BY <1>2, <2>1, <2>2 DEF Became, Locked, Told, Owning, Handling, At, Before, Reported
  <2>5. OwnStep(a)
    BY <1>1, <2>1, <2>2 DEF OwnStep, Became, At
  <2> QED
    BY <1>3, <2>3, <2>4, <2>5, OwnStepKeeps
<1> QED
  BY <1>4, <1>5 DEF Begin

LEMMA AddKeeps ==
    ASSUME Inv, NEW a \in Attempts, Add(a)
    PROVE  Inv'
<1>1. /\ Typed /\ Told(a) /\ Locked(a) /\ At(a, {"adding"}) /\ a \in Paths
      /\ UNCHANGED <<collector, lock, terminal, proc>>
  BY DEF Inv, Add, Paths
<1>2. attempt[a].outcome = "none" /\ Owning(a) /\ scene \in [Paths -> Attempts \cup {None}]
  BY <1>1 DEF Told, At, Owning, Before, Typed
<1>3. GroupKept(a)'
  BY <1>1, QuietGroup DEF At, Phases
<1>4. PICK part \in {a, None}, place \in {"settings", "undoing"} :
        scene' = [scene EXCEPT ![a] = part] /\ GoTo(a, place)
  BY DEF Add
<1>5. Became(a, place, attempt[a].outcome, attempt[a].leak)
  BY <1>1, <1>4, GoToBecomes DEF Places, Before
<1>6. scene' \in [Paths -> Attempts \cup {None}] /\ scene'[a] = part /\ \A q \in Paths : q # a => scene'[q] = scene[q]
  BY <1>1, <1>2, <1>4
<1>7. Typed'
  <2>1. \A b \in Attempts : b \in Paths
    BY DEF Paths
  <2> QED
    BY <1>1, <1>5, <1>6, <2>1 DEF Typed, Became
<1>8. Locked(a)' /\ Told(a)'
  BY <1>1, <1>2, <1>5 DEF Became, Locked, Told, Owning, Handling, At, Before, Reported
<1>9. OwnStep(a)
  BY <1>1, <1>2, <1>5, <1>6 DEF OwnStep, Became, At
<1> QED
  BY <1>3, <1>7, <1>8, <1>9, OwnStepKeeps

LEMMA UndoKeeps ==
    ASSUME Inv, NEW a \in Attempts, Undo(a)
    PROVE  Inv'
<1>1. /\ Typed /\ Told(a) /\ Locked(a) /\ At(a, {"undoing"}) /\ a \in Paths
      /\ UNCHANGED <<collector, lock, terminal, proc>>
  BY DEF Inv, Undo, Paths
<1>2. attempt[a].outcome = "none" /\ Owning(a) /\ attempt \in [Attempts -> AttemptRecords] /\ attempt[a] \in AttemptRecords
  BY <1>1 DEF Told, At, Owning, Before, Typed
<1>3. GroupKept(a)'
  BY <1>1, QuietGroup DEF At, Phases
<1>4. PICK ok \in BOOLEAN :
        /\ Removal(a, ok)
        /\ attempt' = [attempt EXCEPT ![a].at = "undone", ![a].leak = IF ok THEN "none" ELSE "own"]
  BY DEF Undo
<1>5. /\ scene' \in [Paths -> Attempts \cup {None}] /\ \A q \in Paths : q # a => scene'[q] = scene[q]
      /\ scene'[a] \in {scene[a], None} /\ (ok => scene'[a] = None)
  BY <1>1, <1>4, RemovalLeaves
<1>6. Became(a, "undone", "none", IF ok THEN "none" ELSE "own")
  BY <1>2, <1>4 DEF Became, AttemptRecords, Places, Before, Leaks
<1>7. Typed'
  <2>1. \A b \in Attempts : b \in Paths
    BY DEF Paths
  <2> QED
    BY <1>1, <1>5, <1>6, <2>1 DEF Typed, Became
<1>8. Locked(a)' /\ Told(a)'
  BY <1>1, <1>2, <1>5, <1>6 DEF Became, Locked, Told, Owning, Handling, At, Before, Reported
<1>9. OwnStep(a)
  BY <1>1, <1>2, <1>5, <1>6 DEF OwnStep, Became, At
<1> QED
  BY <1>3, <1>7, <1>8, <1>9, OwnStepKeeps

(* An abort is remembered, and stops the command that is running.            *)
LEMMA AbortKeeps ==
    ASSUME Inv, NEW a \in Attempts, Abort(a)
    PROVE  Inv'
<1>1. /\ Typed /\ GroupKept(a) /\ Told(a) /\ Locked(a)
      /\ attempt \in [Attempts -> AttemptRecords] /\ attempt[a] \in AttemptRecords
      /\ attempt' = [attempt EXCEPT ![a].aborted = TRUE] /\ UNCHANGED <<collector, scene, lock, terminal>>
  BY DEF Inv, Typed, Abort
<1>2. Became(a, attempt[a].at, attempt[a].outcome, attempt[a].leak)
  BY <1>1 DEF Became, AttemptRecords
<1>3. GroupStep(a)
  <2>1. CASE Stoppable(a) /\ At(a, {"setup", "checking"})
    <3>1. PICK sent \in Signals : RequestStop(a, "cancelled", sent)
      BY <2>1 DEF Abort
    <3> QED
      BY <1>1, <2>1, <3>1, StopIsGroupStep
  <2>2. CASE UNCHANGED proc
    BY <1>1, <2>2 DEF GroupStep, GroupKept, Running, Alive, Typed
  <2> QED
    BY <2>1, <2>2 DEF Abort
<1>4. GroupKept(a)'
  BY <1>1, <1>2, <1>3, GroupStepKeeps DEF Became
<1>5. Typed'
  BY <1>1, <1>2, <1>3 DEF Typed, Became, GroupStep
<1>6. Locked(a)' /\ Told(a)'
  BY <1>1, <1>2 DEF Became, Locked, Told, Owning, Handling, Retained, At
<1>7. OwnStep(a)
  BY <1>1, <1>2, <1>3 DEF OwnStep, Became, GroupStep, At, Owning
<1> QED
  BY <1>4, <1>5, <1>6, <1>7, OwnStepKeeps

(* Whose lock it gives up an attempt knows: the slot's, if it handles it.    *)
LEMMA RemoveOwnKeeps ==
    ASSUME Inv, NEW a \in Attempts, RemoveOwn(a)
    PROVE  Inv'
<1>1. /\ Typed /\ Told(a) /\ Locked(a) /\ At(a, {"retiring", "busy", "falling"}) /\ a \in Paths
      /\ SlotOf[a] \in Paths /\ SlotOf[a] # a /\ UNCHANGED <<collector, terminal, proc>>
  BY ScratchAssumption DEF Inv, RemoveOwn, Paths, At
<1>2. /\ attempt[a].outcome \in Reports /\ Owning(a)
      /\ attempt \in [Attempts -> AttemptRecords] /\ attempt[a] \in AttemptRecords
  BY <1>1 DEF Told, At, Owning, Reported, Typed
<1>3. GroupKept(a)'
  BY <1>1, QuietGroup DEF At, Phases
<1>4. PICK ok \in BOOLEAN :
        /\ Removal(a, ok)
        /\ attempt' = [attempt EXCEPT ![a].at = "closing",
               ![a].leak = IF ~ok THEN "own" ELSE IF Retained(a) THEN "unnamed" ELSE "none"]
  BY DEF RemoveOwn
<1>5. /\ scene' \in [Paths -> Attempts \cup {None}] /\ \A q \in Paths : q # a => scene'[q] = scene[q]
      /\ scene'[a] \in {scene[a], None} /\ (ok => scene'[a] = None)
  BY <1>1, <1>4, RemovalLeaves
<1> DEFINE leak == IF ~ok THEN "own" ELSE IF Retained(a) THEN "unnamed" ELSE "none"
<1>6. Became(a, "closing", attempt[a].outcome, leak)
  BY <1>2, <1>4 DEF Became, AttemptRecords, Places, Reported, Leaks
<1>7. /\ lock' \in [Paths -> Attempts \cup Collectors \cup {None}]
      /\ \A q \in Paths : lock'[q] = lock[q] \/ lock[q] = a
      /\ lock'[a] = lock[a]
  <2>1. CASE lock' = lock
    BY <1>1, <2>1 DEF Typed
  <2>2. CASE lock' = Released(SlotOf[a], a)
    <3>1. lock \in [Paths -> Attempts \cup Collectors \cup {None}]
      BY <1>1 DEF Typed
    <3> QED
      BY <1>1, <2>2, <3>1 DEF Released
  <2> QED
    BY <2>1, <2>2 DEF RemoveOwn
<1>8. Typed'
  <2>1. \A b \in Attempts : b \in Paths
    BY DEF Paths
  <2> QED
    BY <1>1, <1>5, <1>6, <1>7, <2>1 DEF Typed, Became
<1>9. Locked(a)'
  BY <1>1, <1>2, <1>6, <1>7 DEF Became, Locked, Owning, Handling, At
<1>10. Told(a)'
  <2>1. /\ leak = "none" => scene'[a] = None
        /\ attempt[a].outcome \in {"unsatisfied", "environment", "stopped"} => leak # "none"
        /\ attempt[a].outcome \in {"satisfied", "cancelled", "none"} => leak \in {"none", "own"}
    BY <1>2, <1>5 DEF Retained, Reports
  <2> HIDE DEF leak
  <2> QED
    BY <1>2, <1>6, <2>1 DEF Became, Told, At, Before, Reported
<1>11. OwnStep(a)
  BY <1>1, <1>2, <1>5, <1>6, <1>7 DEF OwnStep, Became, At
<1> QED
  BY <1>3, <1>8, <1>9, <1>10, <1>11, OwnStepKeeps

LEMMA TakeSlotKeeps ==
    ASSUME Inv, NEW a \in Attempts, TakeSlot(a)
    PROVE  Inv'
<1>1. /\ Typed /\ Told(a) /\ Locked(a) /\ At(a, {"retiring"}) /\ Retained(a) /\ a \in Paths
      /\ SlotOf[a] \in Paths /\ SlotOf[a] # a /\ UNCHANGED <<collector, scene, terminal, proc>>
  BY ScratchAssumption DEF Inv, TakeSlot, Paths
<1>2. attempt[a].outcome \in Reports /\ Owning(a) /\ lock[a] = a /\ a # None
  BY <1>1, ScratchAssumption DEF Told, Locked, At, Owning, Reported
<1>3. GroupKept(a)'
  BY <1>1, QuietGroup DEF At, Phases
<1>4. CASE TryLock(SlotOf[a], a) /\ GoTo(a, "replacing")
  <2>1. Became(a, "replacing", attempt[a].outcome, attempt[a].leak)
    BY <1>1, <1>4, GoToBecomes DEF Places, Reported
  <2>2. /\ lock' \in [Paths -> Attempts \cup Collectors \cup {None}]
        /\ lock[SlotOf[a]] = None /\ lock'[SlotOf[a]] = a
        /\ \A q \in Paths : q # SlotOf[a] => lock'[q] = lock[q]
    <3>1. lock \in [Paths -> Attempts \cup Collectors \cup {None}]
      BY <1>1 DEF Typed
    <3> QED
      BY <1>1, <1>4, <3>1 DEF TryLock
  <2>3. Typed'
    BY <1>1, <2>1, <2>2 DEF Typed, Became
  <2>4. Locked(a)' /\ Told(a)'
    BY <1>1, <1>2, <2>1, <2>2 DEF Became, Locked, Told, Owning, Handling, Retained, At, Before, Reported
  <2>5. OwnStep(a)
    BY <1>1, <1>2, <2>1, <2>2 DEF OwnStep, Became, At
  <2> QED
    BY <1>3, <2>3, <2>4, <2>5, OwnStepKeeps
<1>5. CASE GoTo(a, "busy") /\ UNCHANGED lock
  <2>1. Became(a, "busy", attempt[a].outcome, attempt[a].leak)
    BY <1>1, <1>5, GoToBecomes DEF Places, Reported
  <2>2. Typed'
    BY <1>1, <1>5, <2>1 DEF Typed, Became
  <2>3. Locked(a)' /\ Told(a)'
    BY <1>1, <1>2, <1>5, <2>1 DEF Became, Locked, Told, Owning, Handling, At, Before, Reported
  <2>4. OwnStep(a)
    BY <1>1, <1>2, <1>5, <2>1 DEF OwnStep, Became, At
  <2> QED
    BY <1>3, <2>2, <2>3, <2>4, OwnStepKeeps
<1> QED
  BY <1>4, <1>5 DEF TakeSlot

LEMMA ReplaceKeeps ==
    ASSUME Inv, NEW a \in Attempts, Replace(a)
    PROVE  Inv'
<1>1. /\ Typed /\ Told(a) /\ Locked(a) /\ At(a, {"replacing"}) /\ a \in Paths
      /\ SlotOf[a] \in Paths /\ SlotOf[a] \in Slots /\ SlotOf[a] # a /\ UNCHANGED <<collector, lock, terminal, proc>>
  BY ScratchAssumption DEF Inv, Replace, Paths
<1>2. attempt[a].outcome \in Reports /\ Owning(a) /\ Handling(a)
  BY <1>1 DEF Told, At, Owning, Handling, Reported
<1>3. GroupKept(a)'
  BY <1>1, QuietGroup DEF At, Phases
<1>4. PICK ok \in BOOLEAN : Removal(SlotOf[a], ok) /\ GoTo(a, IF ok THEN "moving" ELSE "falling")
  BY DEF Replace
<1>5. PICK place \in {"moving", "falling"} : GoTo(a, place)
  BY <1>4
<1>6. /\ scene' \in [Paths -> Attempts \cup {None}]
      /\ \A q \in Paths : q # SlotOf[a] => scene'[q] = scene[q]
  BY <1>1, <1>4, RemovalLeaves
<1>7. Became(a, place, attempt[a].outcome, attempt[a].leak)
  BY <1>1, <1>5, GoToBecomes DEF Places, Reported
<1>8. Typed'
  <2>1. \A b \in Attempts : b \in Paths /\ b # SlotOf[a]
    BY <1>1, ScratchAssumption DEF Paths
  <2> QED
    BY <1>1, <1>6, <1>7, <2>1 DEF Typed, Became
<1>9. Locked(a)' /\ Told(a)'
  BY <1>1, <1>2, <1>7 DEF Became, Locked, Told, Owning, Handling, Retained, At, Before, Reported
<1>10. OwnStep(a)
  BY <1>1, <1>2, <1>6, <1>7 DEF OwnStep, Became, At
<1> QED
  BY <1>3, <1>8, <1>9, <1>10, OwnStepKeeps

(* Git's move takes the scene from its own path to the slot.                 *)
LEMMA MovedLeaves ==
    ASSUME Typed, NEW a \in Attempts, scene' \in {scene, Moved(a)}
    PROVE  /\ scene' \in [Paths -> Attempts \cup {None}]
           /\ \A q \in Paths : q \notin {a, SlotOf[a]} => scene'[q] = scene[q]
           /\ \A b \in Attempts : scene'[b] \in {scene[b], None}
<1>1. /\ scene \in [Paths -> Attempts \cup {None}] /\ a \in Paths /\ SlotOf[a] \in Paths
      /\ SlotOf[a] \notin Attempts
  BY ScratchAssumption DEF Typed, Paths
<1>2. CASE scene' = Moved(a)
  <2>1. scene' = [[scene EXCEPT ![a] = None] EXCEPT ![SlotOf[a]] = a]
    BY <1>2 DEF Moved
  <2> QED
    BY <1>1, <2>1 DEF Paths
<1> QED
  BY <1>1, <1>2 DEF Paths

LEMMA MoveKeeps ==
    ASSUME Inv, NEW a \in Attempts, Move(a)
    PROVE  Inv'
<1>1. /\ Typed /\ Told(a) /\ Locked(a) /\ At(a, {"moving"}) /\ a \in Paths
      /\ SlotOf[a] \in Paths /\ SlotOf[a] # a /\ UNCHANGED <<collector, terminal, proc>>
  BY ScratchAssumption DEF Inv, Move, Paths
<1>2. /\ attempt[a].outcome \in Reports /\ Owning(a) /\ Handling(a) /\ Retained(a)
      /\ attempt \in [Attempts -> AttemptRecords] /\ attempt[a] \in AttemptRecords
  BY <1>1 DEF Told, Locked, At, Owning, Handling, Reported, Typed
<1>3. GroupKept(a)'
  BY <1>1, QuietGroup DEF At, Phases
<1>4. scene' \in {scene, Moved(a)}
  BY DEF Move
<1>5. /\ scene' \in [Paths -> Attempts \cup {None}]
      /\ \A q \in Paths : q \notin {a, SlotOf[a]} => scene'[q] = scene[q]
      /\ \A b \in Attempts : scene'[b] \in {scene[b], None}
  BY <1>1, <1>4, MovedLeaves
<1>6. CASE /\ attempt' = [attempt EXCEPT ![a].at = "closing", ![a].leak = "kept"]
           /\ lock' = Released(SlotOf[a], a)
  <2>1. Became(a, "closing", attempt[a].outcome, "kept")
    BY <1>2, <1>6 DEF Became, AttemptRecords, Places, Reported, Leaks
  <2>2. /\ lock' \in [Paths -> Attempts \cup Collectors \cup {None}] /\ lock'[a] = lock[a]
        /\ \A q \in Paths : lock'[q] = lock[q] \/ lock[q] = a
    <3>1. lock \in [Paths -> Attempts \cup Collectors \cup {None}]
      BY <1>1 DEF Typed
    <3> QED
      BY <1>1, <1>6, <3>1 DEF Released
  <2>3. Typed'
    BY <1>1, <1>5, <2>1, <2>2 DEF Typed, Became
  <2>4. Locked(a)' /\ Told(a)'
    <3>1. attempt[a].outcome \notin {"satisfied", "cancelled", "none"}
      BY <1>2 DEF Retained, Reports
    <3>2. Told(a)'
      BY <1>2, <2>1, <3>1 DEF Became, Told, At, Before, Reported
    <3>3. Locked(a)'
      BY <1>1, <1>2, <2>1, <2>2 DEF Became, Locked, Owning, Handling, At
    <3> QED
      BY <3>2, <3>3
  <2>5. OwnStep(a)
    BY <1>1, <1>2, <1>5, <2>1, <2>2 DEF OwnStep, Became, At
  <2> QED
    BY <1>3, <2>3, <2>4, <2>5, OwnStepKeeps
<1>7. CASE GoTo(a, "falling") /\ UNCHANGED lock
  <2>1. Became(a, "falling", attempt[a].outcome, attempt[a].leak)
    BY <1>1, <1>7, GoToBecomes DEF Places, Reported
  <2>2. Typed'
    BY <1>1, <1>5, <1>7, <2>1 DEF Typed, Became
  <2>3. Locked(a)' /\ Told(a)'
    BY <1>1, <1>2, <1>7, <2>1 DEF Became, Locked, Told, Owning, Handling, Retained, At, Before, Reported
  <2>4. OwnStep(a)
    BY <1>1, <1>2, <1>5, <1>7, <2>1 DEF OwnStep, Became, At
  <2> QED
    BY <1>3, <2>2, <2>3, <2>4, OwnStepKeeps
<1> QED
  BY <1>6, <1>7 DEF Move

(* The lock file of a scene goes after its release, when nothing is there.   *)
LEMMA CloseKeeps ==
    ASSUME Inv, NEW a \in Attempts, Close(a)
    PROVE  Inv'
<1>1. /\ Typed /\ Told(a) /\ Locked(a) /\ At(a, {"closing", "undone"}) /\ a \in Paths
      /\ lock' = Released(a, a) /\ UNCHANGED <<collector, scene, terminal, proc>>
  BY DEF Inv, Close, Paths
<1>2. /\ At(a, {"undone"}) => attempt[a].outcome = "none"
      /\ Owning(a) /\ ~At(a, {"idle"})
  BY <1>1 DEF Told, At, Owning, Before
<1>3. GroupKept(a)'
  BY <1>1, QuietGroup DEF At, Phases
<1>4. /\ lock' \in [Paths -> Attempts \cup Collectors \cup {None}]
      /\ \A q \in Paths : lock'[q] = lock[q] \/ lock[q] = a
  <2>1. lock \in [Paths -> Attempts \cup Collectors \cup {None}]
    BY <1>1 DEF Typed
  <2> QED
    BY <1>1, <2>1 DEF Released
<1>5. ASSUME NEW place \in {"unlinking", "done"}, NEW outcome, Became(a, place, outcome, attempt[a].leak),
             Told(a)'
      PROVE  Inv'
  <2>1. Typed'
    BY <1>1, <1>4, <1>5 DEF Typed, Became
  <2>2. Locked(a)'
    BY <1>5 DEF Became, Locked, Owning, Handling, At
  <2>3. OwnStep(a)
    BY <1>1, <1>2, <1>4, <1>5 DEF OwnStep, Became, At, Owning
  <2> QED
    BY <1>3, <1>5, <2>1, <2>2, <2>3, OwnStepKeeps
<1>6. CASE At(a, {"undone"}) /\ attempt[a].leak # "none" /\ Finish(a)
  <2> PICK outcome \in Reports \cup {"unavailable"} :
        /\ Became(a, "done", outcome, attempt[a].leak)
        /\ attempt[a].outcome = "none" => outcome \in {"cancelled", "unavailable"}
    BY <1>1, <1>6, FinishBecomes
  <2>1. outcome \in {"cancelled", "unavailable"} /\ attempt[a].leak \in {"none", "own"}
    BY <1>1, <1>2, <1>6 DEF Told, At
  <2>2. Told(a)'
    BY <1>6, <2>1 DEF Became, Told, At, Before, Reported
  <2> QED
    BY <1>5, <2>2
<1>7. CASE GoTo(a, "unlinking")
  <2>1. Became(a, "unlinking", attempt[a].outcome, attempt[a].leak)
    BY <1>1, <1>7, GoToBecomes DEF Places
  <2>2. Told(a)'
    BY <1>1, <2>1 DEF Became, Told, At, Before, Reported
  <2> QED
    BY <1>5, <2>1, <2>2
<1> QED
  BY <1>6, <1>7 DEF Close

LEMMA UnlinkKeeps ==
    ASSUME Inv, NEW a \in Attempts, Unlink(a)
    PROVE  Inv'
<1>1. /\ Typed /\ Told(a) /\ Locked(a) /\ At(a, {"unlinking"}) /\ a \in Paths /\ Finish(a)
      /\ lock' = (IF scene[a] = None THEN Unlinked(a) ELSE lock) /\ UNCHANGED <<collector, scene, terminal, proc>>
  BY DEF Inv, Unlink, Paths
<1>2. ~Owning(a) /\ ~At(a, {"idle"})
  BY <1>1 DEF At, Owning
<1>3. GroupKept(a)'
  BY <1>1, QuietGroup DEF At, Phases
<1>4. /\ lock' \in [Paths -> Attempts \cup Collectors \cup {None}]
      /\ \A q \in Paths : lock'[q] = lock[q] \/ (q = a /\ scene[a] = None)
  <2>1. lock \in [Paths -> Attempts \cup Collectors \cup {None}]
    BY <1>1 DEF Typed
  <2>2. CASE scene[a] = None
    BY <1>1, <2>1, <2>2 DEF Unlinked
  <2>3. CASE scene[a] # None
    BY <1>1, <2>1, <2>3
  <2> QED
    BY <2>2, <2>3
<1>5. PICK outcome \in Reports \cup {"unavailable"} :
        /\ Became(a, "done", outcome, attempt[a].leak)
        /\ attempt[a].outcome # "none" => outcome = attempt[a].outcome
        /\ attempt[a].outcome = "none" => outcome \in {"cancelled", "unavailable"}
  BY <1>1, FinishBecomes
<1>6. Typed'
  BY <1>1, <1>4, <1>5 DEF Typed, Became
<1>7. Locked(a)'
  BY <1>5 DEF Became, Locked, Owning, Handling, At
<1>8. Told(a)'
  <2>1. /\ attempt[a].leak = "none" => scene[a] = None
        /\ outcome \in {"unsatisfied", "environment", "stopped"} => attempt[a].leak # "none"
        /\ outcome \in {"satisfied", "cancelled", "none"} => attempt[a].leak \in {"none", "own"}
    BY <1>1, <1>5 DEF Told, At
  <2> QED
    BY <1>1, <1>5, <2>1 DEF Became, Told, At, Before, Reported
<1>9. OwnStep(a)
  BY <1>1, <1>2, <1>4, <1>5 DEF OwnStep, Became, At, Owning
<1> QED
  BY <1>3, <1>6, <1>7, <1>8, <1>9, OwnStepKeeps

(* A process that dies gives up its locks, and its scene stays as it is.     *)
LEMMA AttemptDiesKeeps ==
    ASSUME Inv, NEW a \in Attempts, AttemptDies(a)
    PROVE  Inv'
<1>1. /\ Typed /\ GroupKept(a) /\ ~At(a, {"idle"}) /\ a \in Paths /\ GoTo(a, "dead") /\ lock' = Dropped(a)
      /\ proc \in [Attempts -> ChildRecords] /\ proc[a] \in ChildRecords
      /\ proc' = [proc EXCEPT ![a].at = IF proc[a].at = "running" THEN "stray" ELSE proc[a].at]
      /\ UNCHANGED <<collector, scene, terminal>>
  BY DEF Inv, Typed, AttemptDies, At, Paths
<1>2. Became(a, "dead", attempt[a].outcome, attempt[a].leak)
  BY <1>1, GoToBecomes DEF Places
<1>3. /\ lock' \in [Paths -> Attempts \cup Collectors \cup {None}]
      /\ \A q \in Paths : lock'[q] = lock[q] \/ lock[q] = a
  <2>1. lock \in [Paths -> Attempts \cup Collectors \cup {None}]
    BY <1>1 DEF Typed
  <2> QED
    BY <1>1, <2>1 DEF Dropped
<1>4. /\ proc' \in [Attempts -> ChildRecords] /\ \A b \in Attempts : b # a => proc'[b] = proc[b]
      /\ proc'[a].at \in {"none", "stray", "over"} /\ (proc'[a].at # "stray" => proc'[a].at = proc[a].at)
      /\ proc'[a].seen = proc[a].seen /\ proc'[a].leader = proc[a].leader /\ proc'[a].crew = proc[a].crew
      /\ proc'[a].term = proc[a].term
  BY <1>1 DEF ChildRecords
<1>5. GroupKept(a)'
  BY <1>1, <1>2, <1>4 DEF GroupKept, Became, Running, Alive, At
<1>6. Typed'
  BY <1>1, <1>2, <1>3, <1>4 DEF Typed, Became
<1>7. Locked(a)' /\ Told(a)'
  BY <1>2 DEF Became, Locked, Told, Owning, Handling, At, Before, Reported
<1>8. OwnStep(a)
  BY <1>1, <1>2, <1>3, <1>4 DEF OwnStep, Became, At, Owning
<1> QED
  BY <1>5, <1>6, <1>7, <1>8, OwnStepKeeps

-----------------------------------------------------------------------------
(* The steps of a reconcile                                                  *)

LEMMA ListKeeps ==
    ASSUME Inv, NEW c \in Collectors, List(c)
    PROVE  Inv'
<1>1. /\ Typed /\ collector \in [Collectors -> CollectorRecords] /\ collector[c] \in CollectorRecords
      /\ UNCHANGED <<attempt, scene, lock, terminal, proc>>
  BY DEF Inv, Typed, List
<1>2. PICK k \in Contracts :
        collector' = [collector EXCEPT ![c].at = "looking", ![c].todo = Collectable(k)]
  BY DEF List
<1>3. /\ Collectable(k) \subseteq Paths
      /\ \A p \in Collectable(k) : IF p \in Attempts THEN ~At(p, {"idle"}) ELSE ContractOf[p] \in terminal
  BY DEF Collectable, Inv, Told, Paths
<1>4. /\ collector' \in [Collectors -> CollectorRecords]
      /\ \A d \in Collectors : d # c => collector'[d] = collector[d]
      /\ collector'[c].at = "looking" /\ collector'[c].todo = Collectable(k)
  BY <1>1, <1>2, <1>3 DEF CollectorRecords
<1>5. Typed'
  BY <1>1, <1>4 DEF Typed
<1>6. Collecting(c)'
  BY <1>1, <1>3, <1>4 DEF Collecting, At
<1>7. CollectorStep(c)
  BY <1>1, <1>4 DEF CollectorStep
<1> QED
  BY <1>5, <1>6, <1>7, CollectorStepKeeps

(* A path that a reconcile has locked is nobody's: its attempt would hold    *)
(* the lock.                                                                 *)
LEMMA TryNextKeeps ==
    ASSUME Inv, NEW c \in Collectors, TryNext(c)
    PROVE  Inv'
<1>1. /\ Typed /\ collector \in [Collectors -> CollectorRecords] /\ collector[c] \in CollectorRecords
      /\ Collecting(c) /\ collector[c].todo \subseteq Paths /\ collector[c].at = "looking"
      /\ lock \in [Paths -> Attempts \cup Collectors \cup {None}]
      /\ UNCHANGED <<attempt, scene, terminal, proc>>
  BY DEF Inv, Typed, TryNext, CollectorRecords
<1>2. CASE collector' = [collector EXCEPT ![c].at = "done"] /\ UNCHANGED lock
  <2>1. /\ collector' \in [Collectors -> CollectorRecords]
        /\ \A d \in Collectors : d # c => collector'[d] = collector[d]
        /\ collector'[c].at = "done" /\ collector'[c].todo = collector[c].todo
    BY <1>1, <1>2 DEF CollectorRecords
  <2>2. Typed'
    BY <1>1, <1>2, <2>1 DEF Typed
  <2>3. Collecting(c)'
    BY <1>1, <2>1 DEF Collecting, At
  <2>4. CollectorStep(c)
    BY <1>1, <1>2, <2>1 DEF CollectorStep
  <2> QED
    BY <2>2, <2>3, <2>4, CollectorStepKeeps
<1>3. ASSUME NEW p \in collector[c].todo, TryLock(p, c),
             collector' = [collector EXCEPT ![c].at = "removing", ![c].path = p, ![c].todo = collector[c].todo \ {p}]
      PROVE  Inv'
  <2>1. p \in Paths
    BY <1>1
  <2>2. /\ collector' \in [Collectors -> CollectorRecords]
        /\ \A d \in Collectors : d # c => collector'[d] = collector[d]
        /\ collector'[c].at = "removing" /\ collector'[c].path = p /\ collector'[c].todo = collector[c].todo \ {p}
    <3>1. [collector[c] EXCEPT !.at = "removing", !.path = p, !.todo = collector[c].todo \ {p}] \in CollectorRecords
      BY <1>1, <2>1 DEF CollectorRecords
    <3> QED
      BY <1>1, <1>3, <3>1 DEF CollectorRecords
  <2>3. /\ lock' \in [Paths -> Attempts \cup Collectors \cup {None}] /\ lock[p] = None /\ lock'[p] = c
        /\ \A q \in Paths : q # p => lock'[q] = lock[q]
    BY <1>1, <1>3, <2>1 DEF TryLock
  <2>4. Forsaken(p)'
    <3>1. p \in Attempts => lock[p] # p
      BY <2>3, ScratchAssumption
    <3>2. p \in Attempts => ~At(p, {"idle"}) /\ ~Owning(p)
      BY <1>1, <1>3, <3>1 DEF Inv, Locked, Collecting
    <3> QED
      BY <1>1, <1>3, <3>2 DEF Forsaken, Collecting, Owning, At
  <2>5. Typed'
    BY <1>1, <2>2, <2>3 DEF Typed
  <2>6. Collecting(c)'
    <3>1. \A q \in collector'[c].todo : IF q \in Attempts THEN ~At(q, {"idle"})' ELSE ContractOf[q] \in terminal'
      BY <1>1, <2>2 DEF Collecting, At
    <3> QED
      BY <2>1, <2>2, <2>3, <2>4, <3>1 DEF Collecting
  <2>7. CollectorStep(c)
    BY <1>1, <2>2, <2>3 DEF CollectorStep
  <2> QED
    BY <2>5, <2>6, <2>7, CollectorStepKeeps
<1>4. ASSUME NEW p \in collector[c].todo, UNCHANGED lock,
             collector' = [collector EXCEPT ![c].todo = collector[c].todo \ {p}]
      PROVE  Inv'
  <2>1. /\ collector' \in [Collectors -> CollectorRecords]
        /\ \A d \in Collectors : d # c => collector'[d] = collector[d]
        /\ collector'[c].at = "looking" /\ collector'[c].todo = collector[c].todo \ {p}
    BY <1>1, <1>4 DEF CollectorRecords
  <2>2. Typed'
    BY <1>1, <1>4, <2>1 DEF Typed
  <2>3. Collecting(c)'
    BY <1>1, <2>1 DEF Collecting, At
  <2>4. CollectorStep(c)
    BY <1>1, <1>4, <2>1 DEF CollectorStep
  <2> QED
    BY <2>2, <2>3, <2>4, CollectorStepKeeps
<1> QED
  BY <1>2, <1>3, <1>4 DEF TryNext

LEMMA CollectKeeps ==
    ASSUME Inv, NEW c \in Collectors, Collect(c)
    PROVE  Inv'
<1> DEFINE p == collector[c].path
<1>1. /\ Typed /\ collector \in [Collectors -> CollectorRecords] /\ collector[c] \in CollectorRecords
      /\ Collecting(c) /\ collector[c].at = "removing" /\ p \in Paths
      /\ UNCHANGED <<attempt, lock, terminal, proc>>
  BY DEF Inv, Typed, Collect, Collecting
<1>2. PICK ok \in BOOLEAN :
        /\ Removal(p, ok)
        /\ collector' = [collector EXCEPT ![c].at = "releasing", ![c].removed = ok]
  BY DEF Collect
<1>3. /\ scene' \in [Paths -> Attempts \cup {None}] /\ \A q \in Paths : q # p => scene'[q] = scene[q]
      /\ scene'[p] \in {scene[p], None} /\ (ok => scene'[p] = None)
  BY <1>1, <1>2, RemovalLeaves
<1>4. /\ collector' \in [Collectors -> CollectorRecords]
      /\ \A d \in Collectors : d # c => collector'[d] = collector[d]
      /\ collector'[c].at = "releasing" /\ collector'[c].removed = ok /\ collector'[c].todo = collector[c].todo
      /\ collector'[c].path = p
  <2>1. [collector[c] EXCEPT !.at = "releasing", !.removed = ok] \in CollectorRecords
    BY <1>1 DEF CollectorRecords
  <2> QED
    BY <1>1, <1>2, <2>1 DEF CollectorRecords
<1>5. Typed'
  <2>1. \A b \in Attempts : b \in Paths
    BY DEF Paths
  <2> QED
    BY <1>1, <1>3, <1>4, <2>1 DEF Typed
<1>6. Collecting(c)'
  <2>1. \A q \in collector[c].todo : IF q \in Attempts THEN ~At(q, {"idle"})' ELSE ContractOf[q] \in terminal'
    BY <1>1 DEF Collecting, At
  <2>2. Forsaken(p)'
    BY <1>1, <1>4 DEF Collecting, Forsaken, Owning, At
  <2>3. Spent(c)' => scene'[p] = None
    BY <1>3, <1>4 DEF Spent
  <2> QED
    BY <1>1, <1>4, <2>1, <2>2, <2>3 DEF Collecting
<1>7. CollectorStep(c)
  BY <1>1, <1>3, <1>4 DEF CollectorStep
<1> QED
  BY <1>5, <1>6, <1>7, CollectorStepKeeps

(* What a reconcile unlinks is the lock of a scene that it saw gone and that *)
(* nobody makes again.                                                       *)
LEMMA ReleaseKeeps ==
    ASSUME Inv, NEW c \in Collectors,
           Release(c) \/ UnlinkCollected(c) \/ CollectorDies(c)
    PROVE  Inv'
<1> DEFINE p == collector[c].path
<1>1. /\ Typed /\ collector \in [Collectors -> CollectorRecords] /\ collector[c] \in CollectorRecords
      /\ Collecting(c) /\ lock \in [Paths -> Attempts \cup Collectors \cup {None}]
      /\ UNCHANGED <<attempt, scene, terminal, proc>>
  BY DEF Inv, Typed, Release, UnlinkCollected, CollectorDies
<1>2. ASSUME NEW place \in {"looking", "unlinking", "dead"}, collector' = [collector EXCEPT ![c].at = place],
             place = "unlinking" => collector[c].at = "releasing" /\ Spent(c),
             lock' \in [Paths -> Attempts \cup Collectors \cup {None}],
             \A q \in Paths : \/ lock'[q] = lock[q] \/ lock[q] = c
                              \/ q \in Attempts /\ scene[q] = None /\ ~Owning(q)
      PROVE  Inv'
  <2>1. /\ collector' \in [Collectors -> CollectorRecords]
        /\ \A d \in Collectors : d # c => collector'[d] = collector[d]
        /\ collector'[c].at = place /\ collector'[c].todo = collector[c].todo /\ collector'[c].path = p
    BY <1>1, <1>2 DEF CollectorRecords
  <2>2. Typed'
    BY <1>1, <1>2, <2>1 DEF Typed
  <2>3. Collecting(c)'
    <3>1. \A q \in collector[c].todo : IF q \in Attempts THEN ~At(q, {"idle"})' ELSE ContractOf[q] \in terminal'
      BY <1>1 DEF Collecting, At
    <3>2. place = "unlinking" => p \in Paths /\ Forsaken(p)' /\ p \in Attempts /\ scene'[p] = None
      <4> SUFFICES ASSUME place = "unlinking" PROVE p \in Paths /\ Forsaken(p)' /\ p \in Attempts /\ scene'[p] = None
        OBVIOUS
      <4>1. p \in Paths /\ Forsaken(p) /\ scene[p] = None /\ p \in Attempts
        BY <1>1, <1>2 DEF Collecting, Spent
      <4> QED
        BY <1>1, <2>1, <4>1 DEF Forsaken, Owning, At
    <3> QED
      BY <1>1, <2>1, <3>1, <3>2 DEF Collecting
  <2>4. CollectorStep(c)
    BY <1>1, <1>2, <2>1 DEF CollectorStep
  <2> QED
    BY <2>2, <2>3, <2>4, CollectorStepKeeps
<1>3. CASE Release(c)
  <2>1. p \in Paths
    BY <1>1, <1>3 DEF Release, Collecting
  <2>2. /\ lock' \in [Paths -> Attempts \cup Collectors \cup {None}]
        /\ \A q \in Paths : lock'[q] = lock[q] \/ lock[q] = c
    BY <1>1, <1>3, <2>1 DEF Release, Released
  <2>3. PICK place \in {"looking", "unlinking"} :
          /\ collector' = [collector EXCEPT ![c].at = place]
          /\ place = "unlinking" => Spent(c)
    BY <1>3 DEF Release
  <2> QED
    BY <1>2, <1>3, <2>2, <2>3 DEF Release
<1>4. CASE UnlinkCollected(c)
  <2>1. p \in Attempts /\ scene[p] = None /\ ~Owning(p) /\ p \in Paths
    BY <1>1, <1>4 DEF UnlinkCollected, Collecting, Forsaken, Paths
  <2>2. /\ lock' \in [Paths -> Attempts \cup Collectors \cup {None}]
        /\ \A q \in Paths : q # p => lock'[q] = lock[q]
    BY <1>1, <1>4, <2>1 DEF UnlinkCollected, Unlinked
  <2>3. \A q \in Paths : \/ lock'[q] = lock[q] \/ lock[q] = c
                         \/ q \in Attempts /\ scene[q] = None /\ ~Owning(q)
    BY <2>1, <2>2
  <2> QED
    BY <1>2, <1>4, <2>2, <2>3 DEF UnlinkCollected
<1>5. CASE CollectorDies(c)
  <2>1. /\ lock' \in [Paths -> Attempts \cup Collectors \cup {None}]
        /\ \A q \in Paths : lock'[q] = lock[q] \/ lock[q] = c
    BY <1>1, <1>5 DEF CollectorDies, Dropped
  <2> QED
    BY <1>2, <1>5, <2>1 DEF CollectorDies
<1> QED
  BY <1>3, <1>4, <1>5

-----------------------------------------------------------------------------
(* The invariant is kept                                                     *)

LEMMA ContractEndsKeeps ==
    ASSUME Inv, NEW k \in Contracts, ContractEnds(k)
    PROVE  Inv'
<1>1. terminal' = terminal \cup {k} /\ UNCHANGED <<attempt, collector, scene, lock, proc>>
  BY DEF ContractEnds
<1>2. Typed'
  BY <1>1 DEF Inv, Typed
<1>3. ASSUME NEW b \in Attempts PROVE GroupKept(b)' /\ Locked(b)' /\ Told(b)'
  BY <1>1 DEF Inv, GroupKept, Locked, Told, Running, Alive, Owning, Handling, Retained, At
<1>4. ASSUME NEW c \in Collectors PROVE Collecting(c)'
  <2>1. Collecting(c)
    BY DEF Inv
  <2> QED
    BY <1>1, <2>1 DEF Collecting, Forsaken, Spent, Owning, At
<1> QED
  BY <1>2, <1>3, <1>4 DEF Inv

LEMMA GroupsKeep ==
    ASSUME Inv, NEW a \in Attempts, Supervises(a) \/ GivesUp(a) \/ Exits(a) \/ Killed(a)
    PROVE  Inv'
<1>1. Typed /\ GroupKept(a) /\ UNCHANGED <<attempt, collector, scene, lock, terminal>>
  BY DEF Inv, Supervises, GivesUp, Exits, Killed
<1>2. GroupStep(a)
  <2>1. CASE Supervises(a)
    <3>1. CASE Stage(a)
      <4>1. "sent" \in Signals
        BY DEF Signals
      <4> QED
        BY <1>1, <3>1, <4>1, StagesAreGroupSteps
    <3>2. ASSUME NEW sent \in Signals, LimitPasses(a, sent) \/ SeeExit(a, sent) \/ GraceOver(a, sent)
          PROVE  GroupStep(a)
      <4>1. CASE LimitPasses(a, sent)
        BY <1>1, <4>1, StopIsGroupStep DEF LimitPasses
      <4>2. CASE SeeExit(a, sent)
        BY <1>1, <4>2, SeeExitIsGroupStep
      <4>3. CASE GraceOver(a, sent)
        BY <1>1, <4>3, StagesAreGroupSteps
      <4> QED
        BY <3>2, <4>1, <4>2, <4>3
    <3> QED
      BY <2>1, <3>1, <3>2 DEF Supervises
  <2>2. CASE GivesUp(a)
    <3>1. GiveUp(a) /\ "sent" \in Signals
      BY <2>2 DEF GivesUp, Signals
    <3> QED
      BY <1>1, <3>1, StagesAreGroupSteps
  <2>3. CASE Exits(a) \/ Killed(a)
    BY <1>1, <2>3, ExitsAreGroupSteps DEF Exits, Killed
  <2> QED
    BY <2>1, <2>2, <2>3
<1> QED
  BY <1>1, <1>2, GroupStepKeepsInv

LEMMA NextKeeps ==
    ASSUME Inv, [Next]_vars
    PROVE  Inv'
<1>1. CASE UNCHANGED vars
  <2>1. UNCHANGED <<attempt, collector, scene, lock, terminal, proc>>
    BY <1>1 DEF vars
  <2>2. Typed'
    BY <2>1 DEF Inv, Typed
  <2>3. ASSUME NEW b \in Attempts PROVE GroupKept(b)' /\ Locked(b)' /\ Told(b)'
    BY <2>1 DEF Inv, GroupKept, Locked, Told, Running, Alive, Owning, Handling, Retained, At
  <2>4. ASSUME NEW c \in Collectors PROVE Collecting(c)'
    <3>1. Collecting(c)
      BY DEF Inv
    <3> QED
      BY <2>1, <3>1 DEF Collecting, Forsaken, Spent, Owning, At
  <2> QED
    BY <2>2, <2>3, <2>4 DEF Inv
<1>2. ASSUME NEW a \in Attempts,
             Runtime(a) \/ GivesUp(a) \/ Exits(a) \/ Killed(a) \/ Abort(a) \/ AttemptDies(a)
      PROVE  Inv'
  BY <1>2, BeginKeeps, AddKeeps, UndoKeeps, PhasesKeep, CommandsKeep, GroupsKeep, RemoveOwnKeeps, TakeSlotKeeps,
     ReplaceKeeps, MoveKeeps, CloseKeeps, UnlinkKeeps, AbortKeeps, AttemptDiesKeeps DEF Runtime
<1>3. ASSUME NEW c \in Collectors, Reconcile(c) \/ CollectorDies(c) PROVE Inv'
  BY <1>3, ListKeeps, TryNextKeeps, CollectKeeps, ReleaseKeeps DEF Reconcile
<1>4. ASSUME NEW k \in Contracts, ContractEnds(k) PROVE Inv'
  BY <1>4, ContractEndsKeeps
<1> QED
  BY <1>1, <1>2, <1>3, <1>4 DEF Next

(* The locks, places and groups are as the invariant says in every state     *)
(* that attempts, reconciles and deaths can reach (scratch.ts, execution.ts, *)
(* termination.ts).                                                          *)
THEOREM ScratchInvariant == Spec => []Inv
<1>1. Init => Inv
  BY InitInv
<1>2. Inv /\ [Next]_vars => Inv'
  BY NextKeeps
<1> QED
  BY <1>1, <1>2, PTL DEF Spec

-----------------------------------------------------------------------------
(* What follows                                                              *)

(* Whoever works on a path holds the lock file that is there, and one lock   *)
(* has one holder.                                                           *)
LEMMA HandsHoldTheLock ==
    ASSUME Inv, NEW p \in Paths, scene[p] # None \/ p \in Slots
    PROVE  Cardinality(Hands(p)) <= 1
<1>1. ASSUME NEW h \in Hands(p) PROVE h = lock[p]
  <2>1. CASE h \in Attempts /\ p = h /\ Owning(h)
    BY <2>1 DEF Inv, Locked
  <2>2. CASE h \in Attempts /\ p = SlotOf[h] /\ Handling(h)
    BY <2>2 DEF Inv, Locked
  <2>3. CASE h \in Collectors /\ collector[h].path = p /\ collector[h].at = "removing"
    BY <2>3 DEF Inv, Collecting
  <2> QED
    BY <2>1, <2>2, <2>3 DEF Hands
<1>2. Hands(p) \subseteq {lock[p]}
  BY <1>1
<1>3. IsFiniteSet({lock[p]}) /\ Cardinality({lock[p]}) = 1
  BY FS_Singleton
<1> HIDE DEF Hands
<1> QED
  BY <1>2, <1>3, FS_Subset

(* For any number of attempts, slots and reconciles: nobody works on a scene *)
(* or a slot that another works on, though lock files are unlinked and made  *)
(* again under their holders (scratch.ts: collectableScratchWorktrees,       *)
(* removeOwnershipLock, retainScratch).                                      *)
THEOREM OneHandAtATime == Spec => []OneHand
<1>1. Inv => OneHand
  <2> SUFFICES ASSUME Inv PROVE OneHand
    OBVIOUS
  <2>1. \A p \in Paths : scene[p] # None \/ p \in Slots => Cardinality(Hands(p)) <= 1
    BY HandsHoldTheLock
  <2> QED
    BY <2>1 DEF OneHand, Inv, Typed
<1> QED
  BY <1>1, ScratchInvariant, PTL

(* An attempt that ends without a word has left neither a scene nor a        *)
(* command, a failing one always has a word, and one that passed keeps       *)
(* nothing (execution.ts: retireScratch, materializeScratch).                *)
THEOREM RetirementIsHonest == Spec => []HonestRetirement
<1>1. Inv => HonestRetirement
  <2> SUFFICES ASSUME Inv, NEW a \in Attempts, At(a, {"done"})
               PROVE  /\ attempt[a].leak = "none" => scene[a] = None
                      /\ attempt[a].outcome \in {"unsatisfied", "environment", "stopped"} => attempt[a].leak # "none"
                      /\ attempt[a].outcome \in {"satisfied", "cancelled"} => attempt[a].leak \in {"none", "own"}
                      /\ Alive(a) => proc[a].term = "failed"
    BY DEF HonestRetirement
  <2>1. /\ attempt[a].leak = "none" => scene[a] = None
        /\ attempt[a].outcome \in {"unsatisfied", "environment", "stopped"} => attempt[a].leak # "none"
        /\ attempt[a].outcome \in {"satisfied", "cancelled"} => attempt[a].leak \in {"none", "own"}
    BY DEF Inv, Told, At
  <2>2. proc[a].at \in {"none", "over"}
    <3>1. proc[a] \in ChildRecords
      BY DEF Inv, Typed
    <3>2. ~Running(a) /\ proc[a].at # "stray"
      BY DEF Inv, GroupKept, At, Phases
    <3> QED
      BY <3>1, <3>2 DEF ChildRecords, Running
  <2> QED
    BY <2>1, <2>2 DEF Inv, GroupKept
<1> QED
  BY <1>1, ScratchInvariant, PTL

(* A step that takes a scene away, and who may take it.                      *)
GoesRightly(p) ==
    \/ /\ p = scene[p] /\ attempt'[p] # attempt[p]
       /\ Alive(p) => proc[p].term = "failed"
    \/ /\ \E c \in Collectors : collector'[c] # collector[c] /\ collector[c].path = p
       /\ p \in Attempts => Over(p) \/ At(p, {"unlinking"})
       /\ p \in Slots => ContractOf[p] \in terminal
    \/ \E a \in Attempts : p = SlotOf[a] /\ attempt'[a] # attempt[a] /\ Retained(a)

(* What an attempt removes is its own scene, when its commands have ended,   *)
(* or what its slot keeps, when it has something to keep there.              *)
LEMMA AttemptTakesRightly ==
    ASSUME Inv, NEW a \in Attempts, Add(a) \/ Undo(a) \/ RemoveOwn(a) \/ Replace(a) \/ Move(a),
           NEW p \in Paths, scene[p] # None, scene'[p] # scene[p]
    PROVE  GoesRightly(p)
<1>1. /\ Typed /\ Locked(a) /\ a \in Paths /\ SlotOf[a] \in Paths
      /\ scene \in [Paths -> Attempts \cup {None}]
      /\ attempt \in [Attempts -> AttemptRecords] /\ attempt[a] \in AttemptRecords
      /\ At(a, {"adding", "undoing", "retiring", "busy", "falling", "replacing", "moving"})
  BY ScratchAssumption DEF Inv, Typed, Paths, Add, Undo, RemoveOwn, Replace, Move, At
<1>2. attempt'[a] # attempt[a]
  <2>1. CASE Add(a)
    <3>1. attempt'[a].at \in {"settings", "undoing"} /\ attempt[a].at = "adding"
      BY <1>1, <2>1 DEF Add, GoTo, At, AttemptRecords
    <3> QED
      BY <3>1
  <2>2. CASE Undo(a)
    <3>1. PICK leak \in Leaks : attempt' = [attempt EXCEPT ![a].at = "undone", ![a].leak = leak]
      BY <2>2 DEF Undo, Leaks
    <3>2. attempt'[a].at = "undone" /\ attempt[a].at = "undoing"
      BY <1>1, <2>2, <3>1 DEF Undo, At, AttemptRecords
    <3> QED
      BY <3>2
  <2>3. CASE RemoveOwn(a)
    <3>1. PICK leak \in Leaks : attempt' = [attempt EXCEPT ![a].at = "closing", ![a].leak = leak]
      BY <2>3 DEF RemoveOwn, Leaks
    <3>2. attempt'[a].at = "closing" /\ attempt[a].at # "closing"
      BY <1>1, <3>1 DEF At, AttemptRecords
    <3> QED
      BY <3>2
  <2>4. CASE Replace(a)
    <3>1. attempt'[a].at \in {"moving", "falling"} /\ attempt[a].at = "replacing"
      BY <1>1, <2>4 DEF Replace, GoTo, At, AttemptRecords
    <3> QED
      BY <3>1
  <2>5. CASE Move(a)
    <3>1. attempt'[a].at \in {"closing", "falling"} /\ attempt[a].at = "moving"
      BY <1>1, <2>5 DEF Move, GoTo, At, AttemptRecords
    <3> QED
      BY <3>1
  <2> QED
    BY <2>1, <2>2, <2>3, <2>4, <2>5
<1>3. CASE p = a
  <2>1. scene[a] = a
    BY <1>3 DEF Inv, Typed
  <2>2. proc[a] \in ChildRecords /\ proc[a].at \notin {"running", "stray"}
    BY <1>1 DEF Inv, Typed, GroupKept, Running, At, Phases
  <2>3. Alive(a) => proc[a].term = "failed"
    BY <2>2 DEF Inv, GroupKept, ChildRecords
  <2> QED
    BY <1>2, <1>3, <2>1, <2>3 DEF GoesRightly
<1>4. CASE p = SlotOf[a] /\ p # a
  <2>1. Handling(a)
    <3>1. ~Add(a)
      BY <1>1, <1>4 DEF Add
    <3>2. ~Undo(a) /\ ~RemoveOwn(a)
      BY <1>1, <1>4, RemovalLeaves DEF Undo, RemoveOwn
    <3> QED
      BY <3>1, <3>2 DEF Replace, Move, Handling, At
  <2> QED
    BY <1>1, <1>2, <1>4, <2>1 DEF GoesRightly, Locked
<1>5. CASE p \notin {a, SlotOf[a]}
  <2>1. CASE Add(a)
    BY <1>1, <1>5, <2>1 DEF Add
  <2>2. CASE Undo(a) \/ RemoveOwn(a)
    BY <1>1, <1>5, <2>2, RemovalLeaves DEF Undo, RemoveOwn
  <2>3. CASE Replace(a)
    BY <1>1, <1>5, <2>3, RemovalLeaves DEF Replace
  <2>4. CASE Move(a)
    BY <1>1, <1>5, <2>4, MovedLeaves DEF Move
  <2> QED
    BY <2>1, <2>2, <2>3, <2>4
<1> QED
  BY <1>3, <1>4, <1>5

LEMMA CollectorTakesRightly ==
    ASSUME Inv, NEW c \in Collectors, Collect(c), NEW p \in Paths, scene[p] # None, scene'[p] # scene[p]
    PROVE  GoesRightly(p)
<1>1. /\ Typed /\ Collecting(c) /\ collector[c].at = "removing" /\ collector[c].path \in Paths
      /\ Forsaken(collector[c].path) /\ collector \in [Collectors -> CollectorRecords]
  BY DEF Inv, Typed, Collect, Collecting
<1>2. p = collector[c].path
  BY <1>1, RemovalLeaves DEF Collect
<1>3. collector'[c] # collector[c]
  <2>1. collector'[c].at = "releasing"
    BY <1>1 DEF Collect, CollectorRecords
  <2> QED
    BY <1>1, <2>1
<1>4. p \in Attempts => Over(p) \/ At(p, {"unlinking"})
  BY <1>1, <1>2 DEF Forsaken, Owning, Over, At
<1>5. p \in Slots => ContractOf[p] \in terminal
  BY <1>1, <1>2, ScratchAssumption DEF Forsaken
<1> QED
  BY <1>2, <1>3, <1>4, <1>5 DEF GoesRightly

(* Nothing else takes a scene away.                                          *)
LEMMA ScenesGoRightly ==
    ASSUME Inv, [Next]_vars, NEW p \in Paths, scene[p] # None, scene'[p] # scene[p]
    PROVE  GoesRightly(p)
<1>1. ~(UNCHANGED vars)
  BY DEF vars
<1>2. ASSUME NEW a \in Attempts,
             Runtime(a) \/ GivesUp(a) \/ Exits(a) \/ Killed(a) \/ Abort(a) \/ AttemptDies(a)
      PROVE  GoesRightly(p)
  <2>1. CASE Add(a) \/ Undo(a) \/ RemoveOwn(a) \/ Replace(a) \/ Move(a)
    BY <2>1, AttemptTakesRightly
  <2>2. ~Begin(a) /\ ~ReadHooks(a) /\ ~PhaseEnds(a) /\ ~StartsCommand(a) /\ ~CommandReturns(a) /\ ~Supervises(a)
    BY DEF Begin, ReadHooks, PhaseEnds, StartsCommand, CommandReturns, Supervises
  <2>3. ~TakeSlot(a) /\ ~Close(a) /\ ~Unlink(a) /\ ~GivesUp(a) /\ ~Exits(a) /\ ~Killed(a) /\ ~Abort(a)
        /\ ~AttemptDies(a)
    BY DEF TakeSlot, Close, Unlink, GivesUp, Exits, Killed, Abort, AttemptDies
  <2> QED
    BY <1>2, <2>1, <2>2, <2>3 DEF Runtime
<1>3. ASSUME NEW c \in Collectors, Reconcile(c) \/ CollectorDies(c) PROVE GoesRightly(p)
  <2>1. ~List(c) /\ ~TryNext(c) /\ ~Release(c) /\ ~UnlinkCollected(c) /\ ~CollectorDies(c)
    BY DEF List, TryNext, Release, UnlinkCollected, CollectorDies
  <2> QED
    BY <1>3, <2>1, CollectorTakesRightly DEF Reconcile
<1>4. \A k \in Contracts : ~ContractEnds(k)
  BY DEF ContractEnds
<1> QED
  BY <1>1, <1>2, <1>3, <1>4 DEF Next

(* A scene goes only by its own attempt when its commands have ended, by a   *)
(* reconcile when that attempt is over or the contract that keeps it has     *)
(* ended, or for a later failure of the same requirement (scratch.ts:        *)
(* retainScratch, removeCollectableScratchWorktrees).                        *)
THEOREM ScenesGoOnlyByRight == Spec => ScenesKept
<1>1. Inv /\ [Next]_vars =>
        [\A p \in Paths : scene[p] # None /\ scene'[p] # scene[p] =>
           \/ /\ p = scene[p] /\ attempt'[p] # attempt[p]
              /\ Alive(p) => proc[p].term = "failed"
           \/ /\ \E c \in Collectors : collector'[c] # collector[c] /\ collector[c].path = p
              /\ p \in Attempts => Over(p) \/ At(p, {"unlinking"})
              /\ p \in Slots => ContractOf[p] \in terminal
           \/ \E a \in Attempts : p = SlotOf[a] /\ attempt'[a] # attempt[a] /\ Retained(a)]_vars
  BY ScenesGoRightly DEF GoesRightly
<1> QED
  BY <1>1, ScratchInvariant, PTL DEF Spec, ScenesKept
=============================================================================
