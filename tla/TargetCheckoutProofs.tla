------------------------ MODULE TargetCheckoutProofs ------------------------
(* What holds of every number of completions, contracts, checkouts and paths: *)
(* that a completion reports what it admitted and integrates again only       *)
(* behind a target that moved, and that no process destroys what a user wrote *)
(* or takes a checkout back from the branch that it shows.                    *)
(*                                                                            *)
(* The argument is about what the placement fence protects.  While a process  *)
(* holds it nobody else claims or integrates, so what it read of a contract   *)
(* stays true; users still push, but the target never returns to a commit     *)
(* that it left, so a comparison that failed once fails for good.             *)
EXTENDS TargetCheckout, TLAPS

-----------------------------------------------------------------------------
(* Types                                                                     *)

(* What a commit holds never came from an uncommitted edit.                  *)
CommitTrees == [Paths -> {Absent, Original, Pushed} \cup Contracts]
Snapshots == [by : Contracts \cup {None}, at : Nat, tree : CommitTrees]
Integrations == [pred : Snapshots, snap : Snapshots, at : Nat]
Ops ==
    [phase : Phases, contract : Contracts \cup {None}, seen : Integrations \cup {None},
     plan : Integrations \cup {None}, cycles : 0..MaxCycles, attempts : 0..MaxAttempts, since : Nat,
     todo : SUBSET Checkouts, guarded : SUBSET Checkouts, lag : SUBSET Checkouts, doubt : Doubts \cup {None},
     out : Outcomes]

Fenced == {"placing", "admitting", "following", "replanning", "reintegrating", "surveying", "classifying",
           "index-merge", "worktree-merge"}
Mending == {"classifying", "index-merge", "worktree-merge"}
Recovering == {"recovering", "surveying"} \cup Mending
Seeking == {"observing", "judging", "fencing", "refencing", "placing", "admitting", "replanning", "reintegrating"}

Typed ==
    /\ head \in Snapshots /\ moves \in Nat
    /\ integration \in [Contracts -> Integrations]
    /\ claimedBy \in [Contracts -> Completers \cup {None}]
    /\ fence \in Processes \cup {None}
    /\ op \in [Processes -> Ops]
    /\ index \in [Checkouts -> Trees] /\ work \in [Checkouts -> Trees]
    /\ fresh \subseteq Checkouts \X Paths
    /\ scene \in Scenes

-----------------------------------------------------------------------------
(* The invariant                                                             *)

(* A commit that the target names or named once: a user's push carries its   *)
(* number, a candidate lands only with its claim.                            *)
Known(x) == IF x.by = None THEN x.at <= moves ELSE claimedBy[x.by] # None

(* An integration was made on the target as it was after i.at movements.     *)
Sound(i) == Known(i.pred) /\ i.at <= moves /\ (i.at = moves => i.pred = head)

TargetSound ==
    /\ Known(head)
    /\ \A c \in Contracts : Sound(integration[c]) /\ integration[c].snap.by = c

(* Under the fence a process is in, and only there, it holds it.             *)
Custody(p) == fence = p <=> op[p].phase \in Fenced

(* What a user might lose to the merge that p has still to run in a checkout *)
(* that it searched was written after it looked.                             *)
Secured(p) ==
    op[p].phase \in {"admitting", "following", "worktree-merge"} =>
        \A w \in op[p].guarded \cap op[p].todo, q \in Changed(op[p].plan) :
            op[p].plan.snap.tree[q] # Absent /\ Untracked(w, q) /\ q \in Ignored => <<w, q>> \in fresh

(* A candidate that the target has moved away from once more than the        *)
(* completion integrated.                                                    *)
Outrun(p) ==
    LET i == integration[op[p].contract]
        next == op[p].since + op[p].cycles + 1
    IN op[p].cycles < MaxCycles /\ (i.at >= next \/ (i.pred # head /\ moves >= next))

(* A completion before it knows of its claim: it may have claimed without    *)
(* knowing only while its transaction's outcome is unknown.                  *)
Candidate(p) ==
    LET o == op[p]
        i == integration[o.contract]
    IN /\ o.contract \in Contracts
       /\ o.doubt # None => o.phase \in Publishing
       /\ claimedBy[o.contract] = p <=> o.phase = "admitting" /\ o.doubt = "recorded"
       /\ o.seen \in Integrations /\ Sound(o.seen)
       /\ o.seen = i \/ o.seen.at < i.at
       /\ o.since + o.cycles <= o.seen.at
       /\ o.phase \in {"refencing", "replanning", "reintegrating"} => Outrun(p)
       /\ o.phase = "admitting" => o.plan = i /\ claimedBy[o.contract] \in {None, p}
       /\ o.phase = "reintegrating" =>
            /\ o.plan \in Integrations /\ o.plan.snap.by = o.contract /\ Sound(o.plan)
            /\ o.plan = i \/ o.plan.at > i.at
            /\ o.plan.at >= o.since + o.cycles + 1
            /\ o.doubt = "recorded" => o.plan = i

(* What an end may say, where a claim stands and where none does.            *)
Honest(p, out) ==
    LET mine == claimedBy[op[p].contract] = p IN
    /\ out = "completed" => mine
    /\ mine /\ out \notin {"completed", "died"} => op[p].doubt = "recorded" /\ out \in {"placement-failed", "failed"}

Completion(p) ==
    LET o == op[p] IN
    /\ o.phase \notin Recovering
    /\ o.phase \in Seeking => Candidate(p)
    /\ o.phase \in {"following", "reporting"} => o.contract \in Contracts /\ claimedBy[o.contract] = p
    /\ o.phase = "following" => o.plan \in Integrations
    /\ o.phase = "ended" =>
         /\ o.contract \in Contracts
         /\ Honest(p, o.out)
    /\ o.phase # "ended" => o.out = None
    /\ o.since + o.cycles <= moves
    /\ o.out = "moved" => o.cycles = MaxCycles /\ o.since + o.cycles < moves

(* The reconciler mends what the target showed when it looked.               *)
Recoverer ==
    LET o == op[Reconciler] IN
    /\ o.phase \in {"idle"} \cup Recovering
    /\ o.out = None
    /\ o.phase # "idle" => o.contract \in Contracts
    /\ o.phase = "worktree-merge" => o.guarded \subseteq o.todo
    /\ o.phase \in Mending => /\ o.plan \in Integrations
                              /\ o.since <= moves
                              /\ moves = o.since => head = o.plan.snap

Own(p) == Custody(p) /\ Secured(p) /\ (IF p = Reconciler THEN Recoverer ELSE Completion(p))

Inv == Typed /\ TargetSound /\ \A p \in Processes : Own(p)

-----------------------------------------------------------------------------
(* Frames                                                                    *)

(* The target moves on: it never returns to a commit that it left, and a     *)
(* contract's integration is only replaced by a later one.                   *)
Onward ==
    /\ moves <= moves' /\ (moves' = moves => head' = head)
    /\ \A x \in Snapshots : Known(x) => Known(x)' /\ (x # head => x # head')
    /\ \A c \in Contracts : integration'[c] = integration[c] \/ integration[c].at < integration'[c].at

(* What a step of somebody else leaves to q: nobody claims in its name, and  *)
(* nobody claims, integrates or empties its list while it holds the fence.   *)
Aside(q) ==
    /\ op'[q] = op[q]
    /\ fence' = q <=> fence = q
    /\ \A c \in Contracts : claimedBy'[c] = claimedBy[c] \/ (claimedBy[c] = None /\ claimedBy'[c] \notin {None, q})
    /\ fence = q =>
         /\ UNCHANGED <<integration, claimedBy>>
         /\ fresh \subseteq fresh'
         /\ \A w \in Checkouts, x \in Ignored : Untracked(w, x)' => Untracked(w, x) \/ <<w, x>> \in fresh'

LEMMA SoundKeeps ==
    ASSUME Typed, Typed', Onward, NEW i \in Integrations, Sound(i)
    PROVE  Sound(i)'
<1>1. i.at \in Nat /\ i.pred \in Snapshots /\ moves \in Nat /\ moves' \in Nat
  BY DEF Typed, Integrations
<1>2. Known(i.pred)'
  BY <1>1 DEF Onward, Sound
<1>3. i.at <= moves' /\ (i.at = moves' => i.pred = head')
  BY <1>1 DEF Onward, Sound
<1> QED
  BY <1>2, <1>3 DEF Sound

LEMMA BystanderKeeps ==
    ASSUME Inv, Typed', Onward, NEW q \in Processes, Aside(q)
    PROVE  Own(q)'
<1> DEFINE o == op[q]
<1>1. o \in Ops /\ o' = o /\ Own(q) /\ moves \in Nat /\ moves' \in Nat
  BY DEF Inv, Typed, Aside
<1>2. Custody(q)'
  BY <1>1 DEF Own, Custody, Aside
<1>3. Secured(q)'
  <2> SUFFICES ASSUME op[q].phase \in {"admitting", "following", "worktree-merge"},
                      NEW w \in op[q].guarded \cap op[q].todo, NEW x \in Changed(op[q].plan),
                      op[q].plan.snap.tree[x] # Absent, Untracked(w, x)', x \in Ignored
               PROVE  <<w, x>> \in fresh'
    BY <1>1 DEF Secured, Changed
  <2>1. fence = q
    BY <1>1 DEF Own, Custody, Fenced
  <2>2. w \in Checkouts
    BY <1>1 DEF Ops
  <2>3. Untracked(w, x) => <<w, x>> \in fresh
    BY <1>1 DEF Own, Secured
  <2> QED
    BY <2>1, <2>2, <2>3 DEF Aside
<1>4. CASE q = Reconciler
  <2>1. Recoverer
    BY <1>1, <1>4 DEF Own
  <2>2. Recoverer'
    BY <1>1, <1>4, <2>1 DEF Recoverer, Onward, Ops
  <2> QED
    BY <1>2, <1>3, <1>4, <2>2 DEF Own
<1>5. CASE q # Reconciler
  <2>1. Completion(q) /\ q \in Completers /\ q # None
    BY <1>1, <1>5, TargetAssumption DEF Own, Processes
  <2>2. \A c \in Contracts : claimedBy'[c] = q <=> claimedBy[c] = q
    BY <2>1 DEF Aside
  <2>3. ASSUME o.phase \in Seeking PROVE Candidate(q)'
    <3> DEFINE c == o.contract  i == integration[c]  j == integration'[c]
    <3>1. Candidate(q) /\ c \in Contracts
      BY <2>1, <2>3 DEF Completion, Candidate
    <3>2. i \in Integrations /\ j \in Integrations /\ i.at \in Nat /\ j.at \in Nat /\ (j = i \/ i.at < j.at)
          /\ Sound(i) /\ i.pred \in Snapshots
      BY <3>1 DEF Inv, Typed, Onward, Integrations, TargetSound
    <3>3. /\ o.doubt # None => o.phase \in Publishing
          /\ claimedBy'[c] = q <=> o.phase = "admitting" /\ o.doubt = "recorded"
      BY <2>2, <3>1 DEF Candidate
    <3>4. o.seen \in Integrations /\ o.seen.at \in Nat /\ Sound(o.seen)'
      <4>1. o.seen \in Integrations /\ Sound(o.seen)
        BY <3>1 DEF Candidate
      <4> QED
        BY <4>1, <1>1, SoundKeeps DEF Inv, Integrations
    <3>5. o.seen = j \/ o.seen.at < j.at
      BY <3>1, <3>2, <3>4 DEF Candidate
    <3>6. o.since \in Nat /\ o.cycles \in Nat
      BY <1>1 DEF Ops, MaxCycles
    <3>7. o.since + o.cycles <= o.seen.at
      BY <3>1 DEF Candidate
    <3>8. ASSUME o.phase \in {"refencing", "replanning", "reintegrating"}
          PROVE  /\ j.at >= o.since + o.cycles + 1 \/ (j.pred # head' /\ moves' >= o.since + o.cycles + 1)
                 /\ o.cycles < MaxCycles
      <4> SUFFICES j.at >= o.since + o.cycles + 1 \/ (j.pred # head' /\ moves' >= o.since + o.cycles + 1)
        BY <3>1, <3>8 DEF Candidate, Outrun
      <4>1. i.at >= o.since + o.cycles + 1 \/ (i.pred # head /\ moves >= o.since + o.cycles + 1)
        BY <3>1, <3>8 DEF Candidate, Outrun
      <4>2. i.at >= o.since + o.cycles
        BY <3>1, <3>2, <3>4, <3>6, <3>7 DEF Candidate
      <4>3. CASE j = i
        <5>1. i.pred # head => i.pred # head'
          BY <3>2 DEF Onward, Sound
        <5> QED
          BY <4>1, <4>3, <5>1, <1>1, <3>2, <3>6 DEF Onward
      <4>4. CASE i.at < j.at
        BY <4>2, <4>4, <3>2, <3>6
      <4> QED
        BY <3>2, <4>3, <4>4
    <3>9. ASSUME o.phase \in {"admitting", "reintegrating"} PROVE j = i /\ claimedBy' = claimedBy
      <4>1. fence = q
        BY <1>1, <3>9 DEF Own, Custody, Fenced
      <4> QED
        BY <4>1 DEF Aside
    <3>10. o.phase = "admitting" => o.plan = j /\ claimedBy'[c] \in {None, q}
      BY <3>1, <3>9 DEF Candidate
    <3>11. ASSUME o.phase = "reintegrating"
           PROVE  /\ o.plan \in Integrations /\ o.plan.snap.by = c /\ Sound(o.plan)'
                  /\ o.plan = j \/ o.plan.at > j.at
                  /\ o.plan.at >= o.since + o.cycles + 1
                  /\ o.doubt = "recorded" => o.plan = j
      <4>1. /\ o.plan \in Integrations /\ o.plan.snap.by = c /\ Sound(o.plan)
            /\ o.plan = i \/ o.plan.at > i.at
            /\ o.plan.at >= o.since + o.cycles + 1
            /\ o.doubt = "recorded" => o.plan = i
        BY <3>1, <3>11 DEF Candidate
      <4>2. Sound(o.plan)'
        BY <4>1, <1>1, SoundKeeps DEF Inv
      <4> QED
        BY <4>1, <4>2, <3>9, <3>11
    <3> QED
      BY <1>1, <3>1, <3>3, <3>4, <3>5, <3>7, <3>8, <3>10, <3>11 DEF Candidate, Outrun, Sound, Known
  <2>4. o.since \in Nat /\ o.cycles \in Nat
    BY <1>1 DEF Ops, MaxCycles
  <2>5. Completion(q)'
    BY <1>1, <2>1, <2>2, <2>3, <2>4 DEF Completion, Onward, Honest
  <2> QED
    BY <1>2, <1>3, <1>5, <2>5 DEF Own
<1> QED
  BY <1>4, <1>5

(* A step of p alone: it leaves the target as it is, takes a free fence or   *)
(* gives up its own, and touches checkouts only under it.                    *)
OwnStep(p) ==
    /\ \A q \in Processes : q # p => op'[q] = op[q]
    /\ fence' = fence \/ (fence \in {None, p} /\ fence' \in {None, p})
    /\ UNCHANGED targetVars
    /\ fence # p => UNCHANGED checkoutVars

LEMMA OwnStepKeeps ==
    ASSUME Inv, Typed', NEW p \in Processes, OwnStep(p), Own(p)'
    PROVE  Inv'
<1>1. UNCHANGED <<head, moves, integration, claimedBy>> /\ moves \in Nat
  BY DEF OwnStep, targetVars, Inv, Typed
<1>2. Onward
  BY <1>1 DEF Onward, Known
<1>3. TargetSound'
  BY <1>1 DEF Inv, TargetSound, Sound, Known
<1>4. ASSUME NEW q \in Processes, q # p PROVE Aside(q)
  <2>1. op'[q] = op[q] /\ (fence' = q <=> fence = q)
    BY <1>4, TargetAssumption DEF OwnStep
  <2>2. fence = q => UNCHANGED <<index, work, fresh>>
    BY <1>4 DEF OwnStep, checkoutVars
  <2> QED
    BY <1>1, <2>1, <2>2 DEF Aside, Untracked
<1>5. ASSUME NEW q \in Processes, q # p PROVE Own(q)'
  BY <1>2, <1>4, <1>5, BystanderKeeps
<1> QED
  BY <1>3, <1>5 DEF Inv

(* Each process has the part of the code that it is in.                      *)
LEMMA WhoActs ==
    ASSUME Inv, NEW p \in Processes
    PROVE  /\ op[p] \in Ops /\ p # None
           /\ Custody(p) /\ Secured(p)
           /\ p \in Completers => p # Reconciler /\ Completion(p) /\ op[p].phase \notin Recovering
           /\ p = Reconciler => Recoverer /\ op[p].phase \in {"idle"} \cup Recovering
           /\ op[p].phase \notin {"idle"} \cup Recovering => p \in Completers
           /\ op[p].phase \in Recovering => p = Reconciler
           /\ op[p].phase \in Seeking \ Publishing => op[p].doubt = None /\ claimedBy[op[p].contract] # p
<1>1. op[p] \in Ops /\ p # None /\ Own(p) /\ (p \in Completers \/ p = Reconciler) /\ Reconciler \notin Completers
  BY TargetAssumption DEF Inv, Typed, Processes
<1> QED
  BY <1>1 DEF Own, Completion, Recoverer, Candidate, Publishing, Seeking, Recovering, Mending

(* What an own step's type rests on.                                         *)
LEMMA OpTyped ==
    ASSUME Typed, NEW p \in Processes, NEW o \in Ops, op' = [op EXCEPT ![p] = o],
           UNCHANGED targetVars, fence' \in {None, p, fence}, UNCHANGED <<index, work>>,
           fresh' \in {fresh, {}}, scene' \in Scenes
    PROVE  Typed'
BY DEF Typed, targetVars

-----------------------------------------------------------------------------
(* The initial states                                                        *)

LEMMA InitInv == Init => Inv
<1> SUFFICES ASSUME Init PROVE Inv
  OBVIOUS
<1>1. PICK s \in Scenarios : scene = s
  BY DEF Init
<1>2. BaseTree \in CommitTrees /\ BaseTree \in Trees
  BY DEF BaseTree, CommitTrees, Trees
<1>3. Base \in Snapshots /\ Base.by = None /\ Base.at = 0
  BY <1>2 DEF Base, Commit, Snapshots
<1>4. ASSUME NEW c \in Contracts
      PROVE  /\ integration[c] \in Integrations /\ integration[c].pred = head /\ integration[c].at = 0
             /\ integration[c].snap.by = c
  <2>1. MergedTree(c, BaseTree) \in CommitTrees
    BY <1>2 DEF MergedTree, CommitTrees
  <2> QED
    BY <1>3, <2>1 DEF Init, Integrations, Snapshots, Commit
<1>5. Idle \in Ops
  BY DEF Idle, Ops, Phases, Outcomes, Endings, Doubts, MaxCycles, MaxAttempts
<1>6. integration \in [Contracts -> Integrations]
  <2>1. integration = [c \in Contracts |-> integration[c]]
    BY DEF Init
  <2> QED
    BY <1>4, <2>1
<1>7. Typed
  BY <1>1, <1>2, <1>3, <1>5, <1>6, TargetAssumption DEF Init, Typed
<1>8. TargetSound
  BY <1>3, <1>4 DEF Init, TargetSound, Sound, Known
<1>9. ASSUME NEW p \in Processes PROVE Own(p)
  <2>1. op[p] = Idle /\ fence = None /\ p # None /\ moves = 0
    BY TargetAssumption DEF Init
  <2>2. Custody(p) /\ Secured(p)
    BY <2>1 DEF Custody, Secured, Idle, Fenced
  <2>3. Completion(p)
    BY <2>1, TargetAssumption DEF Completion, Idle, Recovering, Mending, Seeking, Endings
  <2>4. p = Reconciler => Recoverer
    BY <2>1 DEF Recoverer, Idle, Mending, Recovering
  <2> QED
    BY <2>2, <2>3, <2>4 DEF Own
<1> QED
  BY <1>7, <1>8, <1>9 DEF Inv

-----------------------------------------------------------------------------
(* A completion's steps                                                      *)

LEMMA CompleteKeeps == ASSUME Inv, NEW p \in Processes, Complete(p) PROVE Inv'
<1> DEFINE c == scene.jobs[p]
           o == [Idle EXCEPT !.phase = "observing", !.contract = c, !.seen = integration[c], !.since = integration[c].at]
<1>1. /\ p \in Completers /\ p # Reconciler /\ Completion(p) /\ Custody(p) /\ op[p].phase = "idle"
  BY WhoActs DEF Complete, Phase
<1>2. c \in Contracts /\ claimedBy[c] = None /\ op' = [op EXCEPT ![p] = o]
  BY <1>1 DEF Complete, Inv, Typed, Scenes
<1>3. integration[c] \in Integrations /\ integration[c].at \in Nat /\ Sound(integration[c])
  BY <1>2 DEF Inv, Typed, TargetSound, Integrations
<1>4. o \in Ops
  <2>1. Idle \in Ops
    BY DEF Idle, Ops, Phases, Outcomes, Endings, Doubts, MaxCycles, MaxAttempts
  <2> HIDE DEF c
  <2> QED
    BY <1>2, <1>3, <2>1 DEF Ops, Phases
<1>5. UNCHANGED <<head, moves, integration, claimedBy, fence, index, work, fresh, scene>>
  BY DEF Complete, targetVars, checkoutVars
<1>6. Typed'
  BY <1>2, <1>4, <1>5, OpTyped DEF Inv, Typed, targetVars
<1>7. op'[p] = o
  BY <1>2 DEF Inv, Typed
<1>8. Custody(p)' /\ Secured(p)'
  BY <1>1, <1>5, <1>7 DEF Custody, Secured, Fenced
<1>9. Candidate(p)'
  <2>1. /\ op'[p].phase = "observing" /\ op'[p].contract = c /\ op'[p].seen = integration[c]
        /\ op'[p].cycles = 0 /\ op'[p].since = integration[c].at /\ op'[p].doubt = None
    BY <1>7 DEF Idle
  <2> HIDE DEF o, c
  <2> QED
    BY <1>1, <1>2, <1>3, <1>5, <2>1, TargetAssumption DEF Candidate, Sound, Known, Processes
<1>10. Completion(p)'
  <2>1. /\ op'[p].phase = "observing" /\ op'[p].cycles = 0 /\ op'[p].since = integration[c].at /\ op'[p].out = None
    BY <1>7 DEF Idle
  <2> HIDE DEF o, c
  <2> QED
    BY <1>3, <1>5, <1>9, <2>1, TargetAssumption DEF Completion, Recovering, Mending, Sound, Endings
<1>11. OwnStep(p)
  BY <1>2, <1>5 DEF OwnStep, Inv, Typed, targetVars, checkoutVars
<1> QED
  BY <1>1, <1>6, <1>8, <1>10, <1>11, OwnStepKeeps DEF Own

(* A completion that knows to be still before its claim, and did not integrate. *)
Resumes(p, o) ==
    /\ o.phase \in Seeking /\ o.doubt = None /\ claimedBy[o.contract] # p
    /\ o.contract = op[p].contract /\ o.seen = op[p].seen /\ o.since = op[p].since /\ o.cycles = op[p].cycles
    /\ o.out = op[p].out
    /\ o.phase \in {"refencing", "replanning", "reintegrating"} => Outrun(p)
    /\ o.phase = "admitting" =>
         /\ o.plan = integration[o.contract] /\ claimedBy[o.contract] = None
         /\ o.guarded \subseteq {w \in Checkouts : ~IgnoredCollision(w, o.plan)}
    /\ o.phase = "reintegrating" =>
         /\ o.plan \in Integrations /\ o.plan.snap.by = o.contract /\ Sound(o.plan)
         /\ o.plan = integration[o.contract] \/ o.plan.at > integration[o.contract].at
         /\ o.plan.at >= o.since + o.cycles + 1

LEMMA SeekerKeeps ==
    ASSUME Inv, NEW p \in Completers, op[p].phase \in Seeking, NEW o \in Ops, Resumes(p, o),
           op' = [op EXCEPT ![p] = o], UNCHANGED <<targetVars, index, work, scene>>,
           fresh' \in {fresh, {}}, fence # p => fresh' = fresh,
           fence' = fence \/ (fence \in {None, p} /\ fence' \in {None, p}), fence' = p <=> o.phase \in Fenced
    PROVE  Inv'
<1>1. p \in Processes /\ p # Reconciler /\ Completion(p) /\ Candidate(p) /\ p # None
  BY WhoActs DEF Processes, Completion
<1>2. UNCHANGED <<head, moves, integration, claimedBy>> /\ op'[p] = o
  BY <1>1 DEF targetVars, Inv, Typed
<1>3. Typed'
  BY <1>1, OpTyped DEF Inv, Typed
<1>4. OwnStep(p)
  BY <1>1 DEF OwnStep, checkoutVars, Inv, Typed
<1>5. Custody(p)'
  BY <1>2 DEF Custody
<1>6. Secured(p)'
  <2>1. CASE o.phase = "admitting"
    <3> SUFFICES ASSUME NEW w \in o.guarded \cap o.todo, NEW q \in Changed(o.plan)
                 PROVE  ~(o.plan.snap.tree[q] # Absent /\ Untracked(w, q)' /\ q \in Ignored)
      BY <1>2 DEF Secured, Changed
    <3>1. w \in Checkouts /\ ~IgnoredCollision(w, o.plan)
      BY <2>1 DEF Resumes
    <3>2. Untracked(w, q)' = Untracked(w, q)
      BY DEF Untracked
    <3> QED
      BY <3>1, <3>2 DEF IgnoredCollision
  <2>2. CASE o.phase # "admitting"
    BY <1>2, <2>2 DEF Secured, Resumes, Seeking
  <2> QED
    BY <2>1, <2>2
<1>7. Candidate(p)'
  <2>1. Outrun(p)' <=> Outrun(p)
    BY <1>2 DEF Outrun, Resumes
  <2>2. \A i \in Integrations : Sound(i)' <=> Sound(i)
    BY <1>2 DEF Sound, Known
  <2> QED
    BY <1>1, <1>2, <2>1, <2>2, TargetAssumption DEF Candidate, Resumes, Doubts
<1>8. Completion(p)'
  BY <1>1, <1>2, <1>7, TargetAssumption DEF Completion, Resumes, Seeking, Recovering, Mending, Endings
<1> QED
  BY <1>1, <1>3, <1>4, <1>5, <1>6, <1>8, OwnStepKeeps DEF Own

LEMMA EndedTyped ==
    ASSUME NEW o \in Ops, NEW out \in Endings
    PROVE  /\ Ended(o, out) \in Ops /\ Ended(o, out).phase = "ended" /\ Ended(o, out).out = out
           /\ Ended(o, out).contract = o.contract
           /\ Ended(o, out).since = o.since /\ Ended(o, out).cycles = o.cycles /\ Ended(o, out).doubt = o.doubt
BY DEF Ended, Ops, Phases, Outcomes

(* A completion that ends.                                                   *)
LEMMA StopKeeps ==
    ASSUME Inv, NEW p \in Completers, op[p].phase # "idle", NEW out \in Endings,
           Honest(p, out),
           out = "moved" => op[p].cycles = MaxCycles /\ op[p].since + op[p].cycles < moves,
           op' = [op EXCEPT ![p] = Ended(op[p], out)], fence' = Unfenced(p), UNCHANGED <<targetVars, index>>,
           work' \in [Checkouts -> Trees], fresh' \in SUBSET (Checkouts \X Paths), scene' \in Scenes,
           fence # p => UNCHANGED checkoutVars
    PROVE  Inv'
<1>1. p \in Processes /\ p # Reconciler /\ Completion(p) /\ p # None /\ op[p] \in Ops
  BY WhoActs DEF Processes
<1>2. UNCHANGED <<head, moves, integration, claimedBy>> /\ op'[p] = Ended(op[p], out)
  BY <1>1 DEF targetVars, Inv, Typed
<1>3. op[p].contract \in Contracts
  BY <1>1 DEF Completion, Candidate, Ops, Phases, Seeking, Recovering, Mending
<1>4. /\ op'[p] \in Ops /\ op'[p].phase = "ended" /\ op'[p].out = out /\ op'[p].contract = op[p].contract
      /\ op'[p].since = op[p].since /\ op'[p].cycles = op[p].cycles /\ op'[p].doubt = op[p].doubt
  BY <1>1, <1>2, EndedTyped
<1>5. Typed'
  BY <1>1, <1>2, <1>4 DEF Inv, Typed, Unfenced
<1>6. OwnStep(p)
  BY <1>1 DEF OwnStep, checkoutVars, Inv, Typed, Unfenced
<1>7. Custody(p)' /\ Secured(p)'
  BY <1>1, <1>4 DEF Custody, Secured, Unfenced, Fenced
<1>8. Completion(p)'
  <2>1. ASSUME op'[p].out = "moved"
        PROVE  op'[p].cycles = MaxCycles /\ op'[p].since + op'[p].cycles < moves'
    BY <1>2, <1>4, <2>1
  <2>2. op'[p].since + op'[p].cycles <= moves'
    BY <1>1, <1>2, <1>4 DEF Completion
  <2>3. Honest(p, out)'
    BY <1>2, <1>3, <1>4 DEF Honest
  <2> QED
    BY <1>3, <1>4, <2>1, <2>2, <2>3 DEF Completion, Recovering, Mending, Seeking, Honest
<1> QED
  BY <1>1, <1>5, <1>6, <1>7, <1>8, OwnStepKeeps DEF Own

(* What a completion does about a target that has moved.                     *)
LEMMA MovementKeeps ==
    ASSUME Inv, NEW p \in Completers, op[p].phase \in {"observing", "placing"}, NEW i \in Integrations,
           i = op[p].seen \/ i = integration[op[p].contract], head # i.pred,
           op' = [op EXCEPT ![p] = AfterMovement(op[p], i)], fence' = Unfenced(p),
           UNCHANGED <<targetVars, checkoutVars, scene>>
    PROVE  Inv'
<1> DEFINE c == op[p].contract
<1>1. /\ p \in Processes /\ p # Reconciler /\ Completion(p) /\ p # None /\ op[p] \in Ops /\ Custody(p)
      /\ Candidate(p)
  BY WhoActs DEF Processes, Completion, Seeking
<1>2. /\ c \in Contracts /\ integration[c] \in Integrations /\ Sound(integration[c])
      /\ op[p].seen \in Integrations /\ Sound(op[p].seen) /\ claimedBy[c] # p /\ op[p].doubt = None
      /\ op[p].seen = integration[c] \/ op[p].seen.at < integration[c].at
      /\ op[p].since + op[p].cycles <= op[p].seen.at
  BY <1>1 DEF Candidate, Inv, TargetSound, Typed, Publishing
<1>3. /\ op[p].since \in Nat /\ op[p].cycles \in Nat /\ op[p].seen.at \in Nat /\ integration[c].at \in Nat
      /\ i.at \in Nat /\ moves \in Nat
  BY <1>1, <1>2 DEF Ops, MaxCycles, Integrations, Inv, Typed
<1>4. i.at < moves
  BY <1>2, <1>3 DEF Sound
<1>5. op[p].since + op[p].cycles < moves /\ (op[p].cycles # MaxCycles => Outrun(p))
  <2>1. op[p].since + op[p].cycles < moves
    BY <1>2, <1>3, <1>4
  <2>2. integration[c].at >= op[p].since + op[p].cycles + 1
          \/ (integration[c].pred # head /\ moves >= op[p].since + op[p].cycles + 1)
    BY <1>2, <1>3, <2>1
  <2> QED
    BY <1>1, <2>1, <2>2 DEF Outrun, Ops, MaxCycles
<1>6. UNCHANGED <<head, moves, integration, claimedBy, index, work, fresh, scene>>
  BY DEF targetVars, checkoutVars
<1>7. work' \in [Checkouts -> Trees] /\ fresh' \in SUBSET (Checkouts \X Paths) /\ scene' \in Scenes
  BY <1>6 DEF Inv, Typed
<1>8. CASE head.tree = i.snap.tree
  <2>1. AfterMovement(op[p], i) = Ended(op[p], "equal") /\ "equal" \in Endings
    BY <1>8 DEF AfterMovement, Endings
  <2> QED
    BY <1>2, <1>6, <1>7, <2>1, StopKeeps DEF Honest
<1>9. CASE head.tree # i.snap.tree /\ op[p].cycles = MaxCycles
  <2>1. AfterMovement(op[p], i) = Ended(op[p], "moved") /\ "moved" \in Endings
    BY <1>9 DEF AfterMovement, Endings
  <2> QED
    BY <1>2, <1>5, <1>6, <1>7, <1>9, <2>1, StopKeeps DEF Honest
<1>10. CASE head.tree # i.snap.tree /\ op[p].cycles # MaxCycles
  <2> DEFINE o == [op[p] EXCEPT !.phase = "refencing"]
  <2>1. AfterMovement(op[p], i) = o
    BY <1>10 DEF AfterMovement
  <2>2. o \in Ops /\ Resumes(p, o) /\ o.phase \notin Fenced
    BY <1>1, <1>2, <1>5, <1>10 DEF Ops, Phases, Resumes, Seeking, Fenced
  <2>3. fence' # p /\ (fence' = fence \/ (fence \in {None, p} /\ fence' \in {None, p}))
    BY <1>1 DEF Unfenced
  <2> QED
    BY <1>1, <1>6, <2>1, <2>2, <2>3, SeekerKeeps DEF Seeking
<1> QED
  BY <1>8, <1>9, <1>10

LEMMA ObserveKeeps == ASSUME Inv, NEW p \in Processes, Observe(p) PROVE Inv'
<1>1. /\ p \in Completers /\ op[p].phase = "observing" /\ op[p] \in Ops /\ Custody(p) /\ Candidate(p) /\ p # None
      /\ op[p].doubt = None /\ claimedBy[op[p].contract] # p
  BY WhoActs DEF Observe, Phase, Recovering, Mending, Completion, Seeking, Publishing
<1>2. op[p].seen \in Integrations /\ fence # p
  BY <1>1 DEF Candidate, Custody, Fenced
<1>3. CASE head = op[p].seen.pred
  <2> DEFINE o == [op[p] EXCEPT !.phase = "judging"]
  <2>1. op' = [op EXCEPT ![p] = o]
    BY <1>3 DEF Observe
  <2>2. o \in Ops /\ Resumes(p, o) /\ o.phase \notin Fenced
    BY <1>1 DEF Ops, Phases, Resumes, Seeking, Fenced
  <2> QED
    BY <1>1, <1>2, <2>1, <2>2, SeekerKeeps DEF Observe, checkoutVars, Seeking
<1>4. CASE head # op[p].seen.pred
  <2>1. op' = [op EXCEPT ![p] = AfterMovement(op[p], op[p].seen)] /\ fence' = Unfenced(p)
    BY <1>2, <1>4 DEF Observe, Unfenced
  <2> QED
    BY <1>1, <1>2, <1>4, <2>1, MovementKeeps DEF Observe
<1> QED
  BY <1>3, <1>4

(* A stop that says that nothing was claimed, where nothing was.             *)
LEMMA RefusalKeeps ==
    ASSUME Inv, NEW p \in Completers, op[p].phase \in Seeking, claimedBy[op[p].contract] # p,
           NEW out \in Endings \ {"completed", "moved"},
           op' = [op EXCEPT ![p] = Ended(op[p], out)], fence' = Unfenced(p),
           UNCHANGED <<targetVars, checkoutVars, scene>>
    PROVE  Inv'
<1>1. op[p].phase # "idle"
  BY DEF Seeking
<1>2. Honest(p, out)
  BY DEF Honest
<1>3. /\ UNCHANGED <<targetVars, index>> /\ work' \in [Checkouts -> Trees]
      /\ fresh' \in SUBSET (Checkouts \X Paths) /\ scene' \in Scenes
  BY DEF checkoutVars, Inv, Typed
<1> QED
  BY <1>1, <1>2, <1>3, StopKeeps

LEMMA JudgeKeeps == ASSUME Inv, NEW p \in Processes, Judge(p) PROVE Inv'
<1>1. /\ p \in Completers /\ op[p].phase = "judging" /\ op[p] \in Ops /\ fence # p
      /\ op[p].doubt = None /\ claimedBy[op[p].contract] # p
  BY WhoActs DEF Judge, Phase, Recovering, Mending, Custody, Fenced, Seeking, Publishing
<1>2. CASE Judged(op[p].seen, "refused") # {}
  <2>1. op' = [op EXCEPT ![p] = Ended(op[p], "refused")] /\ fence' = Unfenced(p)
    BY <1>1, <1>2 DEF Judge, Stop, Unfenced
  <2> QED
    BY <1>1, <2>1, RefusalKeeps DEF Judge, Endings, Seeking
<1>3. CASE Judged(op[p].seen, "refused") = {}
  <2> DEFINE o == [op[p] EXCEPT !.phase = "fencing"]
  <2>1. op' = [op EXCEPT ![p] = o]
    BY <1>1, <1>3 DEF Judge, Goto
  <2>2. o \in Ops /\ Resumes(p, o) /\ o.phase \notin Fenced
    BY <1>1 DEF Ops, Phases, Resumes, Seeking, Fenced
  <2> QED
    BY <1>1, <2>1, <2>2, SeekerKeeps DEF Judge, checkoutVars, Seeking
<1> QED
  BY <1>2, <1>3

(* The reconciler comes to rest.                                             *)
LEMMA IdleTyped == Idle \in Ops /\ Idle.phase = "idle" /\ Idle.out = None
BY DEF Idle, Ops, Phases, Outcomes, Doubts, MaxCycles, MaxAttempts

LEMMA RestKeeps ==
    ASSUME Inv, Reconciler \in Processes, op' = [op EXCEPT ![Reconciler] = Idle], fence' = Unfenced(Reconciler),
           UNCHANGED <<targetVars, index>>, work' \in [Checkouts -> Trees],
           fresh' \in SUBSET (Checkouts \X Paths), scene' \in Scenes,
           fence # Reconciler => UNCHANGED checkoutVars
    PROVE  Inv'
<1>1. UNCHANGED <<head, moves, integration, claimedBy>> /\ op'[Reconciler] = Idle /\ Reconciler # None
  BY TargetAssumption DEF targetVars, Inv, Typed
<1>2. Typed'
  BY <1>1, IdleTyped DEF Inv, Typed, Unfenced
<1>3. OwnStep(Reconciler)
  BY DEF OwnStep, checkoutVars, Inv, Typed, Unfenced
<1>4. Custody(Reconciler)' /\ Secured(Reconciler)'
  BY <1>1, IdleTyped DEF Custody, Secured, Unfenced, Fenced
<1>5. Recoverer'
  BY <1>1, IdleTyped DEF Recoverer, Mending, Recovering
<1> QED
  BY <1>2, <1>3, <1>4, <1>5, OwnStepKeeps DEF Own

(* A step of the reconciler that does not touch the target.                  *)
LEMMA RecoveryKeeps ==
    ASSUME Inv, Reconciler \in Processes, NEW o \in Ops, op' = [op EXCEPT ![Reconciler] = o],
           o.phase \in Recovering, o.contract \in Contracts, o.out = None,
           o.phase \in Mending => o.plan \in Integrations /\ o.since <= moves /\ (moves = o.since => head = o.plan.snap),
           fence' = fence \/ (fence \in {None, Reconciler} /\ fence' \in {None, Reconciler}),
           fence' = Reconciler <=> o.phase \in Fenced,
           UNCHANGED <<targetVars, scene>>, index' \in [Checkouts -> Trees], work' \in [Checkouts -> Trees],
           fresh' \in SUBSET (Checkouts \X Paths), fence # Reconciler => UNCHANGED checkoutVars,
           o.phase = "worktree-merge" =>
               fresh' = {} /\ o.guarded \subseteq o.todo /\ \A w \in o.guarded \cap o.todo : ~IgnoredCollision(w, o.plan)',
           o.phase # "following" /\ o.phase # "admitting"
    PROVE  Inv'
<1>1. UNCHANGED <<head, moves, integration, claimedBy>> /\ op'[Reconciler] = o /\ Reconciler # None
  BY TargetAssumption DEF targetVars, Inv, Typed
<1>2. Typed'
  BY <1>1 DEF Inv, Typed
<1>3. OwnStep(Reconciler)
  BY DEF OwnStep, checkoutVars, Inv, Typed
<1>4. Custody(Reconciler)'
  BY <1>1 DEF Custody
<1>5. Secured(Reconciler)'
  BY <1>1 DEF Secured, IgnoredCollision, Changed
<1>6. Recoverer'
  BY <1>1 DEF Recoverer
<1> QED
  BY <1>2, <1>3, <1>4, <1>5, <1>6, OwnStepKeeps DEF Own

Entered(o, next, n) == [o EXCEPT !.phase = next, !.attempts = n]
Same(o, e) ==
    /\ e.contract = o.contract /\ e.seen = o.seen /\ e.since = o.since /\ e.cycles = o.cycles /\ e.out = o.out

LEMMA EnteredTyped ==
    ASSUME NEW o \in Ops, NEW next \in Phases, NEW n \in 0..MaxAttempts
    PROVE  /\ Entered(o, next, n) \in Ops /\ Entered(o, next, n).phase = next /\ Same(o, Entered(o, next, n))
           /\ Entered(o, next, n).doubt = o.doubt
BY DEF Ops, Entered, Same

LEMMA AcquireFenceKeeps == ASSUME Inv, NEW p \in Processes, AcquireFence(p) PROVE Inv'
<1>1. /\ op[p].phase \in {"fencing", "refencing", "recovering"} /\ fence = None /\ fence' = p
      /\ op[p] \in Ops /\ p # None
      /\ UNCHANGED <<targetVars, checkoutVars, scene>>
  BY WhoActs DEF AcquireFence, Phase, Within
<1> DEFINE o(next) == Entered(op[p], next, 0)
<1>2. op' = [op EXCEPT ![p] = o(Within[op[p].phase])]
  BY DEF AcquireFence, Entered, Inv, Typed
<1> HIDE DEF o
<1>3. CASE op[p].phase \in {"fencing", "refencing"}
  <2>1. p \in Completers /\ Candidate(p) /\ op[p].doubt = None /\ claimedBy[op[p].contract] # p
    BY <1>1, <1>3, WhoActs DEF Recovering, Mending, Completion, Seeking, Publishing
  <2>2. PICK next \in {"placing", "replanning"} :
            op' = [op EXCEPT ![p] = o(next)] /\ (next = "replanning" => op[p].phase = "refencing")
    <3>1. Within["fencing"] = "placing" /\ Within["refencing"] = "replanning"
      BY DEF Within
    <3> QED
      BY <1>2, <1>3, <3>1
  <2>3. /\ o(next) \in Ops /\ o(next).phase = next /\ o(next).contract = op[p].contract
        /\ o(next).seen = op[p].seen /\ o(next).since = op[p].since /\ o(next).cycles = op[p].cycles
        /\ o(next).out = op[p].out /\ o(next).doubt = None
    <3>1. next \in Phases /\ 0 \in 0..MaxAttempts
      BY DEF Phases, MaxAttempts
    <3> QED
      BY <1>1, <2>1, <3>1, EnteredTyped DEF o, Same
  <2>4. Resumes(p, o(next)) /\ o(next).phase \in Fenced
    BY <1>3, <2>1, <2>2, <2>3 DEF Resumes, Seeking, Fenced, Candidate
  <2> QED
    BY <1>1, <1>3, <2>1, <2>2, <2>3, <2>4, SeekerKeeps DEF checkoutVars, Seeking
<1>4. CASE op[p].phase = "recovering"
  <2>1. p = Reconciler /\ Recoverer
    BY <1>1, <1>4, WhoActs DEF Recovering
  <2>2. op' = [op EXCEPT ![p] = o("surveying")]
    <3>1. Within["recovering"] = "surveying"
      BY DEF Within
    <3> QED
      BY <1>2, <1>4, <3>1
  <2>3. o("surveying") \in Ops /\ o("surveying").contract \in Contracts /\ o("surveying").out = None
        /\ o("surveying").phase = "surveying"
    <3>1. op[p].contract \in Contracts /\ op[p].out = None
      BY <1>4, <2>1 DEF Recoverer
    <3>2. "surveying" \in Phases /\ 0 \in 0..MaxAttempts
      BY DEF Phases, MaxAttempts
    <3> QED
      BY <1>1, <3>1, <3>2, EnteredTyped DEF o, Same
  <2>4. index' \in [Checkouts -> Trees] /\ work' \in [Checkouts -> Trees] /\ fresh' \in SUBSET (Checkouts \X Paths)
    BY <1>1 DEF checkoutVars, Inv, Typed
  <2> QED
    BY <1>1, <2>1, <2>2, <2>3, <2>4, RecoveryKeeps DEF Recovering, Mending, Fenced
<1> QED
  BY <1>1, <1>3, <1>4

LEMMA FenceTimeoutKeeps == ASSUME Inv, NEW p \in Processes, FenceTimeout(p) PROVE Inv'
<1>1. /\ op[p].phase \in {"fencing", "refencing", "recovering"} /\ fence # None /\ fence # p
      /\ UNCHANGED <<targetVars, fence, checkoutVars, scene>> /\ fence' = Unfenced(p)
  BY WhoActs DEF FenceTimeout, Phase, Within, Unfenced, Custody, Fenced
<1>2. CASE p = Reconciler
  <2>1. op' = [op EXCEPT ![p] = Idle]
    BY <1>2 DEF FenceTimeout
  <2>2. /\ UNCHANGED <<targetVars, index>> /\ work' \in [Checkouts -> Trees]
        /\ fresh' \in SUBSET (Checkouts \X Paths) /\ scene' \in Scenes
    BY <1>1 DEF checkoutVars, Inv, Typed
  <2> QED
    BY <1>1, <1>2, <2>1, <2>2, RestKeeps
<1>3. CASE p # Reconciler
  <2>1. op' = [op EXCEPT ![p] = Ended(op[p], "placement-failed")]
    BY <1>3 DEF FenceTimeout
  <2>2. p \in Completers /\ op[p].phase \in Seeking /\ claimedBy[op[p].contract] # p
    BY <1>1, <1>3, WhoActs DEF Seeking, Recovering, Processes, Publishing
  <2> QED
    BY <1>1, <2>1, <2>2, RefusalKeeps DEF Endings
<1> QED
  BY <1>2, <1>3

LEMMA PlaceKeeps == ASSUME Inv, NEW p \in Processes, Place(p) PROVE Inv'
<1> DEFINE c == op[p].contract  i == integration[c]
<1>1. /\ p \in Completers /\ op[p].phase = "placing" /\ op[p] \in Ops /\ fence = p /\ Candidate(p) /\ p # None
      /\ op[p].doubt = None /\ claimedBy[c] # p
  BY WhoActs DEF Place, Phase, Recovering, Mending, Custody, Fenced, Completion, Seeking, Publishing
<1>2. c \in Contracts /\ i \in Integrations
  BY <1>1 DEF Candidate, Inv, Typed
<1>3. /\ UNCHANGED <<targetVars, index, work, scene>> /\ fence' = FenceAfter(p) /\ op[p].phase # "idle"
  BY <1>1 DEF Place
<1>4. ASSUME NEW out \in Endings, op' = [op EXCEPT ![p] = Ended(op[p], out)] PROVE fence' = Unfenced(p)
  <2>1. op'[p].phase = "ended"
    BY <1>1, <1>4, EndedTyped DEF Inv, Typed
  <2> QED
    BY <1>1, <1>3, <2>1 DEF FenceAfter, Unfenced
<1>5. ASSUME op' = [op EXCEPT ![p] = Ended(op[p], "refused")], UNCHANGED fresh PROVE Inv'
  <2>1. "refused" \in Endings \ {"completed", "moved"}
    BY DEF Endings
  <2> QED
    BY <1>1, <1>3, <1>4, <1>5, <2>1, RefusalKeeps DEF checkoutVars, Seeking
<1>6. CASE Stop(p, "refused") /\ UNCHANGED fresh
  BY <1>5, <1>6 DEF Stop
<1>7. CASE head # i.pred /\ op' = [op EXCEPT ![p] = AfterMovement(op[p], i)] /\ UNCHANGED fresh
  <2>1. AfterMovement(op[p], i).phase \in {"ended", "refencing"}
    BY <1>1, EndedTyped DEF AfterMovement, Endings, Ops
  <2>2. op'[p].phase \in {"ended", "refencing"}
    BY <1>1, <1>7, <2>1 DEF Inv, Typed
  <2>3. fence' = Unfenced(p)
    BY <1>1, <1>3, <2>2 DEF FenceAfter, Unfenced
  <2> QED
    BY <1>1, <1>2, <1>3, <1>7, <2>3, MovementKeeps DEF checkoutVars
<1>8. CASE Stop(p, "refused") /\ fresh' = {}
  <2>1. op' = [op EXCEPT ![p] = Ended(op[p], "refused")] /\ "refused" \in Endings
    BY <1>8 DEF Stop, Endings
  <2>2. work' \in [Checkouts -> Trees] /\ fresh' \in SUBSET (Checkouts \X Paths) /\ scene' \in Scenes
    BY <1>3, <1>8 DEF Inv, Typed
  <2> QED
    BY <1>1, <1>2, <1>3, <1>4, <2>1, <2>2, StopKeeps DEF Honest
<1>9. CASE /\ claimedBy[c] = None /\ fresh' = {}
           /\ op' = [op EXCEPT ![p] = [@ EXCEPT !.phase = "admitting", !.plan = i, !.todo = scene.registered,
                                                !.guarded = Judged(i, "followable")]]
  <2> DEFINE o == [op[p] EXCEPT !.phase = "admitting", !.plan = i, !.todo = scene.registered,
                                !.guarded = Judged(i, "followable")]
  <2>1. scene.registered \in SUBSET Checkouts /\ Judged(i, "followable") \in SUBSET Checkouts
        /\ Judged(i, "followable") \subseteq {w \in Checkouts : ~IgnoredCollision(w, i)}
    BY DEF Inv, Typed, Scenes, Judged, Precheck
  <2>2. op' = [op EXCEPT ![p] = o]
    BY <1>9
  <2>3. /\ o \in Ops /\ o.phase = "admitting" /\ o.plan = i /\ o.guarded = Judged(i, "followable") /\ Same(op[p], o)
        /\ o.doubt = None
    <3> HIDE DEF i
    <3> QED
      BY <1>1, <1>2, <2>1 DEF Ops, Phases, Same
  <2> HIDE DEF o
  <2>4. Resumes(p, o) /\ o.phase \in Fenced
    BY <1>1, <1>9, <2>1, <2>3 DEF Resumes, Seeking, Fenced, Same
  <2>5. fence' = p
    <3>1. op'[p] = o
      BY <1>1, <2>2 DEF Inv, Typed
    <3> QED
      BY <1>1, <1>3, <2>3, <3>1 DEF FenceAfter
  <2> QED
    BY <1>1, <1>3, <1>9, <2>2, <2>3, <2>4, <2>5, SeekerKeeps DEF Seeking
<1>10. \/ Stop(p, "refused") /\ UNCHANGED fresh
       \/ head # i.pred /\ op' = [op EXCEPT ![p] = AfterMovement(op[p], i)] /\ UNCHANGED fresh
       \/ Stop(p, "refused") /\ fresh' = {}
       \/ /\ claimedBy[c] = None /\ fresh' = {}
          /\ op' = [op EXCEPT ![p] = [@ EXCEPT !.phase = "admitting", !.plan = i, !.todo = scene.registered,
                                               !.guarded = Judged(i, "followable")]]
  BY Zenon DEF Place
<1> QED
  BY <1>6, <1>7, <1>8, <1>9, <1>10

(* An attempt that lost its race turns again, or ends.                       *)
LEMMA RetriedKeeps ==
    ASSUME Inv, NEW p \in Completers, op[p].phase \in Publishing, op[p].doubt # "recorded",
           op' = [op EXCEPT ![p] = Redecided(op[p])], fence' = FenceAfter(p),
           UNCHANGED <<targetVars, checkoutVars, scene>>
    PROVE  Inv'
<1> DEFINE phase == IF op[p].phase = "admitting" THEN "placing" ELSE "replanning"
<1>1. /\ op[p] \in Ops /\ fence = p /\ p # None /\ p \in Processes /\ op[p].attempts \in Nat
      /\ Candidate(p) /\ op[p].phase \in Seeking
  BY WhoActs DEF Processes, Custody, Fenced, Ops, MaxAttempts, Publishing, Completion, Seeking
<1>2. claimedBy[op[p].contract] # p /\ (phase = "replanning" => Outrun(p)) /\ phase \in {"placing", "replanning"}
  BY <1>1 DEF Candidate, Publishing
<1>3. op' = [op EXCEPT ![p] = Retried(op[p], phase)]
  BY DEF Redecided
<1> HIDE DEF phase
<1>4. CASE op[p].attempts + 1 < MaxAttempts
  <2> DEFINE o == [op[p] EXCEPT !.phase = phase, !.attempts = op[p].attempts + 1, !.doubt = None]
  <2>1. op' = [op EXCEPT ![p] = o]
    BY <1>3, <1>4 DEF Retried
  <2>2. o \in Ops /\ o.phase = phase /\ Same(op[p], o) /\ o.doubt = None
    <3>1. phase \in Phases /\ op[p].attempts + 1 \in 0..MaxAttempts
      BY <1>1, <1>2, <1>4 DEF Phases, MaxAttempts
    <3> QED
      BY <1>1, <3>1 DEF Ops, Same
  <2> HIDE DEF o
  <2>3. Resumes(p, o) /\ o.phase \in Fenced
    BY <1>2, <2>2 DEF Resumes, Same, Seeking, Fenced
  <2>4. op'[p] = o
    BY <1>1, <2>1 DEF Inv, Typed
  <2>5. fence' = p
    BY <1>1, <1>2, <2>2, <2>4 DEF FenceAfter
  <2> QED
    BY <1>1, <2>1, <2>2, <2>3, <2>5, SeekerKeeps DEF checkoutVars
<1>5. CASE ~(op[p].attempts + 1 < MaxAttempts)
  <2>1. op' = [op EXCEPT ![p] = Ended(op[p], "exhausted")] /\ "exhausted" \in Endings \ {"completed", "moved"}
    BY <1>3, <1>5 DEF Retried, Endings
  <2>2. op'[p].phase = "ended"
    BY <1>1, <2>1, EndedTyped DEF Inv, Typed
  <2>3. fence' = Unfenced(p)
    BY <1>1, <2>2 DEF FenceAfter, Unfenced
  <2> QED
    BY <1>1, <1>2, <2>1, <2>3, RefusalKeeps
<1> QED
  BY <1>4, <1>5

(* What its transaction does to the target, whoever hears of it: it moves on, *)
(* and nobody else is concerned, for p holds the fence.                       *)
LEMMA Published ==
    ASSUME Inv, NEW p \in Completers, op[p].phase \in Publishing, op[p].doubt = None, Publish(p),
           NEW o \in Ops, op' = [op EXCEPT ![p] = o], fence' \in {p, None}, UNCHANGED checkoutVars,
           scene' \in Scenes
    PROVE  /\ Typed' /\ Onward /\ TargetSound' /\ op'[p] = o
           /\ \A q \in Processes : q # p => Own(q)'
           /\ op[p].phase = "admitting" =>
                moves' = moves + 1 /\ claimedBy'[op[p].contract] = p /\ integration' = integration
           /\ op[p].phase = "reintegrating" =>
                UNCHANGED <<head, moves, claimedBy>> /\ integration'[op[p].contract] = op[p].plan
<1> DEFINE c == op[p].contract  i == op[p].plan
<1>1. /\ p \in Processes /\ p # Reconciler /\ op[p] \in Ops /\ fence = p /\ Candidate(p) /\ p # None
      /\ UNCHANGED <<index, work, fresh>> /\ c \in Contracts /\ c # None
      /\ moves \in Nat /\ claimedBy \in [Contracts -> Completers \cup {None}]
  BY WhoActs, TargetAssumption DEF Processes, Custody, Fenced, Completion, Seeking, Publishing, Candidate,
                                   checkoutVars, Inv, Typed
<1>2. op'[p] = o /\ (\A q \in Processes : q # p => op'[q] = op[q]) /\ op' \in [Processes -> Ops]
  BY <1>1 DEF Inv, Typed
<1>3. CASE op[p].phase = "admitting"
  <2>1. /\ i = integration[c] /\ i \in Integrations /\ claimedBy[c] = None /\ i.snap.by = c /\ i.snap \in Snapshots
    <3>1. i = integration[c] /\ claimedBy[c] = None
      BY <1>1, <1>3, TargetAssumption DEF Candidate, Doubts
    <3> QED
      BY <1>1, <3>1 DEF Inv, Typed, TargetSound, Integrations
  <2>2. /\ head' = i.snap /\ moves' = moves + 1 /\ claimedBy' = [claimedBy EXCEPT ![c] = p] /\ integration' = integration
    BY <1>3 DEF Publish, Phase
  <2> HIDE DEF i
  <2>3. Typed'
    BY <1>1, <1>2, <2>1, <2>2 DEF Inv, Typed
  <2>4. Onward
    <3>1. ASSUME NEW x \in Snapshots, Known(x) PROVE Known(x)' /\ x # head'
      <4>1. x.by \in Contracts \cup {None} /\ x.at \in Nat
        BY DEF Snapshots
      <4>2. Known(x)'
        BY <1>1, <2>2, <3>1, <4>1 DEF Known
      <4>3. x.by # c
        BY <1>1, <2>1, <3>1 DEF Known
      <4> QED
        BY <2>1, <2>2, <4>2, <4>3
    <3> QED
      BY <1>1, <2>2, <3>1 DEF Onward
  <2>5. TargetSound'
    <3>1. Known(head)'
      BY <1>1, <2>1, <2>2 DEF Known
    <3>2. ASSUME NEW d \in Contracts PROVE Sound(integration[d])' /\ integration'[d].snap.by = d
      <4>1. Sound(integration[d]) /\ integration[d] \in Integrations /\ integration[d].snap.by = d
        BY DEF Inv, Typed, TargetSound
      <4> QED
        BY <2>2, <2>3, <2>4, <4>1, SoundKeeps DEF Inv, Sound, Known
    <3> QED
      BY <3>1, <3>2 DEF TargetSound
  <2>6. ASSUME NEW q \in Processes, q # p PROVE Own(q)'
    <3>1. Aside(q)
      <4>1. fence # q /\ fence' # q
        BY <1>1, <2>6, TargetAssumption
      <4> QED
        BY <1>1, <1>2, <2>1, <2>2, <2>6, <4>1 DEF Aside
    <3> QED
      BY <2>3, <2>4, <3>1, BystanderKeeps
  <2> QED
    BY <1>1, <1>2, <1>3, <2>2, <2>3, <2>4, <2>5, <2>6
<1>4. CASE op[p].phase = "reintegrating"
  <2>1. /\ i \in Integrations /\ i.snap.by = c /\ Sound(i) /\ (i = integration[c] \/ i.at > integration[c].at)
    BY <1>1, <1>4 DEF Candidate
  <2>2. UNCHANGED <<head, moves, claimedBy>> /\ integration' = [integration EXCEPT ![c] = i]
    BY <1>4 DEF Publish, Phase
  <2> HIDE DEF i
  <2>3. /\ integration'[c] = i /\ (\A d \in Contracts : d # c => integration'[d] = integration[d])
        /\ integration' \in [Contracts -> Integrations]
    BY <1>1, <2>1, <2>2 DEF Inv, Typed
  <2>4. Typed'
    BY <1>1, <1>2, <2>2, <2>3 DEF Inv, Typed
  <2>5. Onward
    BY <1>1, <2>1, <2>2, <2>3 DEF Onward, Known
  <2>6. TargetSound'
    <3>1. Known(head)'
      BY <2>2 DEF Inv, TargetSound, Known
    <3>2. ASSUME NEW d \in Contracts PROVE Sound(integration[d])' /\ integration'[d].snap.by = d
      BY <2>1, <2>2, <2>3 DEF Inv, TargetSound, Sound, Known
    <3> QED
      BY <3>1, <3>2 DEF TargetSound
  <2>7. ASSUME NEW q \in Processes, q # p PROVE Own(q)'
    <3>1. Aside(q)
      <4>1. fence # q /\ fence' # q
        BY <1>1, <2>7, TargetAssumption
      <4> QED
        BY <1>1, <1>2, <2>2, <2>7, <4>1 DEF Aside
    <3> QED
      BY <2>4, <2>5, <3>1, BystanderKeeps
  <2> QED
    BY <1>2, <1>4, <2>2, <2>3, <2>4, <2>5, <2>6, <2>7 DEF i
<1> QED
  BY <1>3, <1>4 DEF Publishing

LEMMA AcceptedTyped ==
    ASSUME Inv, NEW p \in Completers, op[p].phase \in Publishing
    PROVE  LET o == Accepted(op[p]) IN
           /\ o \in Ops /\ o.contract = op[p].contract /\ o.since = op[p].since /\ o.out = op[p].out /\ o.doubt = None
           /\ op[p].phase = "admitting" =>
                /\ o.phase = "following" /\ o.plan = op[p].plan /\ o.todo = op[p].todo /\ o.guarded = op[p].guarded
                /\ o.cycles = op[p].cycles
           /\ op[p].phase = "reintegrating" =>
                o.phase = "observing" /\ o.seen = op[p].plan /\ o.cycles = op[p].cycles + 1
<1>1. op[p] \in Ops /\ Candidate(p)
  BY WhoActs DEF Processes, Completion, Seeking, Publishing
<1>2. CASE op[p].phase = "admitting"
  BY <1>1, <1>2 DEF Accepted, Ops, Phases
<1>3. CASE op[p].phase = "reintegrating"
  <2>1. op[p].plan \in Integrations /\ op[p].cycles + 1 \in 0..MaxCycles
    BY <1>1, <1>3 DEF Candidate, Outrun, Ops, MaxCycles
  <2> QED
    BY <1>1, <1>3, <2>1 DEF Accepted, Ops, Phases
<1> QED
  BY <1>2, <1>3 DEF Publishing

(* A completion that learns that its offer was admitted, as it now or before *)
(* was.                                                                      *)
LEMMA AcceptedOwns ==
    ASSUME Inv, NEW p \in Completers, op[p].phase \in Publishing, op'[p] = Accepted(op[p]), fence' = FenceAfter(p),
           UNCHANGED checkoutVars, Typed',
           op[p].phase = "admitting" => moves <= moves' /\ claimedBy'[op[p].contract] = p,
           op[p].phase = "reintegrating" =>
               UNCHANGED <<head, moves, claimedBy>> /\ integration'[op[p].contract] = op[p].plan
    PROVE  Own(p)'
<1> DEFINE c == op[p].contract  i == op[p].plan  o == Accepted(op[p])
<1>1. /\ p \in Processes /\ p # Reconciler /\ op[p] \in Ops /\ fence = p /\ Secured(p) /\ Candidate(p)
      /\ Completion(p) /\ p # None /\ UNCHANGED <<index, work, fresh>> /\ op[p].phase \in Seeking
  BY WhoActs DEF Processes, Custody, Fenced, Completion, Seeking, Publishing, checkoutVars
<1>2. /\ o \in Ops /\ o.contract = c /\ o.since = op[p].since /\ o.out = None /\ o.doubt = None
      /\ op[p].phase = "admitting" =>
           /\ o.phase = "following" /\ o.plan = i /\ o.todo = op[p].todo /\ o.guarded = op[p].guarded
           /\ o.cycles = op[p].cycles
      /\ op[p].phase = "reintegrating" =>
           o.phase = "observing" /\ o.seen = i /\ o.cycles = op[p].cycles + 1
  BY <1>1, AcceptedTyped DEF Completion, Seeking
<1>3. /\ c \in Contracts /\ op[p].since + op[p].cycles <= moves /\ op[p].since \in Nat /\ op[p].cycles \in 0..MaxCycles
      /\ moves \in Nat /\ moves' \in Nat
  BY <1>1 DEF Candidate, Completion, Ops, Inv, Typed
<1>4. op'[p] = o
  OBVIOUS
<1> HIDE DEF o
<1>5. None \notin {"moved", "completed", "died"}
  BY TargetAssumption DEF Endings
<1>6. CASE op[p].phase = "admitting"
  <2>1. fence' = p /\ i \in Integrations
    BY <1>1, <1>2, <1>4, <1>6 DEF FenceAfter, Candidate, Inv, Typed
  <2>2. Custody(p)' /\ Secured(p)'
    BY <1>1, <1>2, <1>4, <1>6, <2>1 DEF Custody, Fenced, Secured, Changed, Untracked
  <2>3. Completion(p)'
    <3>1. op'[p].since + op'[p].cycles <= moves'
      BY <1>2, <1>3, <1>4, <1>6 DEF MaxCycles
    <3> QED
      BY <1>2, <1>3, <1>4, <1>5, <1>6, <2>1, <3>1 DEF Completion, Recovering, Mending, Seeking
  <2> QED
    BY <1>1, <2>2, <2>3 DEF Own
<1>7. CASE op[p].phase = "reintegrating"
  <2>1. fence' = None
    BY <1>1, <1>2, <1>4, <1>7 DEF FenceAfter
  <2>2. Custody(p)' /\ Secured(p)'
    BY <1>1, <1>2, <1>4, <1>7, <2>1 DEF Custody, Fenced, Secured
  <2>3. /\ i \in Integrations /\ Sound(i) /\ i.at \in Nat /\ i.at >= op[p].since + op[p].cycles + 1
        /\ i.at <= moves /\ claimedBy[c] # p
    BY <1>1, <1>7 DEF Candidate, Sound, Integrations
  <2> HIDE DEF i
  <2>4. Candidate(p)'
    <3>1. /\ i.at <= moves' /\ (i.at = moves' => i.pred = head')
          /\ IF i.pred.by = None THEN i.pred.at <= moves' ELSE claimedBy'[i.pred.by] # None
      BY <1>7, <2>3 DEF Sound, Known
    <3>2. /\ op'[p].contract = c /\ op'[p].seen = i /\ op'[p].phase = "observing" /\ op'[p].doubt = None
          /\ op'[p].since + op'[p].cycles <= i.at
      BY <1>2, <1>3, <1>4, <1>7, <2>3 DEF MaxCycles
    <3>3. integration'[c] = i /\ claimedBy'[c] # p
      BY <1>7, <2>3 DEF i
    <3> QED
      BY <1>3, <2>3, <3>1, <3>2, <3>3 DEF Candidate, Sound, Known
  <2>5. Completion(p)'
    <3>1. /\ op'[p].phase = "observing" /\ op'[p].out = None /\ op'[p].since + op'[p].cycles <= moves'
      BY <1>2, <1>3, <1>4, <1>7, <2>3 DEF MaxCycles
    <3> QED
      BY <1>5, <2>4, <3>1 DEF Completion, Recovering, Mending
  <2> QED
    BY <1>1, <2>2, <2>5 DEF Own
<1> QED
  BY <1>6, <1>7 DEF Publishing

LEMMA AdmitKeeps == ASSUME Inv, NEW p \in Processes, Admit(p) PROVE Inv'
<1>1. /\ p \in Completers /\ op[p].phase \in Publishing /\ op[p].doubt = None /\ op[p] \in Ops /\ fence = p
      /\ UNCHANGED <<checkoutVars, scene>> /\ fence' = FenceAfter(p)
  BY WhoActs DEF Admit, Phase, Publishing, Recovering, Mending, Custody, Fenced
<1>2. CASE Publish(p) /\ op' = [op EXCEPT ![p] = Accepted(op[p])]
  <2>1. Accepted(op[p]) \in Ops /\ fence' \in {p, None} /\ scene' \in Scenes /\ moves \in Nat
    BY <1>1, AcceptedTyped DEF FenceAfter, Inv, Typed
  <2>2. /\ Typed' /\ TargetSound' /\ op'[p] = Accepted(op[p]) /\ \A q \in Processes : q # p => Own(q)'
        /\ op[p].phase = "admitting" => moves' = moves + 1 /\ claimedBy'[op[p].contract] = p
        /\ op[p].phase = "reintegrating" =>
             UNCHANGED <<head, moves, claimedBy>> /\ integration'[op[p].contract] = op[p].plan
    BY <1>1, <1>2, <2>1, Published
  <2>3. Own(p)'
    BY <1>1, <2>1, <2>2, AcceptedOwns
  <2> QED
    BY <2>2, <2>3 DEF Inv
<1>3. CASE op' = [op EXCEPT ![p] = Redecided(op[p])] /\ UNCHANGED targetVars
  <2>1. op[p].doubt # "recorded"
    BY <1>1, TargetAssumption DEF Doubts
  <2> QED
    BY <1>1, <1>3, <2>1, RetriedKeeps
<1> QED
  BY <1>2, <1>3 DEF Admit

LEMMA RecoverKeeps == ASSUME Inv, NEW p \in Processes, Recover(p) PROVE Inv'
<1>1. /\ p \in Completers /\ op[p].phase \in Publishing /\ op[p] \in Ops /\ fence = p /\ Candidate(p) /\ p # None
      /\ UNCHANGED <<targetVars, checkoutVars, scene>> /\ fence' = FenceAfter(p)
  BY WhoActs DEF Recover, Phase, Publishing, Recovering, Mending, Custody, Fenced, Completion, Seeking
<1>2. CASE op[p].doubt = "recorded"
  <2>1. op' = [op EXCEPT ![p] = Accepted(op[p])] /\ op'[p] = Accepted(op[p])
    BY <1>1, <1>2 DEF Recover, Inv, Typed
  <2>2. fence' \in {None, p, fence} /\ Accepted(op[p]) \in Ops /\ UNCHANGED <<index, work, fresh>>
    BY <1>1, AcceptedTyped DEF FenceAfter, checkoutVars
  <2>3. Typed'
    BY <1>1, <2>1, <2>2, OpTyped DEF Inv, Typed
  <2>4. /\ UNCHANGED <<head, moves, claimedBy, integration>> /\ moves \in Nat
        /\ op[p].phase = "admitting" => claimedBy[op[p].contract] = p
        /\ op[p].phase = "reintegrating" => integration[op[p].contract] = op[p].plan
    BY <1>1, <1>2 DEF targetVars, Candidate, Inv, Typed
  <2>5. Own(p)'
    BY <1>1, <2>1, <2>3, <2>4, AcceptedOwns
  <2>6. OwnStep(p)
    BY <1>1, <2>1, <2>2 DEF OwnStep
  <2> QED
    BY <1>1, <2>3, <2>5, <2>6, OwnStepKeeps
<1>3. CASE op[p].doubt # "recorded"
  BY <1>1, <1>3, RetriedKeeps DEF Recover
<1> QED
  BY <1>2, <1>3

LEMMA ReplanKeeps == ASSUME Inv, NEW p \in Processes, Replan(p) PROVE Inv'
<1> DEFINE c == op[p].contract  i == integration[c]
           fresher == [pred |-> head, snap |-> Commit(c, moves, MergedTree(c, head.tree)), at |-> moves]
           j == IF i.pred = head THEN i ELSE fresher
<1>1. /\ p \in Completers /\ op[p].phase = "replanning" /\ op[p] \in Ops /\ fence = p /\ Candidate(p) /\ p # None
      /\ op[p].doubt = None /\ claimedBy[c] # p
  BY WhoActs DEF Replan, Phase, Recovering, Mending, Custody, Fenced, Completion, Seeking, Publishing
<1>2. /\ c \in Contracts /\ i \in Integrations /\ Sound(i) /\ i.snap.by = c /\ Outrun(p)
  BY <1>1 DEF Candidate, Inv, Typed, TargetSound
<1>3. UNCHANGED <<targetVars, checkoutVars, scene>> /\ fence' = FenceAfter(p)
  BY DEF Replan
<1>4. ASSUME NEW out \in Endings \ {"completed", "moved"}, Stop(p, out) PROVE Inv'
  <2>1. op'[p].phase = "ended"
    BY <1>1, <1>4, EndedTyped DEF Inv, Typed, Stop
  <2>2. fence' = Unfenced(p)
    BY <1>1, <1>3, <2>1 DEF FenceAfter, Unfenced
  <2> QED
    BY <1>1, <1>3, <1>4, <2>2, RefusalKeeps DEF Stop, Seeking
<1>5. CASE Stop(p, "refused") \/ Stop(p, "conflict")
  BY <1>4, <1>5 DEF Endings
<1>6. CASE op' = [op EXCEPT ![p].phase = "reintegrating", ![p].plan = j]
  <2>1. head \in Snapshots /\ moves \in Nat /\ Known(head)
    BY DEF Inv, Typed, TargetSound
  <2>2. fresher \in Integrations /\ Sound(fresher) /\ fresher.snap.by = c /\ fresher.at = moves
    <3>1. MergedTree(c, head.tree) \in CommitTrees
      BY <1>2, <2>1 DEF MergedTree, CommitTrees, Snapshots
    <3>2. Commit(c, moves, MergedTree(c, head.tree)) \in Snapshots
      BY <1>2, <2>1, <3>1 DEF Commit, Snapshots
    <3> QED
      BY <2>1, <3>2 DEF Integrations, Sound, Commit
  <2> HIDE DEF fresher
  <2>3. /\ j \in Integrations /\ j.snap.by = c /\ Sound(j) /\ (j = i \/ j.at > i.at)
        /\ j.at >= op[p].since + op[p].cycles + 1
    <3>1. i.at \in Nat /\ i.at <= moves /\ (i.at = moves => i.pred = head)
      BY <1>2 DEF Sound, Integrations
    <3>2. op[p].since \in Nat /\ op[p].cycles \in Nat
      BY <1>1 DEF Ops, MaxCycles
    <3>3. i.at >= op[p].since + op[p].cycles + 1
            \/ (i.pred # head /\ moves >= op[p].since + op[p].cycles + 1)
      BY <1>2 DEF Outrun
    <3> QED
      BY <1>2, <2>1, <2>2, <3>1, <3>2, <3>3
  <2> HIDE DEF j, i
  <2> DEFINE o == [op[p] EXCEPT !.phase = "reintegrating", !.plan = j]
  <2>4. op' = [op EXCEPT ![p] = o] /\ op'[p] = o
    BY <1>1, <1>6 DEF Inv, Typed
  <2>5. o \in Ops /\ o.phase = "reintegrating" /\ o.plan = j /\ Same(op[p], o) /\ o.doubt = None
    BY <1>1, <2>3 DEF Ops, Phases, Same
  <2> HIDE DEF o
  <2>6. Resumes(p, o) /\ o.phase \in Fenced
    BY <1>1, <1>2, <2>3, <2>5 DEF Resumes, Same, Seeking, Fenced, i
  <2>7. fence' = p
    BY <1>1, <1>3, <2>4, <2>5 DEF FenceAfter
  <2> QED
    BY <1>1, <1>3, <2>4, <2>5, <2>6, <2>7, SeekerKeeps DEF checkoutVars, Seeking
<1>7. \/ Stop(p, "refused") \/ Stop(p, "conflict")
      \/ op' = [op EXCEPT ![p].phase = "reintegrating", ![p].plan = j]
  BY DEF Replan
<1> QED
  BY <1>5, <1>6, <1>7

LEMMA OverlayTyped ==
    ASSUME NEW tree \in Trees, NEW i \in Integrations, NEW paths
    PROVE  Overlay(tree, i, paths) \in Trees
BY DEF Overlay, Trees, Integrations, Snapshots, CommitTrees

LEMMA FollowKeeps == ASSUME Inv, NEW p \in Processes, NEW w \in Checkouts, Follow(p, w) PROVE Inv'
<1> DEFINE i == op[p].plan
<1>1. /\ p \in Completers /\ p # Reconciler /\ op[p].phase = "following" /\ op[p] \in Ops /\ fence = p /\ Secured(p)
      /\ Completion(p) /\ p # None /\ Custody(p)
  BY WhoActs DEF Follow, Phase, Recovering, Mending, Custody, Fenced
<1>2. i \in Integrations
  BY <1>1 DEF Completion
<1>3. UNCHANGED <<targetVars, fence, fresh, scene>>
  BY DEF Follow
<1>4. PICK o \in Ops : /\ op' = [op EXCEPT ![p] = o] /\ o.phase = "following" /\ Same(op[p], o)
                       /\ o.plan = i /\ o.guarded = op[p].guarded /\ o.todo = op[p].todo \ {w}
  <2>1. CASE op' = [op EXCEPT ![p].todo = @ \ {w}]
    <3> DEFINE o == [op[p] EXCEPT !.todo = op[p].todo \ {w}]
    <3>1. o \in Ops /\ o.phase = "following" /\ Same(op[p], o) /\ o.plan = i /\ o.guarded = op[p].guarded
          /\ o.todo = op[p].todo \ {w}
      BY <1>1 DEF Ops, Same
    <3>2. op' = [op EXCEPT ![p] = o]
      BY <2>1
    <3> QED
      BY <3>1, <3>2
  <2>2. CASE op' = [op EXCEPT ![p].todo = @ \ {w}, ![p].lag = @ \cup {w}]
    <3> DEFINE o == [op[p] EXCEPT !.todo = op[p].todo \ {w}, !.lag = op[p].lag \cup {w}]
    <3>1. o \in Ops /\ o.phase = "following" /\ Same(op[p], o) /\ o.plan = i /\ o.guarded = op[p].guarded
          /\ o.todo = op[p].todo \ {w}
      BY <1>1 DEF Ops, Same
    <3>2. op' = [op EXCEPT ![p] = o]
      BY <2>2 DEF Inv, Typed
    <3> QED
      BY <3>1, <3>2
  <2> QED
    BY <2>1, <2>2 DEF Follow
<1>5. /\ index' \in [Checkouts -> Trees] /\ work' \in [Checkouts -> Trees]
      /\ \A v \in Checkouts : v # w => index'[v] = index[v] /\ work'[v] = work[v]
  <2>1. index \in [Checkouts -> Trees] /\ work \in [Checkouts -> Trees]
    BY DEF Inv, Typed
  <2>2. Overlay(index[w], i, Taken(w, i)) \in Trees /\ Overlay(work[w], i, Taken(w, i)) \in Trees
    BY <1>2, <2>1, OverlayTyped
  <2>3. \/ UNCHANGED <<index, work>>
        \/ /\ index' = [index EXCEPT ![w] = Overlay(index[w], i, Taken(w, i))]
           /\ work' = [work EXCEPT ![w] = Overlay(work[w], i, Taken(w, i))]
    BY DEF Follow
  <2> QED
    BY <2>1, <2>2, <2>3
<1>6. op'[p] = o
  BY <1>1, <1>4 DEF Inv, Typed
<1>7. Typed'
  BY <1>3, <1>4, <1>5 DEF Inv, Typed, targetVars
<1>8. OwnStep(p)
  BY <1>1, <1>3, <1>4 DEF OwnStep, Inv, Typed
<1>9. Custody(p)'
  BY <1>1, <1>3, <1>4, <1>6 DEF Custody
<1>10. Secured(p)'
  <2> SUFFICES ASSUME NEW v \in o.guarded \cap o.todo, NEW q \in Changed(i),
                      i.snap.tree[q] # Absent, Untracked(v, q)', q \in Ignored
               PROVE  <<v, q>> \in fresh
    BY <1>3, <1>4, <1>6 DEF Secured, Changed
  <2>1. v # w /\ v \in Checkouts /\ v \in op[p].guarded \cap op[p].todo
    BY <1>1, <1>4 DEF Ops
  <2>2. Untracked(v, q)
    BY <1>5, <2>1 DEF Untracked
  <2> QED
    BY <1>1, <2>1, <2>2 DEF Secured
<1>11. Completion(p)'
  <2>1. /\ op'[p].phase = "following" /\ op'[p].contract = op[p].contract /\ op'[p].plan = i /\ op'[p].out = op[p].out
        /\ op'[p].since = op[p].since /\ op'[p].cycles = op[p].cycles
    BY <1>4, <1>6 DEF Same
  <2>2. UNCHANGED <<moves, claimedBy>>
    BY <1>3 DEF targetVars
  <2> QED
    BY <1>1, <1>2, <2>1, <2>2, TargetAssumption DEF Completion, Recovering, Mending, Seeking, Endings
<1> QED
  BY <1>1, <1>7, <1>8, <1>9, <1>10, <1>11, OwnStepKeeps DEF Own

LEMMA FollowedKeeps == ASSUME Inv, NEW p \in Processes, Followed(p) PROVE Inv'
<1>1. /\ p \in Completers /\ p # Reconciler /\ op[p].phase = "following" /\ op[p] \in Ops /\ fence = p
      /\ Completion(p) /\ p # None
  BY WhoActs DEF Followed, Phase, Recovering, Mending, Custody, Fenced
<1>2. UNCHANGED <<head, moves, integration, claimedBy, index, work, fresh, scene>> /\ fence' = FenceAfter(p)
  BY DEF Followed, targetVars, checkoutVars
<1> DEFINE o == [op[p] EXCEPT !.phase = "reporting"]
<1>3. op' = [op EXCEPT ![p] = o] /\ op'[p] = o
  BY DEF Followed, Goto, Inv, Typed
<1>4. o \in Ops /\ o.phase = "reporting" /\ Same(op[p], o)
  BY <1>1 DEF Ops, Phases, Same
<1> HIDE DEF o
<1>5. fence' = None
  BY <1>2, <1>3, <1>4 DEF FenceAfter
<1>6. Typed'
  BY <1>2, <1>3, <1>4, <1>5, OpTyped DEF Inv, Typed, targetVars
<1>7. OwnStep(p)
  BY <1>1, <1>2, <1>3, <1>5 DEF OwnStep, Inv, Typed, targetVars
<1>8. Custody(p)' /\ Secured(p)'
  BY <1>1, <1>3, <1>4, <1>5 DEF Custody, Secured, Fenced
<1>9. Completion(p)'
  <2>1. /\ op'[p].phase = "reporting" /\ op'[p].contract = op[p].contract /\ op'[p].out = op[p].out
        /\ op'[p].since = op[p].since /\ op'[p].cycles = op[p].cycles
    BY <1>3, <1>4 DEF Same
  <2> QED
    BY <1>1, <1>2, <2>1, TargetAssumption DEF Completion, Recovering, Mending, Seeking, Endings
<1> QED
  BY <1>1, <1>6, <1>7, <1>8, <1>9, OwnStepKeeps DEF Own

LEMMA ReportKeeps == ASSUME Inv, NEW p \in Processes, Report(p) PROVE Inv'
<1>1. /\ p \in Completers /\ op[p].phase = "reporting" /\ fence # p /\ Completion(p)
  BY WhoActs DEF Report, Phase, Recovering, Mending, Custody, Fenced
<1>2. op' = [op EXCEPT ![p] = Ended(op[p], "completed")] /\ "completed" \in Endings /\ fence' = Unfenced(p)
  BY <1>1 DEF Report, Stop, Endings, Unfenced
<1>3. /\ UNCHANGED <<targetVars, index>> /\ work' \in [Checkouts -> Trees]
      /\ fresh' \in SUBSET (Checkouts \X Paths) /\ scene' \in Scenes /\ UNCHANGED checkoutVars
  BY DEF Report, checkoutVars, Inv, Typed
<1>4. claimedBy[op[p].contract] = p
  BY <1>1 DEF Completion
<1> QED
  BY <1>1, <1>2, <1>3, <1>4, StopKeeps DEF Honest

-----------------------------------------------------------------------------
(* The reconciler's steps                                                    *)

LEMMA ReconcileKeeps == ASSUME Inv, NEW c \in Contracts, Reconcile(c) PROVE Inv'
<1> DEFINE o == [Idle EXCEPT !.phase = "recovering", !.contract = c]
<1>1. Reconciler \in Processes /\ op[Reconciler].phase = "idle"
  BY DEF Reconcile, Phase, Processes
<1>2. fence # Reconciler
  BY <1>1, WhoActs DEF Custody, Fenced
<1>3. op' = [op EXCEPT ![Reconciler] = o] /\ UNCHANGED <<targetVars, fence, checkoutVars, scene>>
  BY DEF Reconcile
<1>4. o \in Ops /\ o.phase = "recovering" /\ o.contract = c /\ o.out = None
  BY IdleTyped DEF Ops, Phases
<1>5. /\ UNCHANGED <<targetVars, scene>> /\ index' \in [Checkouts -> Trees] /\ work' \in [Checkouts -> Trees]
      /\ fresh' \in SUBSET (Checkouts \X Paths) /\ fence' = fence
  BY <1>3 DEF checkoutVars, Inv, Typed
<1> HIDE DEF o
<1> QED
  BY <1>1, <1>2, <1>3, <1>4, <1>5, RecoveryKeeps DEF Recovering, Mending, Fenced

(* What the reconciler is in while it mends.                                 *)
LEMMA WhoMends ==
    ASSUME Inv, op[Reconciler].phase \in {"surveying"} \cup Mending
    PROVE  /\ Reconciler \in Processes /\ op[Reconciler] \in Ops /\ fence = Reconciler /\ Recoverer /\ Secured(Reconciler)
           /\ op[Reconciler].contract \in Contracts /\ op[Reconciler].out = None
           /\ index \in [Checkouts -> Trees] /\ work \in [Checkouts -> Trees]
           /\ fresh \in SUBSET (Checkouts \X Paths)
<1>1. Reconciler \in Processes
  BY DEF Processes
<1>2. /\ op[Reconciler] \in Ops /\ Custody(Reconciler) /\ Recoverer /\ Secured(Reconciler)
  BY <1>1, WhoActs
<1> QED
  BY <1>1, <1>2 DEF Custody, Recoverer, Fenced, Mending, Inv, Typed

LEMMA SurveyKeeps == ASSUME Inv, Survey PROVE Inv'
<1> DEFINE r == op[Reconciler]  i == integration[r.contract]
<1>1. op[Reconciler].phase = "surveying" /\ UNCHANGED <<targetVars, checkoutVars, scene>>
  BY DEF Survey, Phase
<1>2. /\ Reconciler \in Processes /\ r \in Ops /\ fence = Reconciler /\ r.contract \in Contracts /\ r.out = None
      /\ index' \in [Checkouts -> Trees] /\ work' \in [Checkouts -> Trees]
      /\ fresh' \in SUBSET (Checkouts \X Paths) /\ UNCHANGED index
      /\ i \in Integrations /\ moves \in Nat /\ scene.registered \in SUBSET Checkouts /\ scene' \in Scenes
  BY <1>1, WhoMends DEF checkoutVars, Inv, Typed, Scenes
<1>3. CASE head = i.snap
  <2> DEFINE o == [r EXCEPT !.phase = "classifying", !.todo = scene.registered, !.plan = i, !.since = moves]
  <2>1. op' = [op EXCEPT ![Reconciler] = o] /\ fence' = fence
    BY <1>1, <1>3 DEF Survey, Mine, Inv, Typed
  <2> HIDE DEF i
  <2>2. o \in Ops /\ o.phase = "classifying" /\ o.plan = i /\ o.since = moves /\ o.contract = r.contract /\ o.out = r.out
    BY <1>2 DEF Ops, Phases
  <2>3. /\ o.plan \in Integrations /\ o.since <= moves /\ head = o.plan.snap /\ o.contract \in Contracts /\ o.out = None
        /\ o.phase \in Recovering /\ o.phase \in Fenced
    BY <1>2, <1>3, <2>2 DEF Recovering, Mending, Fenced, i
  <2> HIDE DEF o
  <2> QED
    BY <1>1, <1>2, <2>1, <2>2, <2>3, RecoveryKeeps
<1>4. CASE head # i.snap
  <2>1. op' = [op EXCEPT ![Reconciler] = Idle] /\ fence' = Unfenced(Reconciler)
    BY <1>1, <1>2, <1>4 DEF Survey, Mine, Unfenced
  <2> QED
    BY <1>1, <1>2, <2>1, RestKeeps
<1> QED
  BY <1>3, <1>4

LEMMA ExamineKeeps == ASSUME Inv, NEW w \in Checkouts, Examine(w) PROVE Inv'
<1> DEFINE r == op[Reconciler]  i == r.plan
<1>1. /\ op[Reconciler].phase = "classifying" /\ UNCHANGED <<targetVars, fence, index, work, scene>> /\ fresh' = {}
      /\ w \in r.todo
  BY DEF Examine, Phase
<1>2. /\ Reconciler \in Processes /\ r \in Ops /\ fence = Reconciler /\ r.contract \in Contracts /\ r.out = None
      /\ index' \in [Checkouts -> Trees] /\ work' \in [Checkouts -> Trees]
      /\ fresh' \in SUBSET (Checkouts \X Paths)
      /\ i \in Integrations /\ r.since <= moves /\ (moves = r.since => head = i.snap)
  BY <1>1, WhoMends DEF Mending, Recoverer
<1>3. PICK o \in Ops : /\ op' = [op EXCEPT ![Reconciler] = o]
                       /\ o.contract = r.contract /\ o.out = r.out /\ o.plan = i /\ o.since = r.since
                       /\ o.phase \in Mending
                       /\ o.phase = "worktree-merge" =>
                            o.guarded = {w} /\ o.todo = r.todo /\ ~IgnoredCollision(w, i)
  <2> DEFINE a == [r EXCEPT !.todo = r.todo \ {w}]
             b == [r EXCEPT !.todo = r.todo \ {w}, !.lag = r.lag \cup {w}]
             d(class) == [r EXCEPT !.phase = class, !.guarded = {w}]
             class == Classify(w, i)
  <2>1. \/ op' = [op EXCEPT ![Reconciler] = a]
        \/ op' = [op EXCEPT ![Reconciler] = b]
        \/ /\ op' = [op EXCEPT ![Reconciler] = d(class)]
           /\ class \notin {"complete", "retained"} /\ (class = "worktree-merge" => ~IgnoredCollision(w, i))
    <3> HIDE DEF class
    <3> QED
      BY DEF Examine, class
  <2>2. class \in {"complete", "index-merge", "worktree-merge", "retained"}
    BY DEF Classify
  <2> HIDE DEF class
  <2>3. /\ a \in Ops /\ a.contract = r.contract /\ a.out = r.out /\ a.plan = i /\ a.since = r.since
        /\ a.phase = "classifying"
    BY <1>1, <1>2 DEF Ops
  <2>4. /\ b \in Ops /\ b.contract = r.contract /\ b.out = r.out /\ b.plan = i /\ b.since = r.since
        /\ b.phase = "classifying"
    BY <1>1, <1>2 DEF Ops
  <2>5. ASSUME NEW x \in {"index-merge", "worktree-merge"}
        PROVE  /\ d(x) \in Ops /\ d(x).contract = r.contract /\ d(x).out = r.out /\ d(x).plan = i
               /\ d(x).since = r.since /\ d(x).phase = x /\ d(x).guarded = {w} /\ d(x).todo = r.todo
    BY <1>2 DEF Ops, Phases
  <2> HIDE DEF a, b, d
  <2>6. CASE op' = [op EXCEPT ![Reconciler] = a]
    BY <2>3, <2>6 DEF Mending
  <2>7. CASE op' = [op EXCEPT ![Reconciler] = b]
    BY <2>4, <2>7 DEF Mending
  <2>8. CASE /\ op' = [op EXCEPT ![Reconciler] = d(class)]
             /\ class \notin {"complete", "retained"} /\ (class = "worktree-merge" => ~IgnoredCollision(w, i))
    BY <2>2, <2>5, <2>8 DEF Mending
  <2> QED
    BY <2>1, <2>6, <2>7, <2>8
<1>4. ASSUME o.phase = "worktree-merge"
      PROVE  o.guarded \subseteq o.todo /\ \A v \in o.guarded \cap o.todo : ~IgnoredCollision(v, o.plan)'
  BY <1>1, <1>3, <1>4 DEF IgnoredCollision, Untracked, Changed
<1> QED
  BY <1>1, <1>2, <1>3, <1>4, RecoveryKeeps DEF Recovering, Mending, Fenced

(* After a merge of one checkout the reconciler turns to the next.           *)
LEMMA MendedKeeps ==
    ASSUME Inv, NEW w \in Checkouts, op[Reconciler].phase \in {"index-merge", "worktree-merge"},
           op' = [op EXCEPT ![Reconciler].phase = "classifying", ![Reconciler].todo = @ \ {w},
                            ![Reconciler].guarded = {}],
           index' \in [Checkouts -> Trees], work' \in [Checkouts -> Trees],
           UNCHANGED <<targetVars, fence, fresh, scene>>
    PROVE  Inv'
<1> DEFINE r == op[Reconciler]  o == [r EXCEPT !.phase = "classifying", !.todo = r.todo \ {w}, !.guarded = {}]
<1>1. /\ Reconciler \in Processes /\ r \in Ops /\ fence = Reconciler /\ r.contract \in Contracts /\ r.out = None
      /\ fresh \in SUBSET (Checkouts \X Paths)
      /\ r.plan \in Integrations /\ r.since <= moves /\ (moves = r.since => head = r.plan.snap)
  BY WhoMends DEF Mending, Recoverer
<1>2. op' = [op EXCEPT ![Reconciler] = o]
  BY DEF Inv, Typed
<1>3. /\ o \in Ops /\ o.contract = r.contract /\ o.out = r.out /\ o.plan = r.plan /\ o.since = r.since
      /\ o.phase = "classifying"
  BY <1>1 DEF Ops, Phases
<1> HIDE DEF o
<1> QED
  BY <1>1, <1>2, <1>3, RecoveryKeeps DEF Recovering, Mending, Fenced

LEMMA MendKeeps == ASSUME Inv, NEW w \in Checkouts, MendIndex(w) \/ MendWorktree(w) PROVE Inv'
<1> DEFINE i == op[Reconciler].plan
<1>1. op[Reconciler].phase \in {"index-merge", "worktree-merge"}
  BY DEF MendIndex, MendWorktree, Phase
<1>2. /\ i \in Integrations /\ index \in [Checkouts -> Trees] /\ work \in [Checkouts -> Trees]
  BY <1>1, WhoMends DEF Mending, Recoverer
<1>3. Overlay(index[w], i, Taken(w, i)) \in Trees /\ Overlay(work[w], i, Taken(w, i)) \in Trees
  BY <1>2, OverlayTyped
<1>4. /\ index' = index \/ index' = [index EXCEPT ![w] = Overlay(index[w], i, Taken(w, i))]
      /\ work' = work \/ work' = [work EXCEPT ![w] = Overlay(work[w], i, Taken(w, i))]
  BY DEF MendIndex, MendWorktree
<1>5. index' \in [Checkouts -> Trees] /\ work' \in [Checkouts -> Trees]
  BY <1>2, <1>3, <1>4
<1>6. /\ op' = [op EXCEPT ![Reconciler].phase = "classifying", ![Reconciler].todo = @ \ {w},
                          ![Reconciler].guarded = {}]
      /\ UNCHANGED <<targetVars, fence, fresh, scene>>
  BY DEF MendIndex, MendWorktree
<1> QED
  BY <1>1, <1>5, <1>6, MendedKeeps

LEMMA ReconciledKeeps == ASSUME Inv, Reconciled PROVE Inv'
<1>1. /\ op[Reconciler].phase = "classifying" /\ op' = [op EXCEPT ![Reconciler] = Idle] /\ fence' = None
      /\ UNCHANGED <<targetVars, checkoutVars, scene>>
  BY DEF Reconciled, Phase
<1>2. Reconciler \in Processes /\ fence = Reconciler
  BY <1>1, WhoMends DEF Mending
<1>3. /\ UNCHANGED <<targetVars, index>> /\ work' \in [Checkouts -> Trees]
      /\ fresh' \in SUBSET (Checkouts \X Paths) /\ scene' \in Scenes /\ fence' = Unfenced(Reconciler)
  BY <1>1, <1>2 DEF checkoutVars, Inv, Typed, Unfenced
<1> QED
  BY <1>1, <1>2, <1>3, RestKeeps

-----------------------------------------------------------------------------
(* Faults and users                                                          *)

LEMMA SpentTyped ==
    ASSUME Inv
    PROVE  /\ scene.faults > 0 => [scene EXCEPT !.faults = @ - 1] \in Scenes
           /\ scene.crashes > 0 => [scene EXCEPT !.crashes = @ - 1] \in Scenes
           /\ scene.pushes > 0 => [scene EXCEPT !.pushes = @ - 1] \in Scenes
           /\ scene.edits > 0 => [scene EXCEPT !.edits = @ - 1] \in Scenes
           /\ scene.pushed \in SUBSET Paths /\ scene.edits \in Nat
BY DEF Inv, Typed, Scenes

LEMMA FailKeeps == ASSUME Inv, NEW p \in Processes, Fail(p) PROVE Inv'
<1> DEFINE out == IF op[p].phase = "reporting" THEN "completed" ELSE "failed"
<1>1. /\ p \in Completers /\ op[p].phase \notin {"idle", "ended", "following"} /\ op[p].doubt = None
      /\ scene' \in Scenes /\ fence' = Unfenced(p)
      /\ op' = [op EXCEPT ![p] = Ended(op[p], out)]
  BY SpentTyped DEF Fail, Phase, Stop
<1>2. /\ UNCHANGED <<targetVars, index>> /\ work' \in [Checkouts -> Trees]
      /\ fresh' \in SUBSET (Checkouts \X Paths) /\ UNCHANGED checkoutVars
  BY DEF Fail, checkoutVars, Inv, Typed
<1>3. claimedBy[op[p].contract] = p <=> op[p].phase = "reporting"
  <2>1. Completion(p) /\ op[p].phase \in Seeking \cup {"reporting"}
    BY <1>1, WhoActs DEF Processes, Ops, Phases, Recovering, Mending, Seeking
  <2> QED
    BY <1>1, <2>1, TargetAssumption DEF Completion, Candidate, Seeking, Doubts
<1>4. out \in Endings /\ out # "moved" /\ Honest(p, out)
  BY <1>3 DEF Endings, Honest
<1> HIDE DEF out
<1> QED
  BY <1>1, <1>2, <1>4, StopKeeps

(* A completion that does not know what became of its transaction.           *)
LEMMA DoubtedOwns ==
    ASSUME Inv, NEW p \in Completers, op[p].phase \in Publishing, op[p].doubt = None, NEW d \in Doubts,
           op'[p] = [op[p] EXCEPT !.doubt = d], UNCHANGED <<fence, checkoutVars>>, Typed', Onward,
           d = "lost" => UNCHANGED targetVars,
           d = "recorded" /\ op[p].phase = "admitting" =>
               claimedBy'[op[p].contract] = p /\ integration' = integration,
           d = "recorded" /\ op[p].phase = "reintegrating" =>
               UNCHANGED <<head, moves, claimedBy>> /\ integration'[op[p].contract] = op[p].plan
    PROVE  Own(p)'
<1> DEFINE o == [op[p] EXCEPT !.doubt = d]  c == op[p].contract  i == integration[c]  j == integration'[c]
<1>1. /\ p \in Processes /\ p # Reconciler /\ op[p] \in Ops /\ fence = p /\ Secured(p) /\ Candidate(p)
      /\ Completion(p) /\ p # None /\ UNCHANGED <<index, work, fresh>> /\ op[p].phase \in Seeking
      /\ d # None
  BY WhoActs, TargetAssumption DEF Processes, Custody, Fenced, Completion, Seeking, Publishing, checkoutVars
<1>2. /\ o.phase = op[p].phase /\ o.contract = c /\ o.seen = op[p].seen /\ o.plan = op[p].plan
      /\ o.cycles = op[p].cycles /\ o.since = op[p].since /\ o.todo = op[p].todo /\ o.guarded = op[p].guarded
      /\ o.out = op[p].out /\ o.doubt = d /\ op'[p] = o
  BY <1>1 DEF Ops
<1> HIDE DEF o
<1>3. /\ c \in Contracts /\ i \in Integrations /\ i.at \in Nat /\ op[p].seen \in Integrations /\ op[p].seen.at \in Nat
      /\ Sound(op[p].seen) /\ (op[p].seen = i \/ op[p].seen.at < i.at)
      /\ op[p].since + op[p].cycles <= op[p].seen.at
      /\ op[p].since \in Nat /\ op[p].cycles \in Nat /\ moves \in Nat /\ moves' \in Nat
      /\ claimedBy[c] # p
  BY <1>1, TargetAssumption DEF Candidate, Inv, Typed, Integrations, Ops, MaxCycles, Doubts
<1>4. Sound(op[p].seen)'
  BY <1>3, SoundKeeps DEF Inv
<1>5. Custody(p)' /\ Secured(p)'
  <2>1. fence' = p /\ op'[p].phase \in Fenced
    BY <1>1, <1>2 DEF Publishing, Fenced
  <2>2. Custody(p)'
    BY <2>1 DEF Custody
  <2>3. Changed(op'[p].plan) = Changed(op[p].plan)
    BY <1>2
  <2>4. \A w \in Checkouts, q \in Paths : Untracked(w, q)' <=> Untracked(w, q)
    BY <1>1 DEF Untracked
  <2>5. /\ op'[p].phase = op[p].phase /\ op'[p].plan = op[p].plan
        /\ op'[p].guarded \cap op'[p].todo = op[p].guarded \cap op[p].todo
        /\ op[p].guarded \cap op[p].todo \subseteq Checkouts /\ Changed(op[p].plan) \subseteq Paths
    BY <1>1, <1>2 DEF Ops, Changed
  <2>6. Secured(p)'
    BY <1>1, <2>3, <2>4, <2>5 DEF Secured
  <2> QED
    BY <2>2, <2>6
<1>6. Candidate(p)'
  <2>1. CASE op[p].phase = "admitting"
    <3>1. op[p].plan = i /\ claimedBy[c] = None
      BY <1>1, <1>3, <2>1 DEF Candidate
    <3>2. j = i /\ claimedBy'[c] = (IF d = "recorded" THEN p ELSE None)
      BY <2>1, <3>1 DEF Doubts, targetVars
    <3> QED
      BY <1>1, <1>2, <1>3, <1>4, <2>1, <3>1, <3>2 DEF Candidate, Sound, Known, Publishing
  <2>2. CASE op[p].phase = "reintegrating"
    <3>1. /\ op[p].plan \in Integrations /\ op[p].plan.snap.by = c /\ Sound(op[p].plan) /\ op[p].plan.at \in Nat
          /\ op[p].plan = i \/ op[p].plan.at > i.at
          /\ op[p].plan.at >= op[p].since + op[p].cycles + 1
          /\ Outrun(p)
      BY <1>1, <2>2 DEF Candidate, Integrations
    <3>2. UNCHANGED <<head, moves, claimedBy>> /\ j = (IF d = "recorded" THEN op[p].plan ELSE i)
      BY <2>2 DEF Doubts, targetVars
    <3>3. Sound(op[p].plan)'
      BY <3>1, SoundKeeps DEF Inv
    <3>4. op[p].seen = j \/ op[p].seen.at < j.at
      BY <1>3, <3>1, <3>2
    <3>5. Outrun(p)'
      BY <1>2, <1>3, <3>1, <3>2 DEF Outrun
    <3> QED
      BY <1>1, <1>2, <1>3, <1>4, <2>2, <3>1, <3>2, <3>3, <3>4, <3>5 DEF Candidate, Sound, Known, Publishing
  <2> QED
    BY <2>1, <2>2 DEF Publishing
<1>7. Completion(p)'
  <2>1. op'[p].since + op'[p].cycles <= moves' /\ op'[p].out = None /\ op'[p].phase = op[p].phase
    BY <1>1, <1>2, <1>3 DEF Completion, Seeking, Onward
  <2> QED
    BY <1>1, <1>6, <2>1, TargetAssumption DEF Completion, Publishing, Seeking, Recovering, Mending, Endings
<1> QED
  BY <1>1, <1>5, <1>7 DEF Own

LEMMA KillKeeps == ASSUME Inv, NEW p \in Processes, Kill(p) PROVE Inv'
<1>1. /\ p \in Completers /\ op[p].phase \in Publishing /\ op[p].doubt = None /\ op[p] \in Ops /\ fence = p
      /\ UNCHANGED <<fence, checkoutVars>> /\ scene' \in Scenes /\ UNCHANGED <<index, work, fresh>>
  BY WhoActs, SpentTyped DEF Kill, Phase, Publishing, Recovering, Mending, Custody, Fenced, checkoutVars
<1> DEFINE o(d) == [op[p] EXCEPT !.doubt = d]
<1>2. ASSUME NEW d \in Doubts PROVE o(d) \in Ops
  BY <1>1 DEF Ops
<1>3. CASE Publish(p) /\ op' = [op EXCEPT ![p].doubt = "recorded"]
  <2>1. op' = [op EXCEPT ![p] = o("recorded")] /\ "recorded" \in Doubts
    BY <1>1, <1>3 DEF Inv, Typed, Doubts
  <2>2. o("recorded") \in Ops
    BY <1>2, <2>1
  <2> HIDE DEF o
  <2>3. /\ Typed' /\ TargetSound' /\ Onward /\ op'[p] = o("recorded") /\ \A q \in Processes : q # p => Own(q)'
        /\ op[p].phase = "admitting" => claimedBy'[op[p].contract] = p /\ integration' = integration
        /\ op[p].phase = "reintegrating" =>
             UNCHANGED <<head, moves, claimedBy>> /\ integration'[op[p].contract] = op[p].plan
    BY <1>1, <1>3, <2>1, <2>2, Published
  <2>4. Own(p)'
    BY <1>1, <2>1, <2>3, DoubtedOwns DEF o
  <2> QED
    BY <2>3, <2>4 DEF Inv
<1>4. CASE UNCHANGED targetVars /\ op' = [op EXCEPT ![p].doubt = "lost"]
  <2>1. op' = [op EXCEPT ![p] = o("lost")] /\ "lost" \in Doubts /\ "lost" # "recorded"
    BY <1>1, <1>4 DEF Inv, Typed, Doubts
  <2>2. o("lost") \in Ops
    BY <1>2, <2>1
  <2> HIDE DEF o
  <2>3. Typed' /\ op'[p] = o("lost")
    BY <1>1, <1>4, <2>1, <2>2, OpTyped DEF Inv, Typed
  <2>4. Onward
    BY <1>4 DEF targetVars, Onward, Known, Inv, Typed
  <2>5. Own(p)'
    BY <1>1, <1>4, <2>1, <2>3, <2>4, DoubtedOwns DEF o
  <2>6. OwnStep(p)
    BY <1>1, <1>4, <2>1 DEF OwnStep
  <2> QED
    BY <1>1, <2>3, <2>5, <2>6, OwnStepKeeps
<1> QED
  BY <1>3, <1>4 DEF Kill

LEMMA RecoverFailsKeeps == ASSUME Inv, NEW p \in Processes, RecoverFails(p) PROVE Inv'
<1>1. /\ p \in Completers /\ op[p].phase \in Publishing /\ Candidate(p) /\ op[p].phase # "idle"
      /\ UNCHANGED <<targetVars, checkoutVars, scene>> /\ fence' = Unfenced(p)
  BY WhoActs DEF RecoverFails, Phase, Publishing, Recovering, Mending, Completion, Seeking
<1>2. PICK out \in {"placement-failed", "failed"} : op' = [op EXCEPT ![p] = Ended(op[p], out)]
  BY DEF RecoverFails, Stop
<1>3. out \in Endings /\ out # "moved" /\ Honest(p, out)
  BY <1>1 DEF Endings, Honest, Candidate
<1>4. /\ UNCHANGED <<targetVars, index>> /\ work' \in [Checkouts -> Trees]
      /\ fresh' \in SUBSET (Checkouts \X Paths) /\ scene' \in Scenes
  BY <1>1 DEF checkoutVars, Inv, Typed
<1> QED
  BY <1>1, <1>2, <1>3, <1>4, StopKeeps

LEMMA DiedKeeps ==
    ASSUME Inv, NEW p \in Processes, op[p].phase # "idle", scene.crashes > 0,
           scene' = [scene EXCEPT !.crashes = @ - 1], op' = [op EXCEPT ![p] = Deceased(p)], fence' = Unfenced(p),
           UNCHANGED <<targetVars, index, fresh>>, work' \in [Checkouts -> Trees], fence # p => UNCHANGED work
    PROVE  Inv'
<1>1. /\ scene' \in Scenes /\ fresh' \in SUBSET (Checkouts \X Paths) /\ UNCHANGED <<targetVars, index>>
      /\ fence # p => UNCHANGED checkoutVars
  BY SpentTyped DEF checkoutVars, Inv, Typed
<1>2. CASE p = Reconciler
  BY <1>1, <1>2, RestKeeps DEF Deceased
<1>3. CASE p # Reconciler
  BY <1>1, <1>3, StopKeeps DEF Deceased, Processes, Endings, Honest
<1> QED
  BY <1>2, <1>3

LEMMA DieKeeps == ASSUME Inv, NEW p \in Processes, Die(p) PROVE Inv'
<1>1. /\ op[p].phase \notin {"idle", "ended"} /\ scene.crashes > 0 /\ scene' = [scene EXCEPT !.crashes = @ - 1]
      /\ op' = [op EXCEPT ![p] = Deceased(p)] /\ fence' = Unfenced(p) /\ UNCHANGED <<checkoutVars, index, work, fresh>>
      /\ work' \in [Checkouts -> Trees]
  BY DEF Die, Phase, checkoutVars, Inv, Typed
<1>2. CASE UNCHANGED targetVars
  BY <1>1, <1>2, DiedKeeps
<1>3. CASE op[p].phase \in Publishing /\ op[p].doubt = None /\ Publish(p)
  <2> DEFINE o == Ended(op[p], "died")
  <2>1. /\ p \in Completers /\ p # Reconciler /\ p # None /\ fence = p /\ op[p] \in Ops /\ Completion(p) /\ Candidate(p)
    BY <1>3, WhoActs DEF Publishing, Recovering, Mending, Custody, Fenced, Completion, Seeking
  <2>2. op' = [op EXCEPT ![p] = o] /\ fence' = None /\ scene' \in Scenes /\ "died" \in Endings
    BY <1>1, <2>1, SpentTyped DEF Deceased, Unfenced, Endings
  <2>3. /\ o \in Ops /\ o.phase = "ended" /\ o.out = "died" /\ o.contract = op[p].contract
        /\ o.since = op[p].since /\ o.cycles = op[p].cycles
    BY <2>1, <2>2, EndedTyped
  <2> HIDE DEF o
  <2>4. Typed' /\ TargetSound' /\ Onward /\ op'[p] = o /\ \A q \in Processes : q # p => Own(q)'
    BY <1>1, <1>3, <2>1, <2>2, <2>3, Published
  <2>5. Custody(p)' /\ Secured(p)'
    BY <2>1, <2>2, <2>3, <2>4 DEF Custody, Secured, Fenced
  <2>6. op'[p].since + op'[p].cycles <= moves'
    <3>1. /\ moves \in Nat /\ moves' \in Nat /\ op[p].since \in Nat /\ op[p].cycles \in Nat
          /\ op[p].since + op[p].cycles <= moves
      BY <2>1, <2>4 DEF Ops, MaxCycles, Inv, Typed, Completion
    <3> QED
      BY <2>3, <2>4, <3>1 DEF Onward
  <2>7. Completion(p)'
    BY <2>1, <2>3, <2>4, <2>6 DEF Completion, Candidate, Honest, Recovering, Mending, Seeking
  <2> QED
    BY <2>1, <2>4, <2>5, <2>7 DEF Inv, Own
<1> QED
  BY <1>2, <1>3 DEF Die, Phase

LEMMA DieMergingKeeps == ASSUME Inv, NEW p \in Processes, NEW w \in Checkouts, DieMerging(p, w) PROVE Inv'
<1>1. op[p].phase \in {"following", "worktree-merge"}
  BY DEF DieMerging, Phase
<1>2. fence = p /\ op[p].plan \in Integrations
  BY <1>1, WhoActs DEF Custody, Fenced, Completion, Recoverer, Mending, Recovering
<1>3. PICK written \in SUBSET Taken(w, op[p].plan) :
          work' = [work EXCEPT ![w] = Overlay(work[w], op[p].plan, written)]
  BY DEF DieMerging
<1>4. work' \in [Checkouts -> Trees]
  BY <1>2, <1>3, OverlayTyped DEF Inv, Typed
<1> QED
  BY <1>1, <1>2, <1>4, DiedKeeps DEF DieMerging

(* A step of users, who are no process.                                      *)
LEMMA UserKeeps ==
    ASSUME Inv, Typed', Onward, TargetSound', UNCHANGED <<integration, claimedBy, fence, op>>, fresh \subseteq fresh',
           \A w \in Checkouts, x \in Ignored : Untracked(w, x)' => Untracked(w, x) \/ <<w, x>> \in fresh'
    PROVE  Inv'
<1>1. ASSUME NEW q \in Processes PROVE Own(q)'
  <2>1. Aside(q)
    BY DEF Aside
  <2> QED
    BY <2>1, BystanderKeeps
<1> QED
  BY <1>1 DEF Inv

LEMMA PushKeeps == ASSUME Inv, Push PROVE Inv'
<1>1. /\ moves' = moves + 1 /\ moves \in Nat
      /\ UNCHANGED <<integration, claimedBy, fence, op, index, work, fresh>> /\ scene' \in Scenes
  BY SpentTyped DEF Push, checkoutVars, Inv, Typed
<1>2. PICK tree \in {[head.tree EXCEPT ![q] = v] : q \in scene.pushed, v \in {Original, Pushed}}
                    \cup {integration[c].snap.tree : c \in Contracts} :
          head' = Commit(None, moves', tree)
  BY DEF Push
<1>3. tree \in CommitTrees
  <2>1. head.tree \in CommitTrees
    BY DEF Inv, Typed, Snapshots
  <2> DEFINE after(q, v) == [head.tree EXCEPT ![q] = v]
  <2>2. ASSUME NEW q \in scene.pushed, NEW v \in {Original, Pushed} PROVE after(q, v) \in CommitTrees
    BY <2>1, SpentTyped DEF CommitTrees
  <2>3. ASSUME NEW c \in Contracts PROVE integration[c].snap.tree \in CommitTrees
    BY DEF Inv, Typed, Integrations, Snapshots
  <2>4. {after(q, v) : q \in scene.pushed, v \in {Original, Pushed}} \subseteq CommitTrees
    <3> HIDE DEF after
    <3> QED
      BY <2>2
  <2>5. {integration[c].snap.tree : c \in Contracts} \subseteq CommitTrees
    BY <2>3
  <2> QED
    BY <2>4, <2>5
<1>4. head' \in Snapshots /\ head'.by = None /\ head'.at = moves'
  BY <1>1, <1>2, <1>3 DEF Commit, Snapshots
<1>5. Typed'
  BY <1>1, <1>4 DEF Inv, Typed
<1>6. Onward
  <2>1. ASSUME NEW x \in Snapshots, Known(x) PROVE Known(x)' /\ x # head'
    <3>1. x.at \in Nat
      BY DEF Snapshots
    <3> QED
      BY <1>1, <1>4, <2>1, <3>1 DEF Known
  <2> QED
    BY <1>1, <2>1 DEF Onward
<1>7. TargetSound'
  <2>1. Known(head)'
    BY <1>1, <1>4 DEF Known
  <2>2. ASSUME NEW d \in Contracts PROVE Sound(integration[d])' /\ integration'[d].snap.by = d
    <3>1. Sound(integration[d]) /\ integration[d] \in Integrations /\ integration[d].snap.by = d
      BY DEF Inv, Typed, TargetSound
    <3> QED
      BY <1>1, <1>5, <1>6, <3>1, SoundKeeps DEF Inv, Sound, Known
  <2> QED
    BY <2>1, <2>2 DEF TargetSound
<1>8. \A w \in Checkouts, x \in Ignored : Untracked(w, x)' => Untracked(w, x)
  BY <1>1 DEF Untracked
<1> QED
  BY <1>1, <1>5, <1>6, <1>7, <1>8, UserKeeps

LEMMA WorkKeeps ==
    ASSUME Inv, NEW w \in Checkouts, Pull(w) \/ \E q \in Paths : Edit(w, q) \/ Discard(w, q) \/ Stage(w, q)
    PROVE  Inv'
<1>1. AtWork(w)
  BY DEF Edit, Discard, Stage, Pull
<1>2. UNCHANGED <<head, moves, integration, claimedBy, fence, op>> /\ scene' \in Scenes
  BY <1>1, SpentTyped DEF AtWork, targetVars
<1>3. index \in [Checkouts -> Trees] /\ work \in [Checkouts -> Trees] /\ head.tree \in Trees
      /\ fresh \subseteq Checkouts \X Paths
  BY DEF Inv, Typed, Snapshots, CommitTrees, Trees
<1>4. /\ index' \in [Checkouts -> Trees] /\ work' \in [Checkouts -> Trees]
      /\ fresh' \in SUBSET (Checkouts \X Paths) /\ fresh \subseteq fresh'
      /\ \A v \in Checkouts, x \in Ignored : Untracked(v, x)' => Untracked(v, x) \/ <<v, x>> \in fresh'
  <2>1. CASE Pull(w)
    BY <1>3, <2>1 DEF Pull, Untracked
  <2>2. ASSUME NEW q \in Paths, Edit(w, q) PROVE <1>4
    <3>1. work' = [work EXCEPT ![w][q] = User] /\ fresh' = fresh \cup {<<w, q>>} /\ index' = index
      BY <2>2 DEF Edit
    <3>2. [work[w] EXCEPT ![q] = User] \in Trees
      BY <1>3 DEF Trees
    <3> QED
      BY <1>3, <3>1, <3>2 DEF Untracked
  <2>3. ASSUME NEW q \in Paths, Discard(w, q) PROVE <1>4
    <3>1. work' = [work EXCEPT ![w][q] = index[w][q]] /\ fresh' = fresh /\ index' = index
          /\ index[w][q] # Absent
      BY <2>3 DEF Discard
    <3>2. [work[w] EXCEPT ![q] = index[w][q]] \in Trees
      BY <1>3 DEF Trees
    <3> QED
      BY <1>3, <3>1, <3>2 DEF Untracked
  <2>4. ASSUME NEW q \in Paths, Stage(w, q) PROVE <1>4
    <3>1. index' = [index EXCEPT ![w][q] = work[w][q]] /\ fresh' = fresh /\ work' = work
      BY <2>4 DEF Stage
    <3>2. [index[w] EXCEPT ![q] = work[w][q]] \in Trees
      BY <1>3 DEF Trees
    <3> QED
      BY <1>3, <3>1, <3>2 DEF Untracked
  <2> QED
    BY <2>1, <2>2, <2>3, <2>4
<1>5. Typed'
  BY <1>2, <1>4 DEF Inv, Typed
<1>6. Onward /\ TargetSound'
  BY <1>2 DEF Onward, Known, Inv, TargetSound, Sound, Typed
<1> QED
  BY <1>2, <1>4, <1>5, <1>6, UserKeeps

-----------------------------------------------------------------------------
(* Every step keeps the invariant                                            *)

LEMMA NextInv == Inv /\ [Next]_vars => Inv'
<1> SUFFICES ASSUME Inv, [Next]_vars PROVE Inv'
  OBVIOUS
<1>1. ASSUME NEW p \in Processes, Step(p) PROVE Inv'
  <2>1. CASE \E w \in Checkouts : Follow(p, w)
    BY <2>1, FollowKeeps
  <2>2. CASE Complete(p) \/ Observe(p) \/ Judge(p) \/ AcquireFence(p) \/ FenceTimeout(p)
    BY <2>2, CompleteKeeps, ObserveKeeps, JudgeKeeps, AcquireFenceKeeps, FenceTimeoutKeeps
  <2>3. CASE Place(p) \/ Admit(p) \/ Recover(p) \/ Followed(p) \/ Report(p) \/ Replan(p)
    BY <2>3, PlaceKeeps, AdmitKeeps, RecoverKeeps, FollowedKeeps, ReportKeeps, ReplanKeeps
  <2> QED
    BY <1>1, <2>1, <2>2, <2>3 DEF Step
<1>2. ASSUME NEW c \in Contracts, Reconcile(c) PROVE Inv'
  BY <1>2, ReconcileKeeps
<1>3. CASE Recovery
  BY <1>3, SurveyKeeps, ExamineKeeps, MendKeeps, ReconciledKeeps DEF Recovery
<1>4. CASE Faults
  BY <1>4, FailKeeps, KillKeeps, RecoverFailsKeeps, DieKeeps, DieMergingKeeps DEF Faults
<1>5. CASE Users
  BY <1>5, PushKeeps, WorkKeeps DEF Users
<1>6. CASE UNCHANGED vars
  <2>1. UNCHANGED <<head, moves, integration, claimedBy, fence, op, index, work, fresh, scene>>
    BY <1>6 DEF vars, targetVars, checkoutVars
  <2>2. Typed' /\ Onward /\ TargetSound'
    BY <2>1 DEF Inv, Typed, Onward, Known, TargetSound, Sound
  <2>3. \A w \in Checkouts, x \in Ignored : Untracked(w, x)' => Untracked(w, x)
    BY <2>1 DEF Untracked
  <2> QED
    BY <2>1, <2>2, <2>3, UserKeeps
<1> QED
  BY <1>1, <1>2, <1>3, <1>4, <1>5, <1>6 DEF Next

-----------------------------------------------------------------------------
(* Theorems                                                                  *)

(* Honest: in every state a completion that ended says that it completed     *)
(* when and only when its own claim was admitted, unless Git was killed while *)
(* it published the claim and the reading back failed too, and then it says  *)
(* that the placement failed or that it was stopped; and none integrated     *)
(* again except behind a target that moved (protocol/completion.ts,          *)
(* completeCandidate and advanceCandidate; protocol/attempt.ts,              *)
(* admitDecidedOffer), however many completions, pushes and failures there   *)
(* are.                                                                      *)
THEOREM CompletionsAreHonest == Spec => []HonestOutcome
<1>1. Inv => HonestOutcome
  <2> SUFFICES ASSUME Inv PROVE HonestOutcome
    OBVIOUS
  <2>1. Snapshots \subseteq Commits /\ CommitTrees \subseteq Trees
    BY DEF Snapshots, Commits, CommitTrees, Trees
  <2>2. ASSUME NEW p \in Processes
        PROVE  /\ op[p].phase \in Phases /\ op[p].out \in Outcomes /\ op[p].doubt \in Doubts \cup {None}
               /\ op[p].cycles \in 0..MaxCycles /\ op[p].attempts \in 0..MaxAttempts
               /\ op[p].todo \cup op[p].guarded \cup op[p].lag \subseteq Checkouts
               /\ fence = p <=> op[p].phase \in Fenced
    BY WhoActs DEF Ops, Custody
  <2>3. TypeOK
    BY <2>1, <2>2 DEF TypeOK, Inv, Typed, Integrations, Fenced
  <2>4. ASSUME NEW p \in Completers
        PROVE  LET o == op[p]
                   mine == o.contract # None /\ claimedBy[o.contract] = p
               IN /\ o.out = "completed" => mine
                  /\ o.phase = "ended" /\ mine /\ o.out \notin {"completed", "died"} =>
                        o.doubt = "recorded" /\ o.out \in {"placement-failed", "failed"}
                  /\ o.cycles <= MaxCycles
                  /\ o.cycles <= moves - o.since
                  /\ o.out = "moved" => o.cycles = MaxCycles /\ moves - o.since > MaxCycles
    <3>1. Completion(p) /\ op[p] \in Ops /\ moves \in Nat /\ None \notin Contracts \cup Endings
      BY WhoActs, TargetAssumption DEF Processes, Inv, Typed
    <3>2. op[p].cycles \in 0..3 /\ op[p].since \in Nat
      BY <3>1 DEF Ops, MaxCycles
    <3>3. op[p].out = "completed" => op[p].phase = "ended"
      BY <3>1 DEF Completion, Endings
    <3> QED
      BY <3>1, <3>2, <3>3 DEF Completion, Honest, MaxCycles
  <2> QED
    BY <2>3, <2>4 DEF HonestOutcome
<1> QED
  BY <1>1, InitInv, NextInv, PTL DEF Spec

(* A merge destroys nothing that the process that runs it could have seen.   *)
LEMMA MergeSpares ==
    ASSUME Inv, NEW p \in Processes, NEW w \in Checkouts,
           \/ op[p].phase = "following" /\ w \in op[p].todo
           \/ op[p].phase = "worktree-merge" /\ w \in op[p].guarded,
           Merges(w, op[p].plan), NEW written \in SUBSET Taken(w, op[p].plan),
           work' = [work EXCEPT ![w] = Overlay(work[w], op[p].plan, written)],
           NEW v \in Checkouts, NEW q \in Paths, Lost(v, q)
    PROVE  \/ Unsuspected(v, q)
           \/ q \in Ignored /\ Untracked(v, q) /\ \E r \in Completers : fence = r /\ v \notin op[r].guarded
<1> DEFINE i == op[p].plan
<1>1. fence = p /\ i \in Integrations /\ Secured(p)
  BY WhoActs DEF Custody, Fenced, Completion, Recoverer, Mending, Recovering
<1>2. v = w /\ q \in written /\ work[w][q] = User
  BY DEF Lost, Overlay, Inv, Typed, Trees
<1>3. /\ q \in Changed(i) /\ index[w][q] = i.pred.tree[q] /\ index[w][q] # i.snap.tree[q] /\ Unmodified(w, q)
  BY <1>2 DEF Taken, Merges
<1>4. i.pred.tree[q] # User
  BY <1>1, TargetAssumption DEF Integrations, Snapshots, CommitTrees, Absent, Original, Pushed, User
<1>5. Untracked(w, q) /\ q \in Ignored /\ i.snap.tree[q] # Absent
  BY <1>2, <1>3, <1>4 DEF Unmodified, Untracked, Absent, User
<1>6. CASE w \in op[p].guarded
  <2>1. w \in op[p].guarded \cap op[p].todo
    BY <1>6, WhoActs DEF Recoverer, Recovering, Mending
  <2>2. <<w, q>> \in fresh
    BY <1>1, <1>3, <1>5, <2>1 DEF Secured
  <2> QED
    BY <1>2, <1>5, <2>2 DEF Unsuspected
<1>7. CASE w \notin op[p].guarded
  <2>1. p \in Completers
    BY <1>7, WhoActs DEF Recovering, Mending
  <2> QED
    BY <1>1, <1>2, <1>5, <1>7, <2>1
<1> QED
  BY <1>6, <1>7

(* A checkout that shows the target leaves it only where the target has      *)
(* moved, or a completion is moving it.                                      *)
LEMMA MendSpares ==
    ASSUME Inv, NEW w \in Checkouts, op[Reconciler].phase \in {"index-merge", "worktree-merge"},
           index' \in {index, [index EXCEPT ![w] = Overlay(index[w], op[Reconciler].plan, Taken(w, op[Reconciler].plan))]},
           NEW v \in Checkouts, index[v] = head.tree, index'[v] # index[v]
    PROVE  Reconciler \in Processes /\ fence = Reconciler /\ moves # op[Reconciler].since
<1> DEFINE i == op[Reconciler].plan
<1>1. /\ Reconciler \in Processes /\ fence = Reconciler /\ index[v] \in Trees
      /\ moves = op[Reconciler].since => head = i.snap
  BY WhoMends DEF Mending, Recoverer
<1>2. v = w /\ index'[v] = Overlay(index[v], i, Taken(v, i))
  BY WhoMends DEF Mending
<1>3. SUFFICES ASSUME head = i.snap PROVE FALSE
  BY <1>1
<1>4. Taken(v, i) = {}
  BY <1>3 DEF Taken
<1>5. Overlay(index[v], i, {}) = index[v]
  BY <1>1 DEF Overlay, Trees
<1> QED
  BY <1>2, <1>4, <1>5

(* User bytes: whatever completions and recoveries meet in the target's      *)
(* checkouts, none destroys an uncommitted edit that it could have seen, and *)
(* none takes a checkout back from a branch that it shows                    *)
(* (git/target-placement.ts, followTargetPlacement and recoverCheckout).     *)
THEOREM UsersKeepTheirBytes == Spec => UserBytesSurvive
<1> DEFINE Excused(w, q) ==
               \/ Unsuspected(w, q)
               \/ q \in Ignored /\ Untracked(w, q) /\ \E p \in Completers : fence = p /\ w \notin op[p].guarded
           Moving == \E p \in Processes : fence = p /\ (p = Reconciler => moves # op[p].since)
           Kept == ~UserStep => \A w \in Checkouts :
                       /\ \A q \in Paths : Lost(w, q) => Excused(w, q)
                       /\ index[w] = head.tree /\ index'[w] # index[w] => Moving
<1>1. ASSUME Inv, Next, ~UserStep, NEW v \in Checkouts
      PROVE  /\ \A q \in Paths : Lost(v, q) => Excused(v, q)
             /\ index[v] = head.tree /\ index'[v] # index[v] => Moving
  <2>1. ASSUME UNCHANGED <<index, work>>
        PROVE  /\ \A q \in Paths : Lost(v, q) => Excused(v, q)
               /\ index[v] = head.tree /\ index'[v] # index[v] => Moving
    BY <2>1 DEF Lost
  <2>2. ASSUME NEW p \in Processes, NEW w \in Checkouts, Follow(p, w)
        PROVE  /\ \A q \in Paths : Lost(v, q) => Excused(v, q)
               /\ index[v] = head.tree /\ index'[v] # index[v] => Moving
    <3>1. op[p].phase = "following" /\ w \in op[p].todo
      BY <2>2 DEF Follow, Phase
    <3>2. fence = p /\ p # Reconciler
      BY <1>1, <3>1, WhoActs DEF Custody, Fenced, Recovering, Mending
    <3>3. CASE Merges(w, op[p].plan)
      <4>1. work' = [work EXCEPT ![w] = Overlay(work[w], op[p].plan, Taken(w, op[p].plan))]
        BY <2>2, <3>3 DEF Follow
      <4>2. \A q \in Paths : Lost(v, q) => Excused(v, q)
        BY <1>1, <3>1, <3>3, <4>1, MergeSpares
      <4> QED
        BY <3>2, <4>2
    <3>4. CASE ~Merges(w, op[p].plan)
      BY <2>1, <2>2, <3>4 DEF Follow
    <3> QED
      BY <3>3, <3>4
  <2>3. ASSUME NEW w \in Checkouts, MendIndex(w)
        PROVE  /\ \A q \in Paths : Lost(v, q) => Excused(v, q)
               /\ index[v] = head.tree /\ index'[v] # index[v] => Moving
    <3>1. /\ op[Reconciler].phase \in {"index-merge", "worktree-merge"} /\ work' = work
          /\ index' \in {index, [index EXCEPT ![w] = Overlay(index[w], op[Reconciler].plan,
                                                             Taken(w, op[Reconciler].plan))]}
      BY <2>3 DEF MendIndex, Phase
    <3>2. index[v] = head.tree /\ index'[v] # index[v] => Moving
      BY <1>1, <3>1, MendSpares
    <3> QED
      BY <3>1, <3>2 DEF Lost
  <2>4. ASSUME NEW w \in Checkouts, MendWorktree(w)
        PROVE  /\ \A q \in Paths : Lost(v, q) => Excused(v, q)
               /\ index[v] = head.tree /\ index'[v] # index[v] => Moving
    <3>1. /\ op[Reconciler].phase = "worktree-merge" /\ w \in op[Reconciler].guarded
          /\ index' \in {index, [index EXCEPT ![w] = Overlay(index[w], op[Reconciler].plan,
                                                             Taken(w, op[Reconciler].plan))]}
      BY <2>4 DEF MendWorktree, Phase
    <3>2. index[v] = head.tree /\ index'[v] # index[v] => Moving
      BY <1>1, <3>1, MendSpares
    <3>3. CASE Merges(w, op[Reconciler].plan)
      <4>1. work' = [work EXCEPT ![w] = Overlay(work[w], op[Reconciler].plan, Taken(w, op[Reconciler].plan))]
        BY <2>4, <3>3 DEF MendWorktree
      <4>2. \A q \in Paths : Lost(v, q) => Excused(v, q)
        BY <1>1, <3>1, <3>3, <4>1, MergeSpares DEF Processes
      <4> QED
        BY <3>2, <4>2
    <3>4. CASE ~Merges(w, op[Reconciler].plan)
      BY <2>1, <2>4, <3>4 DEF MendWorktree
    <3> QED
      BY <3>3, <3>4
  <2>5. ASSUME NEW p \in Processes, NEW w \in Checkouts, DieMerging(p, w)
        PROVE  /\ \A q \in Paths : Lost(v, q) => Excused(v, q)
               /\ index[v] = head.tree /\ index'[v] # index[v] => Moving
    <3>1. PICK written \in SUBSET Taken(w, op[p].plan) :
              work' = [work EXCEPT ![w] = Overlay(work[w], op[p].plan, written)]
      BY <2>5 DEF DieMerging
    <3>2. \A q \in Paths : Lost(v, q) => Excused(v, q)
      BY <1>1, <2>5, <3>1, MergeSpares DEF DieMerging, Phase
    <3> QED
      BY <2>5, <3>2 DEF DieMerging
  <2>6. CASE \E p \in Processes : Step(p)
    <3> PICK p \in Processes : Step(p)
      BY <2>6
    <3>1. CASE \E w \in Checkouts : Follow(p, w)
      BY <2>2, <3>1
    <3>2. CASE ~\E w \in Checkouts : Follow(p, w)
      <4>1. UNCHANGED <<index, work>>
        BY <3>2 DEF Step, Complete, Observe, Judge, AcquireFence, FenceTimeout, Place, Admit, Recover, Followed, Report,
                    Replan, checkoutVars
      <4> QED
        BY <2>1, <4>1
    <3> QED
      BY <3>1, <3>2
  <2>7. CASE \E c \in Contracts : Reconcile(c)
    BY <2>1, <2>7 DEF Reconcile, checkoutVars
  <2>8. CASE Recovery
    <3>1. CASE Survey \/ Reconciled \/ \E w \in Checkouts : Examine(w)
      BY <2>1, <3>1 DEF Survey, Reconciled, Examine, checkoutVars
    <3> QED
      BY <2>3, <2>4, <2>8, <3>1 DEF Recovery
  <2>9. CASE Faults
    <3>1. ASSUME NEW p \in Processes, Fail(p) \/ Kill(p) \/ RecoverFails(p) \/ Die(p) PROVE UNCHANGED <<index, work>>
      BY <3>1 DEF Fail, Kill, RecoverFails, Die, checkoutVars
    <3> QED
      BY <2>1, <2>5, <2>9, <3>1 DEF Faults
  <2>10. CASE Users
    <3>1. CASE Push
      BY <2>1, <3>1 DEF Push, checkoutVars
    <3>2. ASSUME NEW w \in Checkouts, AtWork(w) PROVE FALSE
      <4>1. scene.edits \in Nat /\ scene' = [scene EXCEPT !.edits = @ - 1] /\ scene \in Scenes
        BY <1>1, <3>2 DEF AtWork, Inv, Typed, Scenes
      <4>2. scene'.edits = scene.edits - 1
        BY <4>1 DEF Scenes
      <4> QED
        BY <1>1, <4>1, <4>2 DEF UserStep
    <3> QED
      BY <2>10, <3>1, <3>2 DEF Users, Edit, Discard, Stage, Pull
  <2> QED
    BY <1>1, <2>6, <2>7, <2>8, <2>9, <2>10 DEF Next
<1>2. ASSUME UNCHANGED vars, NEW v \in Checkouts
      PROVE  /\ \A q \in Paths : Lost(v, q) => Excused(v, q)
             /\ index[v] = head.tree /\ index'[v] # index[v] => Moving
  BY <1>2 DEF vars, checkoutVars, Lost
<1>3. Inv /\ [Next]_vars => Kept
  BY <1>1, <1>2
<1> QED
  BY <1>3, InitInv, NextInv, PTL DEF Spec, UserBytesSurvive

=============================================================================
