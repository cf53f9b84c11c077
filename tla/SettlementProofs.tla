--------------------------- MODULE SettlementProofs ---------------------------
(***************************************************************************)
(* Proofs about Settlement and the debt store under it, for any number of  *)
(* processes, contracts and debts: contracts and debts behave as           *)
(* DebtOwnership says (PromiseKept), a report of settlement is true        *)
(* (HonestReport), and no process erases what another has written          *)
(* (NeverClobber).                                                         *)
(*                                                                         *)
(* The first two are claimed of binders that live: the Git child of a dead *)
(* binder, whose fence died with it, may take a debt over at any later     *)
(* time (TakersLive).  The last is claimed of a person who edits the files *)
(* of debts without making or deleting one (HandsOnlyEdit): an identity    *)
(* that is minted for a new debt is not locked.                            *)
(***************************************************************************)
EXTENDS Settlement, TLAPS

(* No ref transaction that takes a debt over has outlived its process.      *)
TakersLive == \A o \in orphans : o.taken = None

(* A person changes the file of a debt that has one, and leaves it there.   *)
HandsOnlyEdit ==
    [][\A d \in DebtIds : author'[d] = "hand" /\ debts'[d] # debts[d]
          => debts[d] # None /\ debts'[d] # None]_vars

-----------------------------------------------------------------------------
(* The debt store                                                            *)

Results == {"busy", "removed", "vanished", "corrupt", "refused", "exhausted", "accepted", "retry", "unchanged",
            "failed", "changed", "thrown"}
TaskPhases == {"idle", "locking", "listing", "reading", "judging", "comparing", "renaming", "unlinking", "unlocking"}
Readable == [DebtIds -> Debt \cup {None}]

Tasks == [order : Orders \cup {None}, phase : TaskPhases, want : SUBSET Locks, listed : SUBSET DebtIds,
          board : Readable \cup {None}, at : Nat, id : DebtIds \cup {None}, expected : Debt \cup {None},
          next : Debt \cup {None}, result : Results \cup {None}]

StoreTypes ==
    /\ debts \in Boards
    /\ author \in [DebtIds -> Workers \cup {None, "hand"}]
    /\ custody \in [Locks -> Workers \cup {None}]
    /\ task \in [Workers -> Tasks]
    /\ budget \in [edits : Nat, faults : Nat, kills : Nat, mortal : SUBSET Workers]

(* A task has the locks of what it reads and writes: a creation and a reset *)
(* the lock of the allocation, a reset those of all it has listed once it   *)
(* unlinks, every other task that of its debt.                              *)
Owns(w, l) == custody[l] = w
Locking(t, w) ==
    /\ t.order.verb = "create" => t.want = {Allocation}
    /\ t.order.verb = "nuke" =>
          \/ t.want = {Allocation} /\ t.listed = {}
          \/ Owns(w, Allocation) /\ t.want \subseteq t.listed /\ \A d \in t.listed \ t.want : Owns(w, d)
    /\ t.order.verb \notin {"create", "nuke"} => t.id \in DebtIds /\ t.want = {t.id}
    /\ t.order.verb = "batch" => t.at # 0
TaskCustody(w) ==
    LET t == task[w] IN
    /\ t.phase = "idle" => \A l \in Locks : ~Owns(w, l)
    /\ t.phase # "idle" => t.order \in Orders /\ (t.order.verb = "batch" /\ t.at # 0 => t.board \in Readable)
    /\ t.phase = "locking" => Locking(t, w)
    /\ t.phase \in {"listing", "reading"} =>
          /\ t.order.verb \in {"create", "nuke"} => Owns(w, Allocation)
          /\ t.order.verb \notin {"create", "nuke", "batch"} => t.id \in DebtIds /\ Owns(w, t.id)
    /\ t.phase = "reading" => t.order.verb # "nuke"
    /\ t.phase \in {"judging", "comparing", "renaming"} =>
          /\ t.order.verb # "nuke" /\ t.board \in Readable
          /\ IF t.order.verb = "create" THEN Owns(w, Allocation) ELSE t.id \in DebtIds /\ Owns(w, t.id)
    /\ t.phase \in {"comparing", "renaming"} =>
          t.id \in DebtIds /\ t.next \in Debt /\ (t.expected = None <=> t.order.verb = "create")
    /\ t.phase = "unlinking" =>
          t.order.verb = "nuke" /\ Owns(w, Allocation) /\ \A d \in t.listed : Owns(w, d)

StoreInv == StoreTypes /\ \A w \in Workers : TaskCustody(w)

(* What is about to be replaced is what was read, or a person's.            *)
Guarded(w) ==
    Doing(w, "renaming") =>
        /\ debts[task[w].id] = task[w].expected \/ author[task[w].id] = "hand"
        /\ debts[task[w].id] = None <=> Verb(w) = "create"

-----------------------------------------------------------------------------
(* Settlement                                                                *)

Answers == Results \cup {None, "inert", "lagging", "contended", "released", "held", "crashed"}
Offers == [seen : Nat, verb : ContractVerbs, contract : Contracts,
           taken : DebtIds \cup {None}, freed : DebtIds \cup {None}]
Procs == [phase : Phases, agenda : Seq(Invocations), verb : ContractVerbs \cup {None, "order"},
          contract : Contracts \cup {None}, debt : DebtIds \cup {None}, attempt : Nat, offer : Offers \cup {None},
          disposition : {None, "released", "inert", "held"}, lag : BOOLEAN, result : Answers]

Types ==
    /\ standing \in [Contracts -> {"none", "active", "claimed", "abandoned"}]
    /\ holder \in [DebtIds -> [contract : Contracts, disposition : {"held", "released"}] \cup {None}]
    /\ root \in Nat
    /\ seat \in Workers \cup {None}
    /\ fence \in [DebtIds -> Workers \cup {None}]
    /\ proc \in [Workers -> Procs]
    /\ orphans \in SUBSET Offers
    /\ paid \in SUBSET (Contracts \X DebtIds)

Seated == {"seated", "publishing", "unknown", "closing"}
Outside == {"idle", "ordering", "hinting", "fencing"}
Settles(w) == proc[w].verb = "settle"

(* What is known of a process by its phase, and whose the locks are.        *)
Shape(w) ==
    /\ Phase(w) = "idle" => proc[w].verb = None
    /\ Phase(w) = "ordering" => proc[w].verb = "order"
    /\ Phase(w) \in {"idle", "ordering", "hinting"} => proc[w].debt = None
    /\ Phase(w) = "hinting" => proc[w].verb \in {"abandon", "settle"}
    /\ Phase(w) \notin {"idle", "ordering"} => proc[w].contract \in Contracts /\ proc[w].verb \in ContractVerbs
    /\ Phase(w) \in {"confirming", "paying", "settling"} => Settles(w)
    /\ Phase(w) \in {"fencing", "unfencing"} => proc[w].debt \in DebtIds
    /\ Phase(w) \notin {"idle", "ordering", "hinting"} /\ Settles(w) => proc[w].debt \in DebtIds
    /\ proc[w].verb = "accept" => proc[w].debt = None
    /\ proc[w].disposition = "released" => Settles(w) /\ Phase(w) \in {"closing", "unfencing"}
    /\ Settles(w) /\ Phase(w) = "closing" => proc[w].result # "retry"
    /\ Phase(w) \in {"publishing", "unknown"} =>
          /\ proc[w].offer \in Offers
          /\ proc[w].offer.verb = proc[w].verb /\ proc[w].offer.contract = proc[w].contract
          /\ proc[w].offer.taken = (IF proc[w].verb = "bind" THEN proc[w].debt ELSE None)
          /\ Settles(w) => proc[w].offer.freed = proc[w].debt
    /\ seat = w <=> Phase(w) \in Seated
    /\ \A d \in DebtIds : fence[d] = w <=> proc[w].debt = d /\ Phase(w) \notin Outside
    /\ ~Doing(w, "idle") => Phase(w) \in {"ordering", "settling"}

Holds(c, d) == holder[d] = HeldBy(c)

(* A debt is held by a contract that is active or claimed and holds no      *)
(* other.                                                                   *)
Holdings ==
    \A c \in Contracts, d \in DebtIds : Holds(c, d) =>
        standing[c] \in {"active", "claimed"} /\ \A e \in DebtIds : Holds(c, e) => e = d

(* An offer that Git may still accept was decided on the root as it is.     *)
Current(o) ==
    /\ o.seen <= root
    /\ o.verb = "settle" => o.freed \in DebtIds /\ <<o.contract, o.freed>> \in paid /\ o.taken = None
    /\ o.verb # "settle" /\ o.verb # "abandon" => o.freed = None
    /\ o.verb # "bind" => o.taken = None
    /\ o.seen = root =>
          /\ o.verb = "bind" => standing[o.contract] = "none"
          /\ o.verb \in {"accept", "abandon"} => standing[o.contract] = "active"
          /\ o.verb = "abandon" => \A d \in DebtIds : Holds(o.contract, d) <=> o.freed = d
          /\ o.verb = "settle" => standing[o.contract] = "claimed" /\ Holds(o.contract, o.freed)

(* What a settlement may rely on: its contract is claimed and holds at most *)
(* its debt; it holds it, or has paid for it, when it is about to pay; it   *)
(* has paid before it releases; what it reports as released is; and what it *)
(* ends with without a lag owes nothing.                                    *)
Owed(w) ==
    LET c == proc[w].contract
        d == proc[w].debt
    IN Settles(w) /\ Phase(w) # "hinting" =>
       /\ standing[c] = "claimed" /\ \A e \in DebtIds : Holds(c, e) => e = d
       /\ Phase(w) \in {"paying", "settling"} => Holds(c, d) \/ <<c, d>> \in paid
       /\ Phase(w) = "settling" =>
             /\ task[w].order = [verb |-> "settle", ids |-> <<d>>]
             /\ task[w].phase \in {"idle", "unlocking"} /\ task[w].result \in {"changed", "unchanged"}
                   => <<c, d>> \in paid
       /\ Phase(w) \in {"waiting", "seated", "publishing", "unknown"} => <<c, d>> \in paid
       /\ proc[w].disposition = "released" => holder[d] = ReleasedBy(c)
       /\ Phase(w) \in {"closing", "unfencing"} =>
             \/ proc[w].lag
             \/ proc[w].result = "thrown"
             \/ proc[w].result \notin {"retry", "crashed"} /\ ~Holds(c, d)

Inv ==
    /\ StoreInv
    /\ Types
    /\ Holdings
    /\ \A w \in Workers : Shape(w) /\ Owed(w) /\ (Phase(w) \in {"publishing", "unknown"} => Current(proc[w].offer))
    /\ \A o \in orphans : Current(o)

-----------------------------------------------------------------------------
(* Orders, tasks and locks                                                   *)

LEMMA OrderFields ==
    ASSUME NEW o \in Orders
    PROVE  /\ o.verb \in {"create", "update", "done", "drop", "batch", "settle", "nuke"}
           /\ o.verb \in {"update", "done", "drop", "settle"} => o.ids \in Single /\ o.ids[1] \in DebtIds
           /\ o.verb = "batch" => o.ids \in Seq(DebtIds) /\ o.ids # <<>> /\ o.to \in {"done", "drop"}
           /\ o.verb = "create" => o.record \in Debt
           /\ o.verb = "update" => o.text \in Texts \cup {None} /\ o.add \in Links /\ o.drop \in Links
                                   /\ o.set \in [Relations -> (SUBSET DebtIds) \cup {None}]
<1>1. CASE o \in [verb : {"create"}, ids : {<<>>}, record : Debt]
  BY <1>1
<1>2. CASE o \in [verb : {"update"}, ids : Single, text : Texts \cup {None},
                  set : [Relations -> (SUBSET DebtIds) \cup {None}], add : Links, drop : Links]
  BY <1>2 DEF Single
<1>3. CASE o \in [verb : {"done", "drop", "settle"}, ids : Single]
  BY <1>3 DEF Single
<1>4. CASE o \in [verb : {"batch"}, ids : Seq(DebtIds) \ {<<>>}, to : {"done", "drop"}]
  BY <1>4
<1>5. CASE o \in [verb : {"nuke"}, ids : {<<>>}]
  BY <1>5
<1> QED
  BY <1>1, <1>2, <1>3, <1>4, <1>5 DEF Orders

LEMMA LockFacts ==
    /\ Allocation \in Locks /\ Allocation \notin DebtIds /\ DebtIds \subseteq Locks
    /\ None \notin DebtIds /\ None \notin Workers /\ None \notin Debt /\ "hand" \notin Workers
    /\ None # Corrupt /\ Corrupt \notin Debt
  BY DebtAssumption DEF Locks, Allocation

(* A step that gives one process a new task, and takes no lock of another.  *)
LEMMA StoreMoves ==
    ASSUME StoreInv, NEW w \in Workers, NEW t \in Tasks, task' = [task EXCEPT ![w] = t],
           debts' \in Boards, author' \in [DebtIds -> Workers \cup {None, "hand"}],
           custody' \in [Locks -> Workers \cup {None}],
           budget' \in [edits : Nat, faults : Nat, kills : Nat, mortal : SUBSET Workers],
           \A v \in Workers \ {w} : \A l \in Locks : Owns(v, l)' <=> Owns(v, l),
           TaskCustody(w)'
    PROVE  StoreInv'
<1>1. task \in [Workers -> Tasks] /\ \A v \in Workers : TaskCustody(v)
  BY DEF StoreInv, StoreTypes
<1>2. task' \in [Workers -> Tasks] /\ \A v \in Workers \ {w} : task'[v] = task[v]
  BY <1>1
<1>3. ASSUME NEW v \in Workers \ {w}
      PROVE  TaskCustody(v)'
  <2>1. TaskCustody(v) /\ task'[v] = task[v] /\ task[v] \in Tasks
    BY <1>1, <1>2
  <2>2. \A l \in Locks : Owns(v, l)' <=> Owns(v, l)
    OBVIOUS
  <2>3. task[v].listed \subseteq Locks /\ Allocation \in Locks /\ DebtIds \subseteq Locks
    BY <2>1, LockFacts DEF Tasks
  <2>4. Locking(task[v], v) => Locking(task[v], v)'
    BY <2>1, <2>2, <2>3 DEF Locking
  <2> QED
    BY <2>1, <2>2, <2>3, <2>4 DEF TaskCustody
<1> QED
  BY <1>2, <1>3 DEF StoreInv, StoreTypes

(* What a step of a task is to the rest: the order stays, other tasks stay, *)
(* and it says that a debt is complete only when it found or made it so.    *)
Complete(w) == task[w].phase \in {"idle", "unlocking"} /\ task[w].result \in {"changed", "unchanged"}
Progress(w) ==
    /\ ~Doing(w, "idle") /\ task'[w].order = task[w].order
    /\ \A v \in Workers \ {w} : task'[v] = task[v]
    /\ task[w].order.verb = "settle" /\ Complete(w)' =>
          \/ Complete(w)
          \/ Doing(w, "renaming")
          \/ Doing(w, "judging") /\ task'[w].result = "unchanged"

LEMMA TaskOf ==
    ASSUME StoreInv, NEW w \in Workers
    PROVE  /\ task[w] \in Tasks /\ TaskCustody(w) /\ task \in [Workers -> Tasks]
           /\ debts \in Boards /\ author \in [DebtIds -> Workers \cup {None, "hand"}]
           /\ custody \in [Locks -> Workers \cup {None}]
           /\ budget \in [edits : Nat, faults : Nat, kills : Nat, mortal : SUBSET Workers]
  BY DEF StoreInv, StoreTypes

LEMMA Finishing ==
    ASSUME StoreInv, NEW w \in Workers, ~Doing(w, "idle"), NEW r \in Results, Finish(w, r),
           UNCHANGED <<debts, author, custody>>,
           budget' \in [edits : Nat, faults : Nat, kills : Nat, mortal : SUBSET Workers]
    PROVE  /\ StoreInv' /\ task'[w].order = task[w].order /\ task'[w].phase = "unlocking" /\ task'[w].result = r
           /\ \A v \in Workers \ {w} : task'[v] = task[v]
<1> DEFINE t == [task[w] EXCEPT !.phase = "unlocking", !.result = r]
<1>1. task[w] \in Tasks /\ TaskCustody(w) /\ task \in [Workers -> Tasks]
  BY TaskOf
<1>2. t \in Tasks /\ task' = [task EXCEPT ![w] = t]
  BY <1>1 DEF Finish, Tasks, TaskPhases
<1>3. t.order = task[w].order /\ t.phase = "unlocking" /\ t.result = r /\ task'[w] = t
  BY <1>1, <1>2 DEF Tasks
<1>4. TaskCustody(w)'
  BY <1>1, <1>3 DEF TaskCustody, Doing
<1> HIDE DEF t
<1>5. StoreInv'
  BY <1>2, <1>4, StoreMoves, TaskOf DEF Owns
<1> QED
  BY <1>1, <1>2, <1>3, <1>5

-----------------------------------------------------------------------------
(* The steps of the debt store keep its invariant                            *)

LEMMA Starting ==
    ASSUME StoreInv, NEW w \in Workers, Doing(w, "idle"), NEW o \in Orders, StartTask(w, o),
           UNCHANGED <<debts, author, custody, budget>>
    PROVE  StoreInv' /\ task'[w].order = o /\ task'[w].phase \in {"locking", "listing"}
<1> DEFINE t == [NoTask EXCEPT !.order = o, !.want = LocksOf(o),
                               !.phase = IF o.verb = "batch" THEN "listing" ELSE "locking",
                               !.id = IF o.verb \in {"update", "done", "drop", "settle"} THEN o.ids[1] ELSE None]
<1>1. TaskCustody(w) /\ task \in [Workers -> Tasks]
  BY TaskOf
<1>2. LocksOf(o) \in SUBSET Locks
  BY OrderFields, LockFacts DEF LocksOf
<1>3. /\ t.order = o /\ t.want = LocksOf(o) /\ t.listed = {} /\ t.board = None /\ t.at = 0
      /\ t.phase = (IF o.verb = "batch" THEN "listing" ELSE "locking")
      /\ t.id = (IF o.verb \in {"update", "done", "drop", "settle"} THEN o.ids[1] ELSE None)
  BY DEF NoTask
<1>4. t \in Tasks
  <2>1. (IF o.verb \in {"update", "done", "drop", "settle"} THEN o.ids[1] ELSE None) \in DebtIds \cup {None}
    BY OrderFields
  <2> QED
    BY <1>2, <2>1 DEF NoTask, Tasks, TaskPhases
<1>5. task' = [task EXCEPT ![w] = t] /\ task'[w] = t
  BY <1>1 DEF StartTask
<1> HIDE DEF t
<1>6. TaskCustody(w)'
  BY <1>3, <1>5, OrderFields, LockFacts DEF TaskCustody, Locking, LocksOf
<1> QED
  BY <1>3, <1>4, <1>5, <1>6, StoreMoves, TaskOf DEF Owns

LEMMA AcquireKeeps ==
    ASSUME StoreInv, NEW w \in Workers, Acquire(w)
    PROVE  StoreInv' /\ Progress(w)
<1>1. task[w] \in Tasks /\ TaskCustody(w) /\ task \in [Workers -> Tasks] /\ task[w].phase = "locking"
  BY TaskOf DEF Acquire, Doing
<1>2. PICK l \in task[w].want :
         /\ custody[l] = None
         /\ custody' = [custody EXCEPT ![l] = w]
         /\ task' = [task EXCEPT ![w].want = @ \ {l}, ![w].phase = IF task[w].want = {l} THEN Locked(w) ELSE @]
  BY DEF Acquire, Least
<1> DEFINE t == [task[w] EXCEPT !.want = @ \ {l}, !.phase = IF task[w].want = {l} THEN Locked(w) ELSE @]
<1>3. task' = [task EXCEPT ![w] = t] /\ task'[w] = t
  BY <1>1, <1>2 DEF Tasks
<1>4. Locked(w) \in {"judging", "unlinking", "listing"} /\ l \in Locks
  BY <1>1 DEF Locked, Tasks
<1>5. t \in Tasks
  <2>1. task[w].want \ {l} \in SUBSET Locks
    BY <1>1 DEF Tasks
  <2>2. (IF task[w].want = {l} THEN Locked(w) ELSE task[w].phase) \in TaskPhases
    BY <1>1, <1>4 DEF TaskPhases
  <2> QED
    BY <1>1, <2>1, <2>2 DEF Tasks
<1>6. /\ t.order = task[w].order /\ t.want = task[w].want \ {l} /\ t.listed = task[w].listed
      /\ t.board = task[w].board /\ t.id = task[w].id /\ t.at = task[w].at
      /\ t.phase = (IF task[w].want = {l} THEN Locked(w) ELSE "locking")
  BY <1>1 DEF Tasks
<1> HIDE DEF t
<1>7. /\ \A v \in Workers \ {w} : \A m \in Locks : Owns(v, m)' <=> Owns(v, m)
      /\ Owns(w, l)' /\ \A m \in Locks : Owns(w, m) => Owns(w, m)'
      /\ custody' \in [Locks -> Workers \cup {None}]
  BY <1>2, <1>4, TaskOf, LockFacts DEF Owns
<1>8. TaskCustody(w)'
  <2>1. task[w].order \in Orders /\ Locking(task[w], w) /\ task[w].listed \subseteq Locks
    BY <1>1, LockFacts DEF TaskCustody, Tasks
  <2>2. CASE task[w].order.verb = "create"
    <3>1. t.phase = "listing" /\ Owns(w, Allocation)'
      BY <1>2, <1>6, <1>7, <2>1, <2>2 DEF Locking, Locked, Verb
    <3> QED
      BY <1>3, <1>6, <2>1, <2>2, <3>1 DEF TaskCustody
  <2>3. CASE task[w].order.verb = "nuke"
    <3>1. CASE task[w].want = {Allocation} /\ task[w].listed = {}
      <4>1. t.phase = "listing" /\ Owns(w, Allocation)'
        BY <1>2, <1>6, <1>7, <2>1, <2>3, <3>1 DEF Locked, Verb
      <4> QED
        BY <1>3, <1>6, <2>1, <2>3, <4>1 DEF TaskCustody
    <3>2. CASE Owns(w, Allocation) /\ task[w].want \subseteq task[w].listed
               /\ \A d \in task[w].listed \ task[w].want : Owns(w, d)
      <4>1. /\ Owns(w, Allocation)' /\ t.want \subseteq t.listed
            /\ \A d \in t.listed \ t.want : Owns(w, d)'
        BY <1>2, <1>6, <1>7, <2>1, <3>2, LockFacts
      <4>2. CASE task[w].want = {l}
        <5>1. t.phase = "unlinking" /\ t.want = {}
          BY <1>2, <1>6, <2>3, <3>2, <4>2 DEF Locked, Verb
        <5> QED
          BY <1>3, <1>6, <2>1, <2>3, <4>1, <5>1 DEF TaskCustody
      <4>3. CASE task[w].want # {l}
        BY <1>3, <1>6, <2>1, <2>3, <4>1, <4>3 DEF TaskCustody, Locking
      <4> QED
        BY <4>2, <4>3
    <3> QED
      BY <2>1, <2>3, <3>1, <3>2 DEF Locking
  <2>4. CASE task[w].order.verb \notin {"create", "nuke"}
    <3>1. task[w].id \in DebtIds /\ task[w].want = {l} /\ l = task[w].id
      BY <1>2, <2>1, <2>4 DEF Locking
    <3>4. custody'[task[w].id] = w /\ task'[w].id = task[w].id
      BY <1>3, <1>6, <1>7, <3>1 DEF Owns
    <3>2. CASE task[w].order.verb = "batch"
      <4>1. t.phase = "judging"
        BY <1>6, <3>1, <3>2 DEF Locked, Verb
      <4>2. task[w].board \in Readable
        BY <1>1, <2>1, <3>2 DEF TaskCustody, Locking
      <4> QED
        BY <1>3, <1>6, <2>1, <2>4, <3>1, <3>4, <4>1, <4>2 DEF TaskCustody, Owns
    <3>3. CASE task[w].order.verb # "batch"
      <4>1. t.phase = "listing"
        BY <1>6, <2>4, <3>1, <3>3 DEF Locked, Verb
      <4> QED
        BY <1>3, <1>6, <2>1, <2>4, <3>1, <3>3, <3>4, <4>1 DEF TaskCustody, Owns
    <3> QED
      BY <3>2, <3>3
  <2> QED
    BY <2>2, <2>3, <2>4
<1>9. UNCHANGED <<debts, author, budget>>
  BY DEF Acquire
<1>10. StoreInv'
  BY <1>3, <1>5, <1>7, <1>8, <1>9, StoreMoves, TaskOf
<1>11. Progress(w)
  BY <1>1, <1>3, <1>4, <1>6 DEF Progress, Complete, Doing
<1> QED
  BY <1>10, <1>11

(* A task that ends with a result.                                           *)
LEMMA FinishKeeps ==
    ASSUME StoreInv, NEW w \in Workers, ~Doing(w, "idle"), NEW r \in Results, Finish(w, r),
           r \in {"changed", "unchanged"} => Doing(w, "judging") /\ r = "unchanged",
           UNCHANGED <<debts, author, custody>>,
           budget' \in [edits : Nat, faults : Nat, kills : Nat, mortal : SUBSET Workers]
    PROVE  StoreInv' /\ Progress(w)
  BY Finishing DEF Progress, Complete

LEMMA BusyKeeps ==
    ASSUME StoreInv, NEW w \in Workers, Busy(w)
    PROVE  StoreInv' /\ Progress(w)
  BY FinishKeeps, TaskOf DEF Busy, Doing, Results

LEMMA ListKeeps ==
    ASSUME StoreInv, NEW w \in Workers, List(w)
    PROVE  StoreInv' /\ Progress(w)
<1>1. task[w] \in Tasks /\ TaskCustody(w) /\ task \in [Workers -> Tasks] /\ task[w].phase = "listing"
      /\ UNCHANGED <<debts, author, custody, budget>> /\ Present \in SUBSET DebtIds
  BY TaskOf DEF List, Doing, Present
<1>2. CASE Verb(w) # "nuke"
  <2> DEFINE t == [task[w] EXCEPT !.listed = Present, !.phase = "reading"]
  <2>1. task' = [task EXCEPT ![w] = t] /\ task'[w] = t
    BY <1>1, <1>2 DEF List, Tasks
  <2>2. t \in Tasks /\ t.order = task[w].order /\ t.phase = "reading" /\ t.id = task[w].id /\ t.at = task[w].at
        /\ t.board = task[w].board
    BY <1>1 DEF Tasks, TaskPhases
  <2> HIDE DEF t
  <2>3. TaskCustody(w)'
    BY <1>1, <1>2, <2>1, <2>2 DEF TaskCustody, Owns, Verb
  <2>4. StoreInv'
    BY <1>1, <2>1, <2>2, <2>3, StoreMoves, TaskOf DEF Owns
  <2> QED
    BY <1>1, <2>1, <2>2, <2>4 DEF Progress, Complete, Doing
<1>3. CASE Verb(w) = "nuke" /\ Present = {}
  BY <1>1, <1>3, FinishKeeps, TaskOf DEF List, Doing, Results
<1>4. CASE Verb(w) = "nuke" /\ Present # {}
  <2> DEFINE t == [task[w] EXCEPT !.listed = Present, !.want = Present, !.phase = "locking"]
  <2>1. task' = [task EXCEPT ![w] = t] /\ task'[w] = t
    BY <1>1, <1>4 DEF List, Tasks
  <2>2. t \in Tasks /\ t.order = task[w].order /\ t.phase = "locking" /\ t.listed = Present /\ t.want = Present
        /\ t.at = task[w].at /\ t.board = task[w].board
    BY <1>1, LockFacts DEF Tasks, TaskPhases
  <2> HIDE DEF t
  <2>3. TaskCustody(w)'
    BY <1>1, <1>4, <2>1, <2>2 DEF TaskCustody, Locking, Owns, Verb
  <2>4. StoreInv'
    BY <1>1, <2>1, <2>2, <2>3, StoreMoves, TaskOf DEF Owns
  <2> QED
    BY <1>1, <2>1, <2>2, <2>4 DEF Progress, Complete, Doing
<1> QED
  BY <1>2, <1>3, <1>4

(* A batch goes to its next debt.                                            *)
LEMMA ItemTask ==
    ASSUME NEW t \in Tasks, t.order \in Orders, t.order.verb = "batch", NEW at \in Nat,
           at \in 1..Len(t.order.ids)
    PROVE  /\ Item(t, at) \in Tasks /\ Item(t, at).order = t.order /\ Item(t, at).phase = "locking"
           /\ Item(t, at).id \in DebtIds /\ Item(t, at).want = {Item(t, at).id} /\ Item(t, at).at = at
           /\ Item(t, at).board = t.board
<1>1. t.order.ids[at] \in DebtIds
  BY OrderFields
<1> DEFINE id == t.order.ids[at]
<1>2. Item(t, at) = [t EXCEPT !.at = at, !.id = id, !.want = {id}, !.phase = "locking", !.result = None]
  BY DEF Item
<1> HIDE DEF id
<1>3. id \in DebtIds /\ {id} \in SUBSET Locks
  BY <1>1, LockFacts DEF id
<1> QED
  BY <1>2, <1>3 DEF Tasks, TaskPhases

LEMMA ReadKeeps ==
    ASSUME StoreInv, NEW w \in Workers, Read(w)
    PROVE  StoreInv' /\ Progress(w)
<1>1. task[w] \in Tasks /\ TaskCustody(w) /\ task \in [Workers -> Tasks] /\ task[w].phase = "reading"
      /\ UNCHANGED <<debts, author, custody, budget>>
  BY TaskOf DEF Read, Doing
<1> DEFINE board == [d \in DebtIds |-> IF d \in task[w].listed THEN debts[d] ELSE None]
<1>2. CASE \E d \in task[w].listed : debts[d] = None
  BY <1>1, <1>2, FinishKeeps, TaskOf DEF Read, Doing, Results
<1>3. CASE ~(\E d \in task[w].listed : debts[d] = None) /\ \E d \in task[w].listed : debts[d] = Corrupt
  BY <1>1, <1>3, FinishKeeps, TaskOf DEF Read, Doing, Results
<1>4. CASE \A d \in task[w].listed : debts[d] \notin {None, Corrupt}
  <2>1. board \in Readable
    BY <1>4, TaskOf DEF Readable, Boards
  <2>2. task' = [task EXCEPT ![w] = IF Verb(w) = "batch" THEN Item([@ EXCEPT !.board = board], 1)
                                    ELSE [@ EXCEPT !.board = board, !.phase = "judging"]]
    BY <1>4 DEF Read
  <2> HIDE DEF board
  <2>3. CASE Verb(w) = "batch"
    <3> DEFINE u == [task[w] EXCEPT !.board = board]
               t == Item(u, 1)
    <3>1. u \in Tasks /\ u.order = task[w].order /\ u.board = board
      BY <1>1, <2>1 DEF Tasks
    <3>2. task' = [task EXCEPT ![w] = t] /\ task'[w] = t
      BY <1>1, <2>2, <2>3
    <3>3. task[w].order \in Orders /\ task[w].order.verb = "batch" /\ Len(task[w].order.ids) \in Nat \ {0}
      BY <1>1, <2>3, OrderFields DEF TaskCustody, Verb
    <3> HIDE DEF u
    <3>4. /\ t \in Tasks /\ t.order = task[w].order /\ t.phase = "locking" /\ t.id \in DebtIds /\ t.want = {t.id}
          /\ t.at = 1 /\ t.board = board
      BY <3>1, <3>3, ItemTask
    <3> HIDE DEF t
    <3>5. TaskCustody(w)'
      BY <2>1, <3>2, <3>3, <3>4 DEF TaskCustody, Locking
    <3>6. StoreInv'
      BY <1>1, <3>2, <3>4, <3>5, StoreMoves, TaskOf DEF Owns
    <3> QED
      BY <1>1, <3>2, <3>4, <3>6 DEF Progress, Complete, Doing
  <2>4. CASE Verb(w) # "batch"
    <3> DEFINE t == [task[w] EXCEPT !.board = board, !.phase = "judging"]
    <3>1. t \in Tasks /\ t.order = task[w].order /\ t.board = board /\ t.phase = "judging" /\ t.id = task[w].id
      BY <1>1, <2>1 DEF Tasks, TaskPhases
    <3>2. task' = [task EXCEPT ![w] = t] /\ task'[w] = t
      BY <1>1, <2>2, <2>4
    <3> HIDE DEF t
    <3>3. TaskCustody(w)'
      BY <1>1, <2>1, <2>4, <3>1, <3>2 DEF TaskCustody, Owns, Verb
    <3>4. StoreInv'
      BY <1>1, <3>1, <3>2, <3>3, StoreMoves, TaskOf DEF Owns
    <3> QED
      BY <1>1, <3>1, <3>2, <3>4 DEF Progress, Complete, Doing
  <2> QED
    BY <2>3, <2>4
<1> QED
  BY <1>2, <1>3, <1>4

(* A task that is to replace a debt's file.                                  *)
LEMMA ReplaceKeeps ==
    ASSUME StoreInv, NEW w \in Workers, Doing(w, "judging"), NEW d \in DebtIds, NEW e \in Debt \cup {None},
           NEW n \in Debt, Replace(w, d, e, n), e = None <=> Verb(w) = "create",
           Verb(w) # "create" => d = task[w].id, UNCHANGED <<debts, author, custody, budget>>
    PROVE  StoreInv' /\ Progress(w)
<1> DEFINE t == [task[w] EXCEPT !.phase = "comparing", !.id = d, !.expected = e, !.next = n]
<1>1. task[w] \in Tasks /\ TaskCustody(w) /\ task \in [Workers -> Tasks] /\ task[w].phase = "judging"
  BY TaskOf DEF Doing
<1>2. task' = [task EXCEPT ![w] = t] /\ task'[w] = t
  BY <1>1 DEF Replace
<1>3. /\ t \in Tasks /\ t.order = task[w].order /\ t.phase = "comparing" /\ t.id = d /\ t.expected = e
      /\ t.next = n /\ t.board = task[w].board /\ t.at = task[w].at
  BY <1>1 DEF Tasks, TaskPhases
<1> HIDE DEF t
<1>4. TaskCustody(w)'
  BY <1>1, <1>2, <1>3 DEF TaskCustody, Owns, Verb
<1>5. StoreInv'
  BY <1>1, <1>2, <1>3, <1>4, StoreMoves, TaskOf DEF Owns
<1> QED
  BY <1>1, <1>2, <1>3, <1>5 DEF Progress, Complete, Doing

LEMMA StampedDebt ==
    ASSUME NEW r \in Debt
    PROVE  /\ Advance(r.stamp) \in Nat /\ Now \in Nat
           /\ \A n \in Nat : [r EXCEPT !.stamp = n] \in Debt
           /\ \A st \in DebtStates : [r EXCEPT !.state = st, !.stamp = Advance(@)] \in Debt
<1>1. Advance(r.stamp) \in Nat /\ Now \in Nat
  BY DebtAssumption DEF Advance, Debt
<1>2. ASSUME NEW st \in DebtStates
      PROVE  [r EXCEPT !.state = st, !.stamp = Advance(@)] \in Debt
  <2>1. [r EXCEPT !.state = st, !.stamp = Advance(@)] = [r EXCEPT !.state = st, !.stamp = Advance(r.stamp)]
    OBVIOUS
  <2> QED
    BY <1>1, <2>1 DEF Debt
<1> QED
  BY <1>1, <1>2 DEF Debt

LEMMA JudgeCreateKeeps ==
    ASSUME StoreInv, NEW w \in Workers, JudgeCreate(w)
    PROVE  StoreInv' /\ Progress(w)
<1>1. /\ TaskCustody(w) /\ task[w].order \in Orders /\ Doing(w, "judging") /\ Verb(w) = "create"
      /\ ~Doing(w, "idle") /\ UNCHANGED <<debts, author, custody, budget>>
  BY TaskOf DEF JudgeCreate, TaskCustody, Doing
<1> DEFINE next == [task[w].order.record EXCEPT !.stamp = Now]
<1>2. next \in Debt
  BY <1>1, OrderFields, StampedDebt DEF Verb
<1> HIDE DEF next
<1>3. CASE \E r \in Results : r \in {"refused", "exhausted"} /\ Finish(w, r)
  BY <1>1, <1>3, FinishKeeps, TaskOf
<1>4. CASE \E d \in DebtIds : Replace(w, d, None, next)
  BY <1>1, <1>2, <1>4, ReplaceKeeps
<1> QED
  BY <1>3, <1>4 DEF JudgeCreate, Results, next

LEMMA ChangedDebt ==
    ASSUME NEW o \in Orders, o.verb = "update", NEW r \in Debt
    PROVE  Changed(o, r) \in Debt
<1> DEFINE text == IF o.text = None THEN r.text ELSE o.text
           links == [q \in Relations |-> ((IF o.set[q] = None THEN r.links[q] ELSE o.set[q]) \cup o.add[q]) \ o.drop[q]]
<1>1. text \in Texts
  BY OrderFields DEF Debt
<1>2. links \in Links
  BY OrderFields DEF Debt, Links
<1>3. Changed(o, r) = [r EXCEPT !.text = text, !.links = links]
  BY DEF Changed
<1> HIDE DEF text, links
<1> QED
  BY <1>1, <1>2, <1>3 DEF Debt

LEMMA JudgeUpdateKeeps ==
    ASSUME StoreInv, NEW w \in Workers, JudgeUpdate(w)
    PROVE  StoreInv' /\ Progress(w)
<1>1. /\ TaskCustody(w) /\ task[w].order \in Orders /\ Doing(w, "judging") /\ Verb(w) = "update"
      /\ ~Doing(w, "idle") /\ UNCHANGED <<debts, author, custody, budget>>
  BY TaskOf DEF JudgeUpdate, TaskCustody, Doing
<1> DEFINE d == task[w].id
           before == task[w].board[d]
           candidate == Changed(task[w].order, before)
<1>2. d \in DebtIds /\ before \in Debt \cup {None}
  BY <1>1 DEF TaskCustody, Doing, Readable, Verb
<1>3. CASE \E r \in Results : r \in {"refused", "accepted"} /\ Finish(w, r)
  BY <1>1, <1>3, FinishKeeps, TaskOf
<1>4. CASE before # None /\ Replace(w, d, before, [candidate EXCEPT !.stamp = Advance(before.stamp)])
  <2>1. before \in Debt /\ candidate \in Debt
    BY <1>1, <1>2, <1>4, ChangedDebt DEF Verb
  <2>2. [candidate EXCEPT !.stamp = Advance(before.stamp)] \in Debt
    BY <2>1, StampedDebt
  <2> QED
    BY <1>1, <1>2, <1>4, <2>1, <2>2, ReplaceKeeps, LockFacts
<1> QED
  BY <1>3, <1>4 DEF JudgeUpdate, Results

LEMMA JudgeLifecycleKeeps ==
    ASSUME StoreInv, NEW w \in Workers, JudgeLifecycle(w)
    PROVE  StoreInv' /\ Progress(w)
<1>1. /\ TaskCustody(w) /\ task[w].order \in Orders /\ Doing(w, "judging") /\ Verb(w) \in {"done", "drop", "batch"}
      /\ ~Doing(w, "idle") /\ UNCHANGED <<debts, author, custody, budget>>
  BY TaskOf DEF JudgeLifecycle, TaskCustody, Doing
<1> DEFINE d == task[w].id
           current == task[w].board[d]
           next == [current EXCEPT !.state = Target(task[w].order), !.stamp = Advance(@)]
<1>2. d \in DebtIds /\ current \in Debt \cup {None} /\ Target(task[w].order) \in DebtStates
  BY <1>1, OrderFields DEF TaskCustody, Doing, Readable, Verb, Target, DebtStates
<1>3. CASE \E r \in Results : r \in {"refused", "retry"} /\ Finish(w, r)
  BY <1>1, <1>3, FinishKeeps, TaskOf
<1>4. CASE current # None /\ Replace(w, d, current, next)
  <2>1. current \in Debt /\ next \in Debt
    BY <1>2, <1>4, StampedDebt
  <2> HIDE DEF next
  <2> QED
    BY <1>1, <1>2, <1>4, <2>1, ReplaceKeeps, LockFacts
<1> QED
  BY <1>3, <1>4 DEF JudgeLifecycle, Results

LEMMA JudgeSettleKeeps ==
    ASSUME StoreInv, NEW w \in Workers, JudgeSettle(w)
    PROVE  StoreInv' /\ Progress(w)
<1>1. /\ TaskCustody(w) /\ task[w].order \in Orders /\ Doing(w, "judging") /\ Verb(w) = "settle"
      /\ ~Doing(w, "idle") /\ UNCHANGED <<debts, author, custody, budget>>
  BY TaskOf DEF JudgeSettle, TaskCustody, Doing
<1> DEFINE d == task[w].id
           current == task[w].board[d]
           next == [current EXCEPT !.state = "done", !.stamp = Advance(@)]
<1>2. d \in DebtIds /\ current \in Debt \cup {None}
  BY <1>1 DEF TaskCustody, Doing, Readable, Verb
<1>3. CASE \E r \in Results : r \in {"refused", "unchanged"} /\ Finish(w, r)
  BY <1>1, <1>3, FinishKeeps, TaskOf
<1>4. CASE current # None /\ Replace(w, d, current, next)
  <2>1. current \in Debt /\ next \in Debt
    BY <1>2, <1>4, StampedDebt DEF DebtStates
  <2> HIDE DEF next
  <2> QED
    BY <1>1, <1>2, <1>4, <2>1, ReplaceKeeps, LockFacts
<1> QED
  BY <1>3, <1>4 DEF JudgeSettle, Results

LEMMA CompareKeeps ==
    ASSUME StoreInv, NEW w \in Workers, Compare(w)
    PROVE  StoreInv' /\ Progress(w)
<1>1. task[w] \in Tasks /\ TaskCustody(w) /\ task \in [Workers -> Tasks] /\ task[w].phase = "comparing"
      /\ UNCHANGED <<debts, author, custody, budget>>
  BY TaskOf DEF Compare, Doing
<1>2. CASE debts[task[w].id] # task[w].expected
  BY <1>1, <1>2, FinishKeeps, TaskOf DEF Compare, Doing, Results
<1>3. CASE debts[task[w].id] = task[w].expected
  <2> DEFINE t == [task[w] EXCEPT !.phase = "renaming"]
  <2>1. task' = [task EXCEPT ![w] = t] /\ task'[w] = t
    BY <1>1, <1>3 DEF Compare
  <2>2. /\ t \in Tasks /\ t.order = task[w].order /\ t.phase = "renaming" /\ t.id = task[w].id
        /\ t.expected = task[w].expected /\ t.next = task[w].next /\ t.board = task[w].board /\ t.at = task[w].at
    BY <1>1 DEF Tasks, TaskPhases
  <2> HIDE DEF t
  <2>3. TaskCustody(w)'
    BY <1>1, <2>1, <2>2 DEF TaskCustody, Owns
  <2>4. StoreInv'
    BY <1>1, <2>1, <2>2, <2>3, StoreMoves, TaskOf DEF Owns
  <2> QED
    BY <1>1, <2>1, <2>2, <2>4 DEF Progress, Complete, Doing
<1> QED
  BY <1>2, <1>3

LEMMA FewerFaults ==
    ASSUME budget \in [edits : Nat, faults : Nat, kills : Nat, mortal : SUBSET Workers], budget.faults > 0,
           budget' = [budget EXCEPT !.faults = @ - 1]
    PROVE  budget' \in [edits : Nat, faults : Nat, kills : Nat, mortal : SUBSET Workers]
<1>1. budget.faults - 1 \in Nat
  OBVIOUS
<1> QED
  BY <1>1

LEMMA ReplaceFailsKeeps ==
    ASSUME StoreInv, NEW w \in Workers, ReplaceFails(w)
    PROVE  StoreInv' /\ Progress(w)
  BY FinishKeeps, FewerFaults, TaskOf DEF ReplaceFails, Doing, Results

LEMMA RenamedKeeps ==
    ASSUME StoreInv, NEW w \in Workers, Doing(w, "renaming"), NEW r \in Results, Renamed(w, r), UNCHANGED custody,
           budget' \in [edits : Nat, faults : Nat, kills : Nat, mortal : SUBSET Workers]
    PROVE  StoreInv' /\ Progress(w)
<1>1. task[w] \in Tasks /\ TaskCustody(w) /\ task \in [Workers -> Tasks] /\ task[w].phase = "renaming"
      /\ task[w].id \in DebtIds /\ task[w].next \in Debt /\ task[w].board \in Readable
  BY TaskOf DEF Doing, TaskCustody
<1> DEFINE board == [task[w].board EXCEPT ![task[w].id] = task[w].next]
           t == [task[w] EXCEPT !.phase = "unlocking", !.board = board, !.result = r]
<1>2. board \in Readable
  BY <1>1 DEF Readable
<1>3. task' = [task EXCEPT ![w] = t] /\ task'[w] = t
  BY <1>1 DEF Renamed
<1> HIDE DEF board
<1>4. t \in Tasks /\ t.order = task[w].order /\ t.phase = "unlocking" /\ t.board = board /\ t.at = task[w].at
  BY <1>1, <1>2 DEF Tasks, TaskPhases
<1> HIDE DEF t
<1>5. TaskCustody(w)'
  BY <1>1, <1>2, <1>3, <1>4 DEF TaskCustody
<1>6. debts' \in Boards /\ author' \in [DebtIds -> Workers \cup {None, "hand"}]
  BY <1>1, TaskOf DEF Renamed, Boards
<1>7. StoreInv'
  BY <1>3, <1>4, <1>5, <1>6, StoreMoves, TaskOf DEF Owns
<1> QED
  BY <1>1, <1>3, <1>4, <1>7 DEF Progress, Doing

LEMMA RenameKeeps ==
    ASSUME StoreInv, NEW w \in Workers, Rename(w) \/ SyncFails(w)
    PROVE  StoreInv' /\ Progress(w)
  BY RenamedKeeps, FewerFaults, TaskOf DEF Rename, SyncFails, Results

LEMMA UnlinkKeeps ==
    ASSUME StoreInv, NEW w \in Workers, Unlink(w)
    PROVE  StoreInv' /\ Progress(w)
<1>1. task[w] \in Tasks /\ TaskCustody(w) /\ task \in [Workers -> Tasks] /\ task[w].phase = "unlinking"
      /\ UNCHANGED <<custody, budget>>
  BY TaskOf DEF Unlink, Doing
<1>2. PICK d \in task[w].listed :
        /\ debts' = [debts EXCEPT ![d] = None]
        /\ author' = [author EXCEPT ![d] = w]
        /\ task' = IF task[w].listed = {d}
                     THEN [task EXCEPT ![w].listed = {}, ![w].phase = "unlocking", ![w].result = "removed"]
                     ELSE [task EXCEPT ![w].listed = @ \ {d}]
  BY DEF Unlink, Least
<1>3. d \in DebtIds /\ debts' \in Boards /\ author' \in [DebtIds -> Workers \cup {None, "hand"}]
  BY <1>1, <1>2, TaskOf DEF Tasks, Boards
<1> DEFINE t == IF task[w].listed = {d} THEN [task[w] EXCEPT !.listed = {}, !.phase = "unlocking", !.result = "removed"]
                ELSE [task[w] EXCEPT !.listed = @ \ {d}]
<1>4. task' = [task EXCEPT ![w] = t] /\ task'[w] = t
  BY <1>1, <1>2
<1>5. /\ t \in Tasks /\ t.order = task[w].order /\ t.phase \in {"unlinking", "unlocking"} /\ t.at = task[w].at
      /\ t.board = task[w].board /\ t.listed \subseteq task[w].listed
      /\ t.result = "removed" \/ (t.phase = "unlinking" /\ t.result = task[w].result)
  BY <1>1 DEF Tasks, TaskPhases, Results
<1> HIDE DEF t
<1>6. TaskCustody(w)'
  BY <1>1, <1>4, <1>5 DEF TaskCustody, Owns
<1>7. StoreInv'
  BY <1>1, <1>3, <1>4, <1>5, <1>6, StoreMoves, TaskOf DEF Owns
<1> QED
  BY <1>1, <1>4, <1>5, <1>7 DEF Progress, Complete, Doing

(* The locks of a task are closed, and it ends or goes on.                   *)
LEMMA FreedLocks ==
    ASSUME StoreInv, NEW w \in Workers, custody' = Freed(w)
    PROVE  /\ custody' \in [Locks -> Workers \cup {None}]
           /\ \A l \in Locks : ~Owns(w, l)'
           /\ \A v \in Workers \ {w} : \A l \in Locks : Owns(v, l)' <=> Owns(v, l)
  BY TaskOf, LockFacts DEF Freed, Owns

LEMMA EndsOrGoesOn ==
    ASSUME StoreInv, NEW w \in Workers, Doing(w, "unlocking"), custody' = Freed(w), UNCHANGED <<debts, author>>,
           budget' \in [edits : Nat, faults : Nat, kills : Nat, mortal : SUBSET Workers], NEW t,
           task' = [task EXCEPT ![w] = t],
           \/ More(w) /\ t = Item(task[w], task[w].at + 1)
           \/ t = [task[w] EXCEPT !.phase = "idle"]
           \/ t = [task[w] EXCEPT !.phase = "idle", !.result = "thrown"]
    PROVE  StoreInv' /\ Progress(w)
<1>1. task[w] \in Tasks /\ TaskCustody(w) /\ task \in [Workers -> Tasks] /\ task[w].phase = "unlocking"
      /\ task'[w] = t /\ task[w].order \in Orders
  BY TaskOf DEF Doing, TaskCustody
<1>2. CASE More(w) /\ t = Item(task[w], task[w].at + 1)
  <2>1. task[w].order.verb = "batch" /\ task[w].at + 1 \in Nat /\ task[w].at + 1 # 0 /\ task[w].at # 0
        /\ task[w].at + 1 \in 1..Len(task[w].order.ids)
    <3>1. task[w].order.verb = "batch" /\ task[w].at \in Nat /\ task[w].at \in 1..(Len(task[w].order.ids) - 1)
      BY <1>1, <1>2 DEF More, Verb, Tasks
    <3>2. Len(task[w].order.ids) \in Nat
      BY <1>1, <3>1, OrderFields
    <3> QED
      BY <3>1, <3>2
  <2>2. /\ t \in Tasks /\ t.order = task[w].order /\ t.phase = "locking" /\ t.id \in DebtIds /\ t.want = {t.id}
        /\ t.at # 0 /\ t.board = task[w].board
    BY <1>1, <1>2, <2>1, ItemTask
  <2>3. TaskCustody(w)'
    BY <1>1, <2>1, <2>2 DEF TaskCustody, Locking
  <2>4. StoreInv'
    BY <1>1, <2>2, <2>3, StoreMoves, FreedLocks, TaskOf
  <2> QED
    BY <1>1, <2>2, <2>4 DEF Progress, Complete, Doing
<1>3. CASE \/ t = [task[w] EXCEPT !.phase = "idle"]
           \/ t = [task[w] EXCEPT !.phase = "idle", !.result = "thrown"]
  <2>1. t \in Tasks /\ t.order = task[w].order /\ t.phase = "idle" /\ t.result \in {task[w].result, "thrown"}
    BY <1>1, <1>3 DEF Tasks, TaskPhases, Results
  <2>2. TaskCustody(w)'
    BY <1>1, <2>1, FreedLocks DEF TaskCustody
  <2>3. StoreInv'
    BY <1>1, <2>1, <2>2, StoreMoves, FreedLocks, TaskOf
  <2> QED
    BY <1>1, <2>1, <2>3 DEF Progress, Complete, Doing
<1> QED
  BY <1>2, <1>3

LEMMA UnlockKeeps ==
    ASSUME StoreInv, NEW w \in Workers, Unlock(w)
    PROVE  StoreInv' /\ Progress(w)
<1> DEFINE t == IF More(w) THEN Item(task[w], task[w].at + 1) ELSE [task[w] EXCEPT !.phase = "idle"]
<1>1. task' = [task EXCEPT ![w] = t]
  BY TaskOf DEF Unlock
<1>2. \/ More(w) /\ t = Item(task[w], task[w].at + 1)
      \/ t = [task[w] EXCEPT !.phase = "idle"]
  OBVIOUS
<1> HIDE DEF t
<1> QED
  BY <1>1, <1>2, EndsOrGoesOn, TaskOf DEF Unlock

LEMMA UnlockFailsKeeps ==
    ASSUME StoreInv, NEW w \in Workers, UnlockFails(w)
    PROVE  StoreInv' /\ Progress(w)
<1> DEFINE t == IF task[w].result \in {"accepted", "changed"}
                   THEN IF More(w) THEN Item(task[w], task[w].at + 1) ELSE [task[w] EXCEPT !.phase = "idle"]
                   ELSE [task[w] EXCEPT !.phase = "idle", !.result = "thrown"]
<1>1. task' = [task EXCEPT ![w] = t]
  BY TaskOf DEF UnlockFails
<1>2. \/ More(w) /\ t = Item(task[w], task[w].at + 1)
      \/ t = [task[w] EXCEPT !.phase = "idle"]
      \/ t = [task[w] EXCEPT !.phase = "idle", !.result = "thrown"]
  OBVIOUS
<1> HIDE DEF t
<1> QED
  BY <1>1, <1>2, EndsOrGoesOn, FewerFaults, TaskOf DEF UnlockFails

LEMMA TaskStepKeeps ==
    ASSUME StoreInv, NEW w \in Workers, TaskStep(w) \/ TaskFault(w)
    PROVE  StoreInv' /\ Progress(w)
  BY AcquireKeeps, BusyKeeps, ListKeeps, ReadKeeps, JudgeCreateKeeps, JudgeUpdateKeeps, JudgeLifecycleKeeps,
     JudgeSettleKeeps, CompareKeeps, RenameKeeps, UnlinkKeeps, UnlockKeeps, ReplaceFailsKeeps, UnlockFailsKeeps
     DEF TaskStep, TaskFault, Judge

LEMMA DieKeeps ==
    ASSUME StoreInv, NEW w \in Workers, Die(w), UNCHANGED <<debts, author>>,
           budget' \in [edits : Nat, faults : Nat, kills : Nat, mortal : SUBSET Workers]
    PROVE  StoreInv' /\ Doing(w, "idle")' /\ \A v \in Workers \ {w} : task'[v] = task[v]
<1>1. task \in [Workers -> Tasks] /\ task'[w] = NoTask /\ NoTask.phase = "idle"
  BY TaskOf DEF Die, NoTask
<1>2. NoTask \in Tasks
  BY DEF NoTask, Tasks, TaskPhases
<1>3. TaskCustody(w)'
  BY <1>1, FreedLocks DEF TaskCustody, Die
<1>4. StoreInv'
  BY <1>2, <1>3, StoreMoves, FreedLocks, TaskOf DEF Die
<1> QED
  BY <1>1, <1>4 DEF Die, Doing

(* Steps without a task.                                                     *)
LEMMA StoreRests ==
    ASSUME StoreInv, UNCHANGED <<custody, task>>, debts' \in Boards,
           author' \in [DebtIds -> Workers \cup {None, "hand"}],
           budget' \in [edits : Nat, faults : Nat, kills : Nat, mortal : SUBSET Workers]
    PROVE  StoreInv'
<1>1. ASSUME NEW w \in Workers
      PROVE  TaskCustody(w)'
  BY TaskOf DEF TaskCustody, Locking, Owns
<1> QED
  BY <1>1 DEF StoreInv, StoreTypes

LEMMA EditKeeps ==
    ASSUME StoreInv, NEW d \in DebtIds, EditByHand(d)
    PROVE  StoreInv'
<1>1. budget' \in [edits : Nat, faults : Nat, kills : Nat, mortal : SUBSET Workers]
  <2>1. budget.edits - 1 \in Nat
    BY DEF EditByHand, StoreInv, StoreTypes
  <2> QED
    BY <2>1 DEF EditByHand, StoreInv, StoreTypes
<1>2. debts' \in Boards /\ author' \in [DebtIds -> Workers \cup {None, "hand"}]
  BY DebtAssumption DEF EditByHand, Boards, StoreInv, StoreTypes
<1> QED
  BY <1>1, <1>2, StoreRests DEF EditByHand

-----------------------------------------------------------------------------
(* Processes of settlement                                                   *)

LEMMA ProcOf ==
    ASSUME Inv, NEW w \in Workers
    PROVE  /\ proc[w] \in Procs /\ proc \in [Workers -> Procs] /\ Shape(w) /\ Owed(w) /\ StoreInv /\ Types /\ Holdings
           /\ Phase(w) \in {"publishing", "unknown"} => Current(proc[w].offer)
           /\ task[w] \in Tasks /\ TaskCustody(w) /\ task \in [Workers -> Tasks]
  BY TaskOf DEF Inv, Types

LEMMA SettlementFacts ==
    /\ None \notin Contracts /\ None \notin ContractVerbs /\ None \notin DebtIds /\ None \notin Workers
    /\ \A c \in Contracts : HeldBy(c) # None /\ ReleasedBy(c) # None
    /\ \A c, e \in Contracts : HeldBy(c) # ReleasedBy(e) /\ (HeldBy(c) = HeldBy(e) => c = e)
    /\ ContractVerbs = {"bind", "accept", "abandon", "settle"} /\ None \notin {"released", "inert", "held"}
<1>1. \A c \in Contracts : HeldBy(c) \in [contract : Contracts, disposition : {"held", "released"}]
                           /\ ReleasedBy(c) \in [contract : Contracts, disposition : {"held", "released"}]
  BY DEF HeldBy, ReleasedBy
<1>2. \A c, e \in Contracts : HeldBy(c) # ReleasedBy(e) /\ (HeldBy(c) = HeldBy(e) => c = e)
  BY DEF HeldBy, ReleasedBy
<1> QED
  BY <1>1, <1>2, SettlementAssumption, LockFacts DEF ContractVerbs

(* One process moves, and takes and gives only locks of its own.             *)
Apart(w) ==
    \A v \in Workers \ {w} :
        /\ proc'[v] = proc[v] /\ task'[v] = task[v]
        /\ seat' = v <=> seat = v
        /\ \A d \in DebtIds : fence'[d] = v <=> fence[d] = v

LEMMA ApartKeepsShape ==
    ASSUME Inv, NEW w \in Workers, Apart(w), NEW v \in Workers \ {w}
    PROVE  Shape(v)'
<1>1. /\ proc'[v] = proc[v] /\ task'[v] = task[v]
      /\ seat' = v <=> seat = v
      /\ \A d \in DebtIds : fence'[d] = v <=> fence[d] = v
  BY DEF Apart
<1>2. Shape(v)
  BY ProcOf
<1> QED
  BY <1>1, <1>2 DEF Shape, Phase, Settles, Doing

(* A step that commits nothing.                                              *)
LEMMA QuietMoves ==
    ASSUME Inv, StoreInv', NEW w \in Workers, NEW p \in Procs, proc' = [proc EXCEPT ![w] = p], Apart(w),
           UNCHANGED rootVars, seat' \in Workers \cup {None}, fence' \in [DebtIds -> Workers \cup {None}],
           paid \subseteq paid', paid' \subseteq Contracts \X DebtIds,
           orphans' \subseteq Offers, \A o \in orphans' : o \in orphans \/ Current(o)',
           Shape(w)', Owed(w)', Phase(w)' \in {"publishing", "unknown"} => Current(p.offer)'
    PROVE  Inv'
<1>1. Types'
  BY ProcOf DEF Types, rootVars
<1>2. Holdings'
  BY ProcOf DEF Holdings, Holds, rootVars
<1>3. \A o : Current(o) => Current(o)'
  BY DEF Current, Holds, rootVars
<1>4. ASSUME NEW v \in Workers \ {w}
      PROVE  Owed(v)' /\ Shape(v)' /\ (Phase(v)' \in {"publishing", "unknown"} => Current(proc[v].offer)')
  <2>1. proc'[v] = proc[v] /\ task'[v] = task[v]
    BY DEF Apart
  <2>2. Owed(v)'
    BY <2>1, ProcOf DEF Owed, Settles, Phase, Holds, rootVars
  <2>3. Phase(v)' \in {"publishing", "unknown"} => Current(proc[v].offer)
    BY <2>1, ProcOf DEF Phase
  <2> QED
    BY <1>3, <2>1, <2>2, <2>3, ApartKeepsShape DEF Current
<1>5. proc'[w] = p
  BY ProcOf
<1>6. \A o \in orphans' : Current(o)'
  BY <1>3 DEF Inv
<1> QED
  BY <1>1, <1>2, <1>4, <1>5, <1>6 DEF Inv, Current

(* The ends of an invocation.                                                *)
LEMMA IdleFields ==
    /\ Idle.phase = "idle" /\ Idle.verb = None /\ Idle.contract = None /\ Idle.debt = None /\ Idle.offer = None
    /\ Idle.disposition = None /\ Idle.lag = FALSE /\ Idle.result = None /\ Idle.agenda = <<>> /\ Idle.attempt = 0
    /\ Idle \in Procs
  BY DEF Idle, Procs, Phases, Answers

LEMMA EndedProc ==
    ASSUME NEW q \in Procs, NEW r \in Answers
    PROVE  /\ Ended(q, r) \in Procs /\ Ended(q, r).phase = "idle" /\ Ended(q, r).verb = None
           /\ Ended(q, r).debt = None /\ Ended(q, r).disposition = None
           /\ Ended(q, r).lag = q.lag /\ Ended(q, r).result = r
  BY DEF Ended, Idle, Procs, Phases, Answers

(* An invocation that is over, or an accepted claim that goes on to settle. *)
Over(p) ==
    /\ p \in Procs /\ p.debt = None /\ p.disposition = None
    /\ \/ p.phase = "idle" /\ p.verb = None
       \/ p.phase = "hinting" /\ p.verb = "settle" /\ p.contract \in Contracts

LEMMA AfterAdmissionOver ==
    ASSUME NEW q \in Procs, NEW r \in Answers, q.contract \in Contracts
    PROVE  Over(AfterAdmission(q, r))
<1>1. CASE q.verb = "accept" /\ r = "accepted"
  <2>1. AfterAdmission(q, r) = [Idle EXCEPT !.phase = "hinting", !.agenda = q.agenda, !.verb = "settle", !.contract = q.contract]
    BY <1>1 DEF AfterAdmission
  <2> QED
    BY <2>1, IdleFields DEF Over, Procs, Phases, ContractVerbs
<1>2. CASE ~(q.verb = "accept" /\ r = "accepted")
  BY <1>2, EndedProc DEF AfterAdmission, Over
<1> QED
  BY <1>1, <1>2

LEMMA UnfencedOver ==
    ASSUME NEW q \in Procs, q.contract \in Contracts
    PROVE  Over(Unfenced(q)) /\ (q.verb = "settle" => Unfenced(q) = Ended(q, q.result))
<1>1. q.result \in Answers
  BY DEF Procs
<1> QED
  BY <1>1, AfterAdmissionOver, EndedProc DEF Unfenced, Over

LEMMA LeavingProc ==
    ASSUME NEW q \in Procs, NEW r \in Answers, q.contract \in Contracts
    PROVE  /\ q.debt = None => Over(Leaving(q, r))
           /\ q.debt # None =>
                 /\ Leaving(q, r) = [q EXCEPT !.phase = "unfencing", !.result = r]
                 /\ Leaving(q, r) \in Procs
<1>1. [q EXCEPT !.result = r] \in Procs /\ [q EXCEPT !.result = r].contract = q.contract
  BY DEF Procs
<1>2. q.debt = None => Over(Leaving(q, r))
  BY <1>1, UnfencedOver DEF Leaving
<1>3. q.debt # None => Leaving(q, r) = [q EXCEPT !.phase = "unfencing", !.result = r]
  BY DEF Leaving
<1>4. [q EXCEPT !.phase = "unfencing", !.result = r] \in Procs
  BY DEF Procs, Phases
<1> QED
  BY <1>2, <1>3, <1>4

(* A process whose invocation is over.                                       *)
LEMMA OverKeeps ==
    ASSUME Inv, StoreInv', NEW w \in Workers, NEW p, Over(p), proc' = [proc EXCEPT ![w] = p], Apart(w),
           UNCHANGED <<rootVars, paid>>, seat' \in (Workers \cup {None}) \ {w},
           fence' \in [DebtIds -> Workers \cup {None}], \A d \in DebtIds : fence'[d] # w,
           Doing(w, "idle")',
           orphans' \subseteq Offers, \A o \in orphans' : o \in orphans \/ Current(o)'
    PROVE  Inv'
<1>1. p \in Procs /\ proc'[w] = p
  BY ProcOf DEF Over
<1>2. Shape(w)'
  <2>1. p.phase \in {"idle", "hinting"} /\ p.debt = None /\ p.disposition = None
        /\ (p.phase = "idle" => p.verb = None)
        /\ (p.phase = "hinting" => p.verb = "settle" /\ p.contract \in Contracts)
    BY DEF Over
  <2> QED
    BY <1>1, <2>1, SettlementFacts DEF Shape, Phase, Settles, Doing, Seated, Outside, ContractVerbs
<1>3. Owed(w)' /\ ~(Phase(w)' \in {"publishing", "unknown"})
  BY <1>1, SettlementFacts DEF Over, Owed, Settles, Phase
<1>4. paid \subseteq paid' /\ paid' \subseteq Contracts \X DebtIds
  BY ProcOf DEF Types
<1> QED
  BY <1>1, <1>2, <1>3, <1>4, QuietMoves

(* A process that leaves, under its fence if it has one.                     *)
LEMMA LeavingKeeps ==
    ASSUME Inv, StoreInv', NEW w \in Workers, Phase(w) \notin {"idle", "ordering", "hinting", "fencing", "unfencing"},
           NEW q \in Procs, q.contract = proc[w].contract, q.debt = proc[w].debt, q.verb = proc[w].verb,
           q.disposition = "released" => Settles(w) /\ holder[q.debt] = ReleasedBy(q.contract),
           NEW r \in Answers, proc' = [proc EXCEPT ![w] = Leaving(q, r)],
           Settles(w) => \/ q.lag
                         \/ r = "thrown"
                         \/ r \notin {"retry", "crashed"} /\ ~Holds(q.contract, q.debt),
           seat' = (IF seat = w THEN None ELSE seat),
           UNCHANGED <<task, rootVars, fence, orphans, paid>>, Doing(w, "idle")
    PROVE  Inv'
<1>1. /\ proc[w] \in Procs /\ Shape(w) /\ Owed(w) /\ proc \in [Workers -> Procs] /\ Types
      /\ q.contract \in Contracts /\ q.verb \in ContractVerbs
      /\ Settles(w) => q.debt \in DebtIds
      /\ q.verb = "accept" => q.debt = None
  BY ProcOf DEF Shape
<1>2. Apart(w)
  BY <1>1, SettlementFacts DEF Apart
<1>3. CASE q.debt = None
  <2>1. Over(Leaving(q, r))
    BY <1>1, <1>3, LeavingProc
  <2>2. \A d \in DebtIds : fence[d] # w
    BY <1>1, <1>3, SettlementFacts DEF Shape
  <2> QED
    BY <1>1, <1>2, <2>1, <2>2, OverKeeps, SettlementFacts DEF Types, Doing
<1>4. CASE q.debt # None
  <2> DEFINE p == [q EXCEPT !.phase = "unfencing", !.result = r]
  <2>1. p \in Procs /\ proc' = [proc EXCEPT ![w] = p] /\ proc'[w] = p
    BY <1>1, <1>4, LeavingProc
  <2>2. /\ p.phase = "unfencing" /\ p.result = r /\ p.contract = q.contract /\ p.debt = q.debt /\ p.verb = q.verb
        /\ p.disposition = q.disposition /\ p.lag = q.lag
    BY DEF Procs
  <2>3. q.debt \in DebtIds
    BY <1>4 DEF Procs
  <2> HIDE DEF p
  <2>4. Shape(w)'
    <3>1. seat' # w
      BY <1>1, SettlementFacts DEF Types
    <3>2. \A d \in DebtIds : fence[d] = w <=> q.debt = d
      BY <1>1 DEF Shape, Outside
    <3> QED
      BY <1>1, <2>1, <2>2, <2>3, <3>1, <3>2, SettlementFacts DEF Shape, Phase, Settles, Seated, Outside, Doing, rootVars
  <2>5. Owed(w)'
    <3>1. Settles(w) => standing[q.contract] = "claimed" /\ \A e \in DebtIds : Holds(q.contract, e) => e = q.debt
      BY <1>1 DEF Owed
    <3> QED
      BY <1>1, <2>1, <2>2, <3>1 DEF Owed, Settles, Phase, Holds, rootVars
  <2>6. Phase(w)' \notin {"publishing", "unknown"}
    BY <2>1, <2>2 DEF Phase
  <2> QED
    BY <1>1, <1>2, <2>1, <2>4, <2>5, <2>6, QuietMoves, SettlementFacts DEF Types
<1> QED
  BY <1>3, <1>4

-----------------------------------------------------------------------------
(* The steps of a process                                                    *)

LEMMA InvocationFields ==
    ASSUME NEW o \in Invocations
    PROVE  /\ o.verb = "order" => o.order \in Orders
           /\ o.verb # "order" => /\ o.verb \in ContractVerbs /\ o.contract \in Contracts
                                  /\ o.debt \in DebtIds \cup {None} /\ (o.verb # "bind" => o.debt = None)
<1>1. CASE o \in [verb : {"bind"}, contract : Contracts, debt : DebtIds \cup {None}]
  BY <1>1 DEF ContractVerbs
<1>2. CASE o \in [verb : ContractVerbs \ {"bind"}, contract : Contracts, debt : {None}]
  BY <1>2 DEF ContractVerbs
<1>3. CASE o \in [verb : {"order"}, order : Orders]
  BY <1>3
<1> QED
  BY <1>1, <1>2, <1>3 DEF Invocations

LEMMA HasNoLocks ==
    ASSUME Inv, NEW w \in Workers, Phase(w) \in Outside
    PROVE  seat # w /\ \A d \in DebtIds : fence[d] # w
<1>1. Shape(w)
  BY ProcOf
<1> QED
  BY <1>1 DEF Shape, Outside, Seated

LEMMA StaysApart ==
    ASSUME Inv, NEW w \in Workers, NEW p, proc' = [proc EXCEPT ![w] = p],
           \A v \in Workers \ {w} : task'[v] = task[v],
           seat' = seat \/ (seat = None /\ seat' = w) \/ (seat = w /\ seat' = None),
           \A d \in DebtIds : \/ fence'[d] = fence[d]
                              \/ fence[d] = None /\ fence'[d] = w
                              \/ fence[d] = w /\ fence'[d] = None
    PROVE  Apart(w)
<1>1. \A v \in Workers \ {w} : proc'[v] = proc[v]
  BY ProcOf
<1>2. \A v \in Workers \ {w} : v # None /\ v # w
  BY SettlementFacts
<1> QED
  BY <1>1, <1>2 DEF Apart

LEMMA BeginKeeps ==
    ASSUME Inv, NEW w \in Workers, Begin(w)
    PROVE  Inv' /\ UNCHANGED <<rootVars, paid>>
<1> DEFINE op == Head(proc[w].agenda)
           rest == [Idle EXCEPT !.agenda = Tail(proc[w].agenda)]
<1>1. /\ proc[w] \in Procs /\ Phase(w) = "idle" /\ Doing(w, "idle") /\ Shape(w) /\ Types
      /\ proc \in [Workers -> Procs] /\ StoreInv
      /\ UNCHANGED <<debts, author, custody, budget, rootVars, seat, fence, orphans, paid>>
      /\ seat # w /\ \A d \in DebtIds : fence[d] # w
  BY ProcOf, HasNoLocks DEF Begin, Outside
<1>2. op \in Invocations /\ Tail(proc[w].agenda) \in Seq(Invocations)
  <2>1. proc[w].agenda \in Seq(Invocations) /\ proc[w].agenda # <<>>
    BY <1>1 DEF Begin, Procs
  <2> QED
    BY <2>1
<1>3. /\ rest \in Procs /\ rest.debt = None /\ rest.disposition = None /\ rest.offer = None /\ rest.lag = FALSE
      /\ rest.result = None /\ rest.contract = None /\ rest.verb = None /\ rest.phase = "idle"
  BY <1>2, IdleFields DEF Procs
<1> HIDE DEF op, rest
<1>4. CASE op.verb = "order"
  <2> DEFINE p == [rest EXCEPT !.phase = "ordering", !.verb = "order"]
  <2>1. StartTask(w, op.order) /\ proc' = [proc EXCEPT ![w] = p]
    BY <1>4 DEF Begin, op, rest
  <2>2. p \in Procs /\ p.phase = "ordering" /\ p.verb = "order" /\ p.debt = None /\ p.disposition = None
    BY <1>3 DEF Procs, Phases
  <2> HIDE DEF p
  <2>3. StoreInv' /\ \A v \in Workers \ {w} : task'[v] = task[v]
    BY <1>1, <1>2, <1>4, <2>1, Starting, InvocationFields, ProcOf DEF StartTask
  <2>4. Apart(w) /\ proc'[w] = p
    BY <1>1, <2>1, <2>3, StaysApart
  <2>5. Shape(w)' /\ Owed(w)' /\ Phase(w)' \notin {"publishing", "unknown"}
    BY <1>1, <2>2, <2>4, SettlementFacts DEF Shape, Owed, Phase, Settles, Doing, Seated, Outside
  <2> QED
    BY <1>1, <2>1, <2>2, <2>3, <2>4, <2>5, QuietMoves DEF Types
<1>5. CASE op.verb # "order"
  <2> DEFINE p == [rest EXCEPT !.phase = FirstPhase(op), !.verb = op.verb, !.contract = op.contract,
                               !.debt = op.debt, !.attempt = 1]
  <2>1. UNCHANGED task /\ proc' = [proc EXCEPT ![w] = p]
    BY <1>5 DEF Begin, op, rest
  <2>2. /\ op.verb \in ContractVerbs /\ op.contract \in Contracts
        /\ op.debt \in DebtIds \cup {None} /\ (op.verb # "bind" => op.debt = None)
    BY <1>2, <1>5, InvocationFields
  <2>3. \/ op.verb = "bind" /\ op.debt = None /\ FirstPhase(op) = "waiting"
        \/ op.verb = "bind" /\ op.debt \in DebtIds /\ FirstPhase(op) = "fencing"
        \/ op.verb = "accept" /\ FirstPhase(op) = "waiting"
        \/ op.verb \in {"abandon", "settle"} /\ FirstPhase(op) = "hinting"
    BY <2>2, SettlementFacts DEF FirstPhase, ContractVerbs
  <2>4. /\ p \in Procs /\ p.phase = FirstPhase(op) /\ p.verb = op.verb /\ p.contract = op.contract /\ p.debt = op.debt
        /\ p.disposition = None
    BY <1>3, <2>2, <2>3 DEF Procs, Phases
  <2> HIDE DEF p
  <2>5. Apart(w) /\ proc'[w] = p /\ StoreInv'
    BY <1>1, <2>1, StaysApart, StoreRests, ProcOf DEF StoreInv, StoreTypes
  <2>6. Shape(w)' /\ Owed(w)' /\ Phase(w)' \notin {"publishing", "unknown"}
    BY <1>1, <2>1, <2>2, <2>3, <2>4, <2>5, SettlementFacts DEF Shape, Owed, Phase, Settles, Doing, Seated, Outside
  <2> QED
    BY <1>1, <2>1, <2>4, <2>5, <2>6, QuietMoves DEF Types
<1> QED
  BY <1>1, <1>4, <1>5

(* The held debt of a contract is the only one that it holds.                *)
LEMMA HeldDebtHeld ==
    ASSUME Inv, NEW c \in Contracts
    PROVE  /\ HeldDebt(c) \in DebtIds \cup {None}
           /\ HeldDebt(c) # None => Holds(c, HeldDebt(c))
           /\ \A d \in DebtIds : Holds(c, d) <=> HeldDebt(c) = d
           /\ Applicable(c) = (IF standing[c] = "claimed" THEN HeldDebt(c) ELSE None)
<1>1. Holdings
  BY DEF Inv
<1> QED
  BY <1>1, SettlementFacts DEF HeldDebt, Applicable, Holds, Holdings

(* A process that ends from outside its fence, or that has none.             *)
LEMMA EndingKeeps ==
    ASSUME Inv, StoreInv', NEW w \in Workers, NEW q \in Procs, NEW r \in Answers, proc' = [proc EXCEPT ![w] = Ended(q, r)],
           Phase(w) \in Outside, Doing(w, "idle"), UNCHANGED <<task, rootVars, seat, fence, orphans, paid>>
    PROVE  Inv'
<1>1. Over(Ended(q, r))
  BY EndedProc DEF Over
<1>2. seat # w /\ (\A d \in DebtIds : fence[d] # w) /\ Apart(w) /\ Types
  BY HasNoLocks, StaysApart, ProcOf
<1> QED
  BY <1>1, <1>2, OverKeeps DEF Types, Doing

LEMMA OrderedKeeps ==
    ASSUME Inv, NEW w \in Workers, Ordered(w)
    PROVE  Inv' /\ UNCHANGED <<rootVars, paid>>
<1>1. task[w].result \in Answers
  BY ProcOf DEF Tasks, Answers
<1>2. StoreInv'
  BY ProcOf, StoreRests DEF Ordered, storeVars, StoreInv, StoreTypes
<1>3. proc[w] \in Procs /\ proc' = [proc EXCEPT ![w] = Ended(proc[w], task[w].result)]
  BY ProcOf DEF Ordered
<1> QED
  BY <1>1, <1>2, <1>3, EndingKeeps DEF Ordered, Outside, storeVars

(* A working process whose task is idle moves to another phase under the     *)
(* same locks, or takes a fence or the seat.                                 *)
LEMMA WorksOn ==
    ASSUME Inv, StoreInv', NEW w \in Workers, NEW p \in Procs, proc' = [proc EXCEPT ![w] = p], Apart(w),
           UNCHANGED <<rootVars, orphans, paid>>,
           seat' \in Workers \cup {None}, fence' \in [DebtIds -> Workers \cup {None}],
           Shape(w)', Owed(w)', Phase(w)' \in {"publishing", "unknown"} => Current(p.offer)
    PROVE  Inv'
<1>1. Current(p.offer) => Current(p.offer)'
  BY DEF Current, Holds, rootVars
<1> QED
  BY <1>1, QuietMoves, ProcOf DEF Types

LEMMA HintKeeps ==
    ASSUME Inv, NEW w \in Workers, Hint(w)
    PROVE  Inv' /\ UNCHANGED <<rootVars, paid>>
<1> DEFINE c == proc[w].contract
           d == IF proc[w].verb = "abandon" THEN HeldDebt(c) ELSE Applicable(c)
<1>1. /\ proc[w] \in Procs /\ Phase(w) = "hinting" /\ Shape(w) /\ Types /\ proc \in [Workers -> Procs]
      /\ UNCHANGED <<storeVars, rootVars, seat, fence, orphans, paid>> /\ c \in Contracts
      /\ seat # w /\ (\A e \in DebtIds : fence[e] # w) /\ Doing(w, "idle")
      /\ proc[w].verb \in ContractVerbs /\ proc[w].debt = None /\ proc[w].disposition # "released"
  BY ProcOf, HasNoLocks DEF Hint, Outside, Shape
<1>2. StoreInv'
  BY <1>1, ProcOf, StoreRests DEF storeVars, StoreInv, StoreTypes
<1>3. /\ d \in DebtIds \cup {None}
      /\ proc[w].verb # "abandon" /\ d # None => standing[c] = "claimed" /\ \A e \in DebtIds : Holds(c, e) => e = d
  BY <1>1, HeldDebtHeld
<1>4. CASE d # None
  <2> HIDE DEF d
  <2> DEFINE p == [proc[w] EXCEPT !.phase = "fencing", !.debt = d]
  <2>1. proc' = [proc EXCEPT ![w] = p]
    BY <1>1, <1>4 DEF Hint, d
  <2>2. p \in Procs /\ p.phase = "fencing" /\ p.debt = d /\ p.verb = proc[w].verb /\ p.contract = c
        /\ p.disposition = proc[w].disposition
    BY <1>1, <1>3 DEF Procs, Phases
  <2>3. Apart(w) /\ proc'[w] = p
    BY <1>1, <2>1, StaysApart DEF storeVars
  <2> HIDE DEF p
  <2>4. proc[w].verb \in {"abandon", "settle"}
    BY <1>1 DEF Shape
  <2>5. Shape(w)'
    BY <1>1, <1>3, <1>4, <2>2, <2>3, <2>4 DEF Shape, Phase, Settles, Doing, Seated, Outside, storeVars
  <2>6. Owed(w)' /\ Phase(w)' \notin {"publishing", "unknown"}
    BY <1>1, <1>3, <1>4, <2>2, <2>3 DEF Owed, Phase, Settles, Holds, rootVars
  <2> QED
    BY <1>1, <1>2, <2>1, <2>2, <2>3, <2>5, <2>6, WorksOn DEF Types
<1>5. CASE d = None /\ proc[w].verb = "abandon"
  <2> DEFINE p == [proc[w] EXCEPT !.phase = "waiting"]
  <2>1. proc' = [proc EXCEPT ![w] = p]
    BY <1>1, <1>5 DEF Hint, Goto
  <2>2. p \in Procs /\ p.phase = "waiting" /\ p.debt = None /\ p.verb = "abandon" /\ p.contract = c
        /\ p.disposition # "released"
    BY <1>1, <1>5 DEF Procs, Phases
  <2>3. Apart(w) /\ proc'[w] = p
    BY <1>1, <2>1, StaysApart DEF storeVars
  <2> HIDE DEF p, d
  <2>4. Shape(w)' /\ Owed(w)' /\ Phase(w)' \notin {"publishing", "unknown"}
    BY <1>1, <2>2, <2>3, SettlementFacts DEF Shape, Owed, Phase, Settles, Doing, Seated, Outside, storeVars
  <2> QED
    BY <1>1, <1>2, <2>1, <2>2, <2>3, <2>4, WorksOn DEF Types
<1>6. CASE d = None /\ proc[w].verb # "abandon"
  <2>1. proc' = [proc EXCEPT ![w] = Ended(proc[w], "inert")] /\ "inert" \in Answers
    BY <1>1, <1>6 DEF Hint, Answers
  <2> QED
    BY <1>1, <1>2, <2>1, EndingKeeps DEF Outside, storeVars
<1> QED
  BY <1>1, <1>4, <1>5, <1>6

LEMMA StoreQuiet ==
    ASSUME Inv, UNCHANGED storeVars \/ (Fault /\ StoreStill)
    PROVE  StoreInv' /\ task' = task /\ \A w \in Workers : Doing(w, "idle")' <=> Doing(w, "idle")
<1>1. StoreTypes
  BY DEF Inv, StoreInv
<1>2. StoreInv'
  BY <1>1, FewerFaults, StoreRests DEF Inv, Fault, StoreStill, storeVars, StoreTypes
<1> QED
  BY <1>2 DEF StoreStill, storeVars, Doing

LEMMA GotoProc ==
    ASSUME Inv, NEW w \in Workers, NEW phase \in Phases, Goto(w, phase)
    PROVE  \E p \in Procs : /\ proc' = [proc EXCEPT ![w] = p] /\ proc'[w] = p /\ p.phase = phase
                            /\ p.verb = proc[w].verb /\ p.contract = proc[w].contract /\ p.debt = proc[w].debt
                            /\ p.disposition = proc[w].disposition /\ p.offer = proc[w].offer
                            /\ p.lag = proc[w].lag /\ p.result = proc[w].result
<1> DEFINE p == [proc[w] EXCEPT !.phase = phase]
<1>1. proc[w] \in Procs /\ proc \in [Workers -> Procs]
  BY ProcOf
<1>2. proc' = [proc EXCEPT ![w] = p] /\ p \in Procs
  BY <1>1 DEF Goto, Procs
<1> QED
  BY <1>1, <1>2 DEF Procs

LEMMA AcquireFenceKeeps ==
    ASSUME Inv, NEW w \in Workers, AcquireFence(w)
    PROVE  Inv' /\ UNCHANGED <<rootVars, paid>>
<1> DEFINE d == proc[w].debt
           phase == IF proc[w].verb = "settle" THEN "confirming" ELSE "waiting"
<1>1. /\ proc[w] \in Procs /\ Phase(w) = "fencing" /\ Shape(w) /\ Owed(w) /\ Types /\ d \in DebtIds
      /\ fence[d] = None /\ fence' = [fence EXCEPT ![d] = w] /\ Goto(w, phase)
      /\ UNCHANGED <<storeVars, rootVars, seat, orphans, paid>>
  BY ProcOf DEF AcquireFence, Shape
<1>2. StoreInv' /\ task' = task /\ Doing(w, "idle")'
  BY <1>1, StoreQuiet DEF Shape
<1>3. PICK p \in Procs : /\ proc' = [proc EXCEPT ![w] = p] /\ proc'[w] = p /\ p.phase = phase
                         /\ p.verb = proc[w].verb /\ p.contract = proc[w].contract /\ p.debt = d
                         /\ p.disposition = proc[w].disposition
  <2>1. phase \in Phases
    BY DEF Phases
  <2> QED
    BY <1>1, <2>1, GotoProc
<1>4. Apart(w) /\ fence' \in [DebtIds -> Workers \cup {None}]
  BY <1>1, <1>2, <1>3, StaysApart DEF Types
<1>5. Shape(w)'
  <2>1. \A e \in DebtIds : fence'[e] = w <=> e = d
    BY <1>1, HasNoLocks DEF Types, Outside
  <2> QED
    BY <1>1, <1>2, <1>3, <2>1, SettlementFacts DEF Shape, Phase, Settles, Doing, Seated, Outside
<1>6. Owed(w)' /\ Phase(w)' \notin {"publishing", "unknown"}
  <2>1. CASE Settles(w)
    BY <1>1, <1>2, <1>3, <2>1 DEF Owed, Phase, Settles, Holds, rootVars, Shape
  <2>2. CASE ~Settles(w)
    BY <1>3, <2>2 DEF Owed, Phase, Settles
  <2> QED
    BY <2>1, <2>2
<1> QED
  BY <1>1, <1>2, <1>3, <1>4, <1>5, <1>6, WorksOn DEF Types

LEMMA ObservationFailsKeeps ==
    ASSUME Inv, NEW w \in Workers, ObservationFails(w)
    PROVE  Inv' /\ UNCHANGED <<rootVars, paid>>
<1>1. /\ proc[w] \in Procs /\ Shape(w) /\ Phase(w) \in {"hinting", "fencing"} /\ Fault /\ StoreStill
      /\ UNCHANGED <<rootVars, seat, fence, orphans, paid>>
  BY ProcOf DEF ObservationFails
<1>2. StoreInv' /\ task' = task /\ Doing(w, "idle")
  BY <1>1, StoreQuiet DEF Shape
<1>3. \E q \in Procs, r \in Answers : proc' = [proc EXCEPT ![w] = Ended(q, r)]
  <2>1. [proc[w] EXCEPT !.lag = TRUE] \in Procs /\ "lagging" \in Answers /\ "thrown" \in Answers
    BY <1>1 DEF Procs, Answers, Results
  <2>2. \/ proc' = [proc EXCEPT ![w] = Ended([proc[w] EXCEPT !.lag = TRUE], "lagging")]
        \/ proc' = [proc EXCEPT ![w] = Ended(proc[w], "thrown")]
    BY ProcOf DEF ObservationFails
  <2> QED
    BY <1>1, <2>1, <2>2
<1> QED
  BY <1>1, <1>2, <1>3, EndingKeeps DEF Outside

(* Leaving with what the process has, or with a lag.                         *)
LEMMA LeaveKeeps ==
    ASSUME Inv, NEW w \in Workers, Phase(w) \notin {"idle", "ordering", "hinting", "fencing", "unfencing"},
           UNCHANGED storeVars \/ (Fault /\ StoreStill), UNCHANGED <<rootVars, fence, orphans, paid>>,
           seat' = (IF seat = w THEN None ELSE seat), Doing(w, "idle"), NEW r \in Answers,
           \/ /\ proc' = [proc EXCEPT ![w] = Leaving(proc[w], r)]
              /\ Settles(w) => \/ proc[w].lag
                               \/ r = "thrown"
                               \/ r \notin {"retry", "crashed"} /\ ~Holds(proc[w].contract, proc[w].debt)
           \/ proc' = [proc EXCEPT ![w] = Leaving([proc[w] EXCEPT !.lag = TRUE], r)]
           \/ proc' = [proc EXCEPT ![w] = Leaving([proc[w] EXCEPT !.disposition = "held", !.lag = TRUE], r)]
    PROVE  Inv'
<1>1. proc[w] \in Procs /\ Shape(w) /\ Owed(w) /\ StoreInv' /\ task' = task
  BY ProcOf, StoreQuiet
<1>2. proc[w].disposition = "released" => Settles(w) /\ holder[proc[w].debt] = ReleasedBy(proc[w].contract)
  BY <1>1 DEF Shape, Owed
<1>3. CASE proc' = [proc EXCEPT ![w] = Leaving(proc[w], r)]
           /\ (Settles(w) => \/ proc[w].lag
                             \/ r = "thrown"
                             \/ r \notin {"retry", "crashed"} /\ ~Holds(proc[w].contract, proc[w].debt))
  <2> DEFINE q == proc[w]
  <2>1. q \in Procs /\ q.contract = proc[w].contract /\ q.debt = proc[w].debt /\ q.verb = proc[w].verb
    BY <1>1
  <2> QED
    BY <1>1, <1>2, <1>3, LeavingKeeps
<1>4. ASSUME NEW q \in Procs, proc' = [proc EXCEPT ![w] = Leaving(q, r)], q.lag = TRUE,
             q.contract = proc[w].contract, q.debt = proc[w].debt, q.verb = proc[w].verb,
             q.disposition \in {proc[w].disposition, "held"}
      PROVE  Inv'
  BY <1>1, <1>2, <1>4, LeavingKeeps
<1>5. CASE proc' = [proc EXCEPT ![w] = Leaving([proc[w] EXCEPT !.lag = TRUE], r)]
  <2> DEFINE q == [proc[w] EXCEPT !.lag = TRUE]
  <2>1. q \in Procs /\ q.lag = TRUE /\ q.contract = proc[w].contract /\ q.debt = proc[w].debt
        /\ q.verb = proc[w].verb /\ q.disposition = proc[w].disposition
    BY <1>1 DEF Procs
  <2> HIDE DEF q
  <2> QED
    BY <1>4, <1>5, <2>1 DEF q
<1>6. CASE proc' = [proc EXCEPT ![w] = Leaving([proc[w] EXCEPT !.disposition = "held", !.lag = TRUE], r)]
  <2> DEFINE q == [proc[w] EXCEPT !.disposition = "held", !.lag = TRUE]
  <2>1. q \in Procs /\ q.lag = TRUE /\ q.contract = proc[w].contract /\ q.debt = proc[w].debt
        /\ q.verb = proc[w].verb /\ q.disposition = "held"
    BY <1>1 DEF Procs
  <2> HIDE DEF q
  <2> QED
    BY <1>4, <1>6, <2>1 DEF q
<1> QED
  BY <1>3, <1>5, <1>6

(* A settlement under its fence that does not find its contract's debt held  *)
(* has nothing to settle.                                                    *)
LEMMA NotApplicable ==
    ASSUME Inv, NEW w \in Workers, Settles(w), Phase(w) # "hinting"
    PROVE  /\ proc[w].contract \in Contracts /\ proc[w].debt \in DebtIds
           /\ Applicable(proc[w].contract) = proc[w].debt <=> Holds(proc[w].contract, proc[w].debt)
<1>1. Shape(w) /\ Owed(w)
  BY ProcOf
<1>2. Phase(w) \notin {"idle", "ordering"}
  BY <1>1, SettlementFacts DEF Shape, Settles, ContractVerbs
<1> QED
  BY <1>1, <1>2, HeldDebtHeld DEF Shape, Owed

LEMMA ConfirmKeeps ==
    ASSUME Inv, NEW w \in Workers, Confirm(w)
    PROVE  Inv' /\ UNCHANGED <<rootVars, paid>>
<1>1. /\ proc[w] \in Procs /\ Phase(w) = "confirming" /\ Shape(w) /\ Owed(w) /\ Types /\ Settles(w)
      /\ UNCHANGED <<storeVars, rootVars, seat, fence, orphans, paid>> /\ Doing(w, "idle") /\ seat # w
      /\ Applicable(proc[w].contract) = proc[w].debt <=> Holds(proc[w].contract, proc[w].debt)
  BY ProcOf, NotApplicable DEF Confirm, Shape, Seated
<1>2. StoreInv' /\ task' = task /\ Doing(w, "idle")'
  BY <1>1, StoreQuiet
<1>3. CASE Holds(proc[w].contract, proc[w].debt)
  <2>1. PICK p \in Procs : /\ proc' = [proc EXCEPT ![w] = p] /\ proc'[w] = p /\ p.phase = "paying"
                           /\ p.verb = proc[w].verb /\ p.contract = proc[w].contract /\ p.debt = proc[w].debt
                           /\ p.disposition = proc[w].disposition
    <3>1. "paying" \in Phases /\ Goto(w, "paying")
      BY <1>1, <1>3 DEF Phases, Confirm
    <3> QED
      BY <3>1, GotoProc
  <2>2. Shape(w)'
    BY <1>1, <1>2, <2>1, SettlementFacts DEF Shape, Phase, Settles, Doing, Seated, Outside
  <2>3. Owed(w)' /\ Phase(w)' \notin {"publishing", "unknown"}
    BY <1>1, <1>3, <2>1 DEF Owed, Phase, Settles, Holds, rootVars, Shape
  <2> QED
    BY <1>1, <1>2, <2>1, <2>2, <2>3, WorksOn, StaysApart DEF Types
<1>4. CASE ~Holds(proc[w].contract, proc[w].debt)
  <2>1. proc' = [proc EXCEPT ![w] = Leaving(proc[w], "inert")] /\ "inert" \in Answers
    BY <1>1, <1>4, ProcOf DEF Confirm, Leave, Answers
  <2> QED
    BY <1>1, <1>4, <2>1, LeaveKeeps
<1> QED
  BY <1>1, <1>3, <1>4

LEMMA ConfirmFailsKeeps ==
    ASSUME Inv, NEW w \in Workers, ConfirmFails(w)
    PROVE  Inv' /\ UNCHANGED <<rootVars, paid>>
<1>1. /\ Phase(w) \in {"confirming", "paying"} /\ Shape(w) /\ Fault /\ StoreStill
      /\ UNCHANGED <<rootVars, seat, fence, orphans, paid>> /\ Doing(w, "idle") /\ seat # w
  BY ProcOf DEF ConfirmFails, Shape, Seated
<1>2. proc' = [proc EXCEPT ![w] = Leaving([proc[w] EXCEPT !.lag = TRUE], "lagging")] /\ "lagging" \in Answers
  BY ProcOf DEF ConfirmFails, Lagging, Answers
<1> QED
  BY <1>1, <1>2, LeaveKeeps

LEMMA PayKeeps ==
    ASSUME Inv, NEW w \in Workers, Pay(w)
    PROVE  Inv' /\ UNCHANGED <<rootVars, paid>>
<1> DEFINE d == proc[w].debt
           o == [verb |-> "settle", ids |-> <<d>>]
<1>1. /\ proc[w] \in Procs /\ Phase(w) = "paying" /\ Shape(w) /\ Owed(w) /\ Types /\ Settles(w) /\ d \in DebtIds
      /\ UNCHANGED <<debts, author, custody, budget, rootVars, seat, fence, orphans, paid>> /\ Doing(w, "idle")
      /\ StartTask(w, o) /\ Goto(w, "settling")
  BY ProcOf DEF Pay, Shape
<1>2. o \in Orders
  BY <1>1 DEF Orders, Single
<1> HIDE DEF o
<1>3. StoreInv' /\ task'[w].order = o /\ task'[w].phase \in {"locking", "listing"}
  BY <1>1, <1>2, Starting, ProcOf
<1>4. PICK p \in Procs : /\ proc' = [proc EXCEPT ![w] = p] /\ proc'[w] = p /\ p.phase = "settling"
                         /\ p.verb = proc[w].verb /\ p.contract = proc[w].contract /\ p.debt = d
                         /\ p.disposition = proc[w].disposition
  <2>1. "settling" \in Phases
    BY DEF Phases
  <2> QED
    BY <1>1, <2>1, GotoProc
<1>5. Apart(w)
  <2>1. \A v \in Workers \ {w} : task'[v] = task[v]
    BY <1>1, ProcOf DEF StartTask
  <2> QED
    BY <1>1, <1>4, <2>1, StaysApart
<1>6. Shape(w)'
  BY <1>1, <1>3, <1>4, SettlementFacts DEF Shape, Phase, Settles, Doing, Seated, Outside
<1>7. Owed(w)' /\ Phase(w)' \notin {"publishing", "unknown"}
  <2>1. o = [verb |-> "settle", ids |-> <<d>>]
    BY DEF o
  <2> QED
    BY <1>1, <1>3, <1>4, <2>1 DEF Owed, Phase, Settles, Holds, rootVars, Shape
<1> QED
  BY <1>1, <1>3, <1>4, <1>5, <1>6, <1>7, WorksOn DEF Types

LEMMA PaidKeeps ==
    ASSUME Inv, NEW w \in Workers, Paid(w)
    PROVE  Inv' /\ UNCHANGED <<rootVars, paid>>
<1>1. /\ proc[w] \in Procs /\ Phase(w) = "settling" /\ Shape(w) /\ Owed(w) /\ Types /\ Settles(w)
      /\ UNCHANGED <<storeVars, rootVars, seat, fence, orphans, paid>> /\ Doing(w, "idle") /\ seat # w
      /\ task[w].result \in Results \cup {None}
  BY ProcOf DEF Paid, Shape, Seated, Tasks
<1>2. StoreInv' /\ task' = task /\ Doing(w, "idle")'
  BY <1>1, StoreQuiet
<1>3. CASE task[w].result \in {"changed", "unchanged"}
  <2>1. PICK p \in Procs : /\ proc' = [proc EXCEPT ![w] = p] /\ proc'[w] = p /\ p.phase = "waiting"
                           /\ p.verb = proc[w].verb /\ p.contract = proc[w].contract /\ p.debt = proc[w].debt
                           /\ p.disposition = proc[w].disposition
    <3>1. "waiting" \in Phases /\ Goto(w, "waiting")
      BY <1>1, <1>3 DEF Phases, Paid
    <3> QED
      BY <3>1, GotoProc
  <2>2. Shape(w)'
    BY <1>1, <1>2, <2>1, SettlementFacts DEF Shape, Phase, Settles, Doing, Seated, Outside
  <2>3. Owed(w)' /\ Phase(w)' \notin {"publishing", "unknown"}
    BY <1>1, <1>3, <2>1 DEF Owed, Phase, Settles, Holds, rootVars, Shape, Doing
  <2> QED
    BY <1>1, <1>2, <2>1, <2>2, <2>3, WorksOn, StaysApart DEF Types
<1>4. CASE task[w].result \in {"thrown", "corrupt"}
  <2>1. proc' = [proc EXCEPT ![w] = Leaving(proc[w], "thrown")] /\ "thrown" \in Answers
    BY <1>1, <1>4, ProcOf DEF Paid, Answers, Results
  <2> QED
    BY <1>1, <2>1, LeaveKeeps
<1>5. CASE task[w].result \notin {"changed", "unchanged", "thrown", "corrupt"}
  <2>1. proc' = [proc EXCEPT ![w] = Leaving([proc[w] EXCEPT !.lag = TRUE], "lagging")] /\ "lagging" \in Answers
    BY <1>1, <1>5, ProcOf DEF Paid, Lagging, Answers
  <2> QED
    BY <1>1, <2>1, LeaveKeeps
<1> QED
  BY <1>1, <1>3, <1>4, <1>5

LEMMA StoreStepKeeps ==
    ASSUME Inv, NEW w \in Workers, StoreStep(w)
    PROVE  Inv'
<1>1. /\ proc[w] \in Procs /\ Shape(w) /\ Owed(w) /\ Types /\ proc \in [Workers -> Procs]
      /\ UNCHANGED <<rootVars, seat, fence, proc, orphans>>
  BY ProcOf DEF StoreStep
<1>2. StoreInv' /\ Progress(w)
  BY TaskStepKeeps, ProcOf DEF StoreStep
<1>3. Phase(w) \in {"ordering", "settling"} /\ Apart(w)
  BY <1>1, <1>2 DEF Shape, Progress, Apart
<1>4. /\ paid \subseteq paid' /\ paid' \subseteq Contracts \X DebtIds
      /\ PaysNow(w) => <<proc[w].contract, proc[w].debt>> \in paid'
  BY <1>1 DEF StoreStep, Types, PaysNow, Shape
<1>5. Shape(w)'
  BY <1>1, <1>3 DEF Shape, Phase, Settles, Doing
<1>6. Owed(w)'
  <2>1. CASE Settles(w) /\ Phase(w) = "settling"
    <3>1. Complete(w)' => <<proc[w].contract, proc[w].debt>> \in paid'
      BY <1>1, <1>2, <1>4, <2>1 DEF Progress, Complete, Owed, PaysNow, Settles, Doing
    <3> QED
      BY <1>1, <1>2, <1>4, <2>1, <3>1 DEF Owed, Settles, Phase, Holds, rootVars, Progress, Complete
  <2>2. CASE Phase(w) = "ordering"
    BY <1>1, <2>2, SettlementFacts DEF Owed, Settles, Phase, Shape
  <2> QED
    BY <1>1, <1>3, <2>1, <2>2 DEF Shape
<1>7. proc' = [proc EXCEPT ![w] = proc[w]] /\ Phase(w)' \notin {"publishing", "unknown"}
  BY <1>1, <1>3 DEF Phase
<1> QED
  BY <1>1, <1>2, <1>3, <1>4, <1>5, <1>6, <1>7, QuietMoves DEF Types

LEMMA AcquireSeatKeeps ==
    ASSUME Inv, NEW w \in Workers, AcquireSeat(w)
    PROVE  Inv' /\ UNCHANGED <<rootVars, paid>>
<1>1. /\ proc[w] \in Procs /\ Phase(w) = "waiting" /\ Shape(w) /\ Owed(w) /\ Types
      /\ UNCHANGED <<storeVars, rootVars, fence, orphans, paid>> /\ Doing(w, "idle")
      /\ seat = None /\ seat' = w /\ Goto(w, "seated")
  BY ProcOf DEF AcquireSeat, Shape
<1>2. StoreInv' /\ task' = task /\ Doing(w, "idle")'
  BY <1>1, StoreQuiet
<1>3. PICK p \in Procs : /\ proc' = [proc EXCEPT ![w] = p] /\ proc'[w] = p /\ p.phase = "seated"
                         /\ p.verb = proc[w].verb /\ p.contract = proc[w].contract /\ p.debt = proc[w].debt
                         /\ p.disposition = proc[w].disposition
  <2>1. "seated" \in Phases
    BY DEF Phases
  <2> QED
    BY <1>1, <2>1, GotoProc
<1>4. Shape(w)'
  BY <1>1, <1>2, <1>3, SettlementFacts DEF Shape, Phase, Settles, Doing, Seated, Outside
<1>5. Owed(w)' /\ Phase(w)' \notin {"publishing", "unknown"}
  BY <1>1, <1>3 DEF Owed, Phase, Settles, Holds, rootVars, Shape
<1> QED
  BY <1>1, <1>2, <1>3, <1>4, <1>5, WorksOn, StaysApart DEF Types

LEMMA SeatTimeoutKeeps ==
    ASSUME Inv, NEW w \in Workers, SeatTimeout(w)
    PROVE  Inv' /\ UNCHANGED <<rootVars, paid>>
<1>1. /\ Phase(w) = "waiting" /\ Shape(w) /\ seat # w
      /\ UNCHANGED <<storeVars, rootVars, seat, fence, orphans, paid>> /\ Doing(w, "idle")
  BY ProcOf DEF SeatTimeout, Shape, Seated
<1>2. \/ Settles(w) /\ proc' = [proc EXCEPT ![w] = Leaving(proc[w], "thrown")]
      \/ ~Settles(w) /\ proc' = [proc EXCEPT ![w] = Leaving(proc[w], "contended")]
  BY ProcOf DEF SeatTimeout, Settles
<1>3. "thrown" \in Answers /\ "contended" \in Answers
  BY DEF Answers, Results
<1> QED
  BY <1>1, <1>2, <1>3, LeaveKeeps

-----------------------------------------------------------------------------
(* Deciding under the seat                                                   *)

LEMMA ClosedProc ==
    ASSUME Inv, NEW w \in Workers, NEW r \in Answers,
           Close(w, r) \/ (r \in {"inert", "held", "released"} /\ CloseWith(w, r))
    PROVE  \E p \in Procs : /\ proc' = [proc EXCEPT ![w] = p] /\ proc'[w] = p /\ p.phase = "closing"
                            /\ p.verb = proc[w].verb /\ p.contract = proc[w].contract /\ p.debt = proc[w].debt
                            /\ p.offer = proc[w].offer /\ p.result = r
                            /\ Close(w, r) => p.disposition = proc[w].disposition
                            /\ CloseWith(w, r) => p.disposition = r /\ (r = "held" => p.lag)
<1>1. proc[w] \in Procs /\ proc \in [Workers -> Procs]
  BY ProcOf
<1>2. ASSUME NEW p \in Procs, proc' = [proc EXCEPT ![w] = p]
      PROVE  /\ proc'[w] = p
             /\ Close(w, r) => p.disposition = proc[w].disposition
             /\ CloseWith(w, r) => p.disposition = r /\ (r = "held" => p.lag)
  <2>1. proc'[w] = p
    BY <1>1, <1>2
  <2>2. ASSUME Close(w, r)
        PROVE  p.disposition = proc[w].disposition
    <3>1. p = [proc[w] EXCEPT !.phase = "closing", !.result = r]
      BY <1>1, <2>1, <2>2 DEF Close
    <3> QED
      BY <1>1, <3>1 DEF Procs
  <2>3. ASSUME CloseWith(w, r)
        PROVE  p.disposition = r /\ (r = "held" => p.lag)
    <3>1. p = [proc[w] EXCEPT !.phase = "closing", !.result = r, !.disposition = r, !.lag = @ \/ r = "held"]
      BY <1>1, <2>1, <2>3 DEF CloseWith
    <3> QED
      BY <1>1, <3>1 DEF Procs
  <2> QED
    BY <2>1, <2>2, <2>3
<1>3. CASE Close(w, r)
  <2> DEFINE p == [proc[w] EXCEPT !.phase = "closing", !.result = r]
  <2>1. proc' = [proc EXCEPT ![w] = p] /\ p \in Procs
    BY <1>1, <1>3 DEF Close, Procs, Phases
  <2>2. /\ p.phase = "closing" /\ p.verb = proc[w].verb /\ p.contract = proc[w].contract /\ p.debt = proc[w].debt
        /\ p.offer = proc[w].offer /\ p.result = r
    BY <1>1 DEF Procs
  <2> HIDE DEF p
  <2> QED
    BY <1>2, <2>1, <2>2
<1>4. CASE r \in {"inert", "held", "released"} /\ CloseWith(w, r)
  <2> DEFINE p == [proc[w] EXCEPT !.phase = "closing", !.result = r, !.disposition = r, !.lag = @ \/ r = "held"]
  <2>1. proc' = [proc EXCEPT ![w] = p]
    BY <1>1, <1>4 DEF CloseWith
  <2>2. (proc[w].lag \/ r = "held") \in BOOLEAN
    BY <1>1, Zenon DEF Procs
  <2>3. p \in Procs
    BY <1>1, <1>4, <2>2 DEF Procs, Phases
  <2>4. /\ p.phase = "closing" /\ p.verb = proc[w].verb /\ p.contract = proc[w].contract /\ p.debt = proc[w].debt
        /\ p.offer = proc[w].offer /\ p.result = r
    BY <1>1 DEF Procs
  <2> HIDE DEF p
  <2> QED
    BY <1>2, <2>1, <2>3, <2>4
<1> QED
  BY <1>3, <1>4

LEMMA ClosingKeeps ==
    ASSUME Inv, NEW w \in Workers, Phase(w) \in {"seated", "publishing", "unknown"},
           UNCHANGED storeVars \/ (Fault /\ StoreStill), UNCHANGED <<rootVars, seat, fence, orphans, paid>>,
           NEW r \in Answers,
           \/ ~Settles(w) /\ Close(w, r)
           \/ /\ Settles(w) /\ CloseWith(w, r) /\ r \in {"inert", "held", "released"}
              /\ r = "inert" => ~Holds(proc[w].contract, proc[w].debt)
              /\ r = "released" => HolderOf(w) = ReleasedBy(proc[w].contract)
    PROVE  Inv'
<1>1. /\ proc[w] \in Procs /\ Shape(w) /\ Owed(w) /\ Types /\ Doing(w, "idle")
      /\ proc[w].contract \in Contracts
  BY ProcOf DEF Shape
<1>2. StoreInv' /\ task' = task /\ Doing(w, "idle")'
  BY <1>1, StoreQuiet
<1>3. PICK p \in Procs : /\ proc' = [proc EXCEPT ![w] = p] /\ proc'[w] = p /\ p.phase = "closing"
                         /\ p.verb = proc[w].verb /\ p.contract = proc[w].contract /\ p.debt = proc[w].debt
                         /\ p.offer = proc[w].offer /\ p.result = r
                         /\ Close(w, r) => p.disposition = proc[w].disposition
                         /\ CloseWith(w, r) => p.disposition = r /\ (r = "held" => p.lag)
  BY ClosedProc
<1>4. Shape(w)'
  <2>1. p.disposition = "released" => Settles(w)
    BY <1>1, <1>3 DEF Shape
  <2> QED
    BY <1>1, <1>2, <1>3, <2>1, SettlementFacts DEF Shape, Phase, Settles, Doing, Seated, Outside
<1>5. Owed(w)' /\ Phase(w)' \notin {"publishing", "unknown"}
  <2>1. CASE ~Settles(w)
    BY <1>3, <2>1 DEF Owed, Phase, Settles
  <2>2. CASE Settles(w)
    <3>1. standing[p.contract] = "claimed" /\ \A e \in DebtIds : Holds(p.contract, e) => e = p.debt
      BY <1>1, <1>3, <2>2 DEF Owed, Phase
    <3>2. p.contract \in Contracts
      BY <1>1, <1>3
    <3>3. p.disposition = "released" => holder[p.debt] = ReleasedBy(p.contract)
      BY <1>1, <1>3, <2>2 DEF Shape, HolderOf
    <3>4. r = "held" \/ ~Holds(p.contract, p.debt)
      BY <1>3, <2>2, <3>2, SettlementFacts DEF HolderOf, Holds
    <3>5. p.lag \/ (r \notin {"retry", "crashed"} /\ ~Holds(p.contract, p.debt))
      BY <1>3, <2>2, <3>4
    <3> QED
      BY <1>3, <2>2, <3>1, <3>3, <3>5 DEF Owed, Phase, Settles, Holds, rootVars
  <2> QED
    BY <1>3, <2>1, <2>2 DEF Phase
<1> QED
  BY <1>1, <1>2, <1>3, <1>4, <1>5, WorksOn, StaysApart DEF Types

(* An offer that was decided on the root as it is.                           *)
LEMMA OfferKeeps ==
    ASSUME Inv, NEW w \in Workers, Phase(w) = "seated", UNCHANGED <<storeVars, rootVars, seat, fence, orphans, paid>>,
           NEW taken \in DebtIds \cup {None}, NEW freed \in DebtIds \cup {None}, Offer(w, taken, freed),
           taken = (IF proc[w].verb = "bind" THEN proc[w].debt ELSE None),
           Settles(w) => freed = proc[w].debt /\ Holds(proc[w].contract, proc[w].debt),
           ~Settles(w) => MayDecide(w),
           proc[w].verb = "abandon" => \A d \in DebtIds : Holds(proc[w].contract, d) <=> freed = d,
           proc[w].verb \in {"bind", "accept"} => freed = None
    PROVE  Inv'
<1> DEFINE o == [seen |-> root, verb |-> proc[w].verb, contract |-> proc[w].contract, taken |-> taken, freed |-> freed]
           p == [proc[w] EXCEPT !.phase = "publishing", !.offer = o]
<1>1. /\ proc[w] \in Procs /\ Shape(w) /\ Owed(w) /\ Types /\ Doing(w, "idle")
      /\ proc[w].contract \in Contracts /\ proc[w].verb \in ContractVerbs
  BY ProcOf DEF Shape
<1>2. o \in Offers
  BY <1>1 DEF Offers, Types
<1>3. /\ o.seen = root /\ o.verb = proc[w].verb /\ o.contract = proc[w].contract /\ o.taken = taken /\ o.freed = freed
  OBVIOUS
<1> HIDE DEF o
<1>4. /\ p \in Procs /\ p.phase = "publishing" /\ p.verb = proc[w].verb /\ p.contract = proc[w].contract
      /\ p.debt = proc[w].debt /\ p.disposition = proc[w].disposition /\ p.offer = o
  BY <1>1, <1>2 DEF Procs, Phases
<1>5. proc' = [proc EXCEPT ![w] = p] /\ proc'[w] = p
  BY ProcOf DEF Offer, o
<1> HIDE DEF p
<1>6. StoreInv' /\ task' = task /\ Doing(w, "idle")'
  BY <1>1, StoreQuiet
<1>7. Current(o)
  <2>1. CASE Settles(w)
    <3>1. <<o.contract, o.freed>> \in paid /\ standing[o.contract] = "claimed" /\ o.freed \in DebtIds
      BY <1>1, <1>3, <2>1 DEF Owed, Shape
    <3> QED
      BY <1>1, <1>3, <2>1, <3>1 DEF Current, Settles, Types
  <2>2. CASE ~Settles(w)
    BY <1>1, <1>3, <2>2, SettlementFacts DEF Current, Settles, MayDecide, Types
  <2> QED
    BY <2>1, <2>2
<1>8. Shape(w)'
  BY <1>1, <1>2, <1>3, <1>4, <1>5, <1>6, SettlementFacts DEF Shape, Phase, Settles, Doing, Seated, Outside
<1>9. Owed(w)'
  BY <1>1, <1>4, <1>5 DEF Owed, Phase, Settles, Holds, rootVars, Shape
<1> QED
  BY <1>1, <1>4, <1>5, <1>6, <1>7, <1>8, <1>9, WorksOn, StaysApart DEF Types

LEMMA DecideAdmissionKeeps ==
    ASSUME Inv, NEW w \in Workers, DecideAdmission(w)
    PROVE  Inv' /\ UNCHANGED <<rootVars, paid>>
<1>1. /\ proc[w] \in Procs /\ Phase(w) = "seated" /\ ~Settles(w) /\ Shape(w)
      /\ UNCHANGED <<storeVars, rootVars, seat, fence, orphans, paid>>
      /\ proc[w].contract \in Contracts /\ proc[w].debt \in DebtIds \cup {None}
  BY ProcOf DEF DecideAdmission, Settles, Shape, Procs
<1>2. CASE ~MayDecide(w)
  <2>1. Close(w, "refused") /\ "refused" \in Answers
    BY <1>2 DEF DecideAdmission, Answers, Results
  <2> QED
    BY <1>1, <2>1, ClosingKeeps
<1>3. CASE MayDecide(w)
  <2> DEFINE taken == IF proc[w].verb = "bind" THEN proc[w].debt ELSE None
             freed == IF proc[w].verb = "abandon" THEN HeldDebt(proc[w].contract) ELSE None
  <2>1. Offer(w, taken, freed)
    BY <1>3 DEF DecideAdmission
  <2>2. /\ taken \in DebtIds \cup {None} /\ freed \in DebtIds \cup {None}
        /\ proc[w].verb = "abandon" => \A d \in DebtIds : Holds(proc[w].contract, d) <=> freed = d
        /\ proc[w].verb \in {"bind", "accept"} => freed = None
    BY <1>1, HeldDebtHeld
  <2>3. taken = (IF proc[w].verb = "bind" THEN proc[w].debt ELSE None)
    OBVIOUS
  <2> HIDE DEF taken, freed
  <2> QED
    BY <1>1, <1>3, <2>1, <2>2, <2>3, OfferKeeps
<1> QED
  BY <1>1, <1>2, <1>3

LEMMA DecideReleaseKeeps ==
    ASSUME Inv, NEW w \in Workers, DecideRelease(w)
    PROVE  Inv' /\ UNCHANGED <<rootVars, paid>>
<1>1. /\ proc[w] \in Procs /\ Phase(w) = "seated" /\ Settles(w) /\ Shape(w) /\ proc[w].debt \in DebtIds
      /\ UNCHANGED <<storeVars, rootVars, seat, fence, orphans, paid>>
      /\ Applicable(proc[w].contract) = proc[w].debt <=> Holds(proc[w].contract, proc[w].debt)
  BY ProcOf, NotApplicable DEF DecideRelease, Settles
<1>2. CASE ~Holds(proc[w].contract, proc[w].debt)
  <2>1. CloseWith(w, "inert") /\ "inert" \in Answers
    BY <1>1, <1>2 DEF DecideRelease, Answers
  <2> QED
    BY <1>1, <1>2, <2>1, ClosingKeeps
<1>3. CASE Holds(proc[w].contract, proc[w].debt)
  <2>1. Offer(w, None, proc[w].debt)
    BY <1>1, <1>3 DEF DecideRelease
  <2> QED
    BY <1>1, <1>3, <2>1, OfferKeeps, SettlementFacts DEF Settles
<1> QED
  BY <1>1, <1>2, <1>3

LEMMA NotSettledKeeps ==
    ASSUME Inv, NEW w \in Workers, Phase(w) \in {"publishing", "unknown"}, NotSettled(w),
           UNCHANGED <<storeVars, rootVars, seat, fence, orphans, paid>>
    PROVE  Inv'
<1>1. \/ Settles(w) /\ CloseWith(w, "held")
      \/ ~Settles(w) /\ Close(w, "retry")
  BY DEF NotSettled, Settles
<1>2. "held" \in Answers /\ "retry" \in Answers
  BY DEF Answers, Results
<1> QED
  BY <1>1, <1>2, ClosingKeeps

LEMMA RecoverKeeps ==
    ASSUME Inv, NEW w \in Workers, Recover(w)
    PROVE  Inv' /\ UNCHANGED <<rootVars, paid>>
<1>1. Phase(w) = "unknown" /\ Shape(w) /\ UNCHANGED <<storeVars, rootVars, seat, fence, orphans, paid>>
  BY ProcOf DEF Recover
<1>2. CASE ~ShowsTransaction(proc[w].offer)
  BY <1>1, <1>2, NotSettledKeeps DEF Recover
<1>3. CASE ShowsTransaction(proc[w].offer)
  <2>1. Settles(w) => HolderOf(w) = ReleasedBy(proc[w].contract)
    BY <1>1, <1>3 DEF ShowsTransaction, Shape, Settles, HolderOf
  <2>2. \/ Settles(w) /\ CloseWith(w, "released")
        \/ ~Settles(w) /\ Close(w, "accepted")
    BY <1>3 DEF Recover, Settled, Settles
  <2>3. "released" \in Answers /\ "accepted" \in Answers
    BY DEF Answers, Results
  <2> QED
    BY <1>1, <2>1, <2>2, <2>3, ClosingKeeps
<1> QED
  BY <1>1, <1>2, <1>3

LEMMA RecoverFailsKeeps ==
    ASSUME Inv, NEW w \in Workers, RecoverFails(w)
    PROVE  Inv' /\ UNCHANGED <<rootVars, paid>>
<1>1. /\ Phase(w) = "unknown" /\ Fault /\ StoreStill /\ UNCHANGED <<rootVars, seat, fence, orphans, paid>>
      /\ \/ Settles(w) /\ CloseWith(w, "held")
         \/ ~Settles(w) /\ Close(w, "thrown")
  BY DEF RecoverFails, Settles
<1>2. "held" \in Answers /\ "thrown" \in Answers
  BY DEF Answers, Results
<1> QED
  BY <1>1, <1>2, ClosingKeeps

-----------------------------------------------------------------------------
(* Committing an offer                                                       *)

(* What a commit does to the root, when the offer is one that was decided   *)
(* on the root it is compared with: it is a step of DebtOwnership.          *)
LEMMA CommitOwns ==
    ASSUME Types, Holdings, NEW o \in Offers, Current(o), Commit(o), UNCHANGED paid
    PROVE  Ownership!Next
<1> USE DEF Ownership!Held, Ownership!Released, Ownership!Holds, HeldBy, ReleasedBy, Holds
<1>1. /\ o.seen = root /\ o.contract \in Contracts /\ o.verb \in ContractVerbs
      /\ o.taken \in DebtIds \cup {None} /\ o.freed \in DebtIds \cup {None} /\ None \notin DebtIds
      /\ standing' = IF o.verb = "settle" THEN standing ELSE [standing EXCEPT ![o.contract] = After(o)]
      /\ holder' = [d \in DebtIds |-> IF d = o.taken THEN HeldBy(o.contract)
                                      ELSE IF d = o.freed THEN ReleasedBy(o.contract) ELSE holder[d]]
      /\ holder = [d \in DebtIds |-> holder[d]]
  BY SettlementFacts DEF Commit, Premise, Offers, Types
<1>2. CASE o.verb = "bind" /\ o.taken = None
  <2>1. Ownership!Bind(o.contract, {})
    BY <1>1, <1>2 DEF Ownership!Bind, Current, After
  <2> QED
    BY <1>1, <2>1 DEF Ownership!Next
<1>3. CASE o.verb = "bind" /\ o.taken # None
  <2>1. Ownership!Bind(o.contract, {o.taken})
    BY <1>1, <1>3 DEF Ownership!Bind, Current, After
  <2> QED
    BY <1>1, <1>3, <2>1 DEF Ownership!Next
<1>4. CASE o.verb = "accept"
  <2>1. Ownership!Claim(o.contract)
    BY <1>1, <1>4 DEF Ownership!Claim, Current, After
  <2> QED
    BY <1>1, <2>1 DEF Ownership!Next
<1>5. CASE o.verb = "abandon"
  <2>1. \A d \in DebtIds : holder'[d] = IF Ownership!Holds(o.contract, d) THEN Ownership!Released(o.contract) ELSE holder[d]
    BY <1>1, <1>5 DEF Current
  <2>2. holder' = [d \in DebtIds |-> IF Ownership!Holds(o.contract, d) THEN Ownership!Released(o.contract) ELSE holder[d]]
    BY <1>1, <2>1
  <2>3. Ownership!Abandon(o.contract)
    BY <1>1, <1>5, <2>2 DEF Ownership!Abandon, Current, After
  <2> QED
    BY <1>1, <2>3 DEF Ownership!Next
<1>6. CASE o.verb = "settle"
  <2>1. holder' = [holder EXCEPT ![o.freed] = Ownership!Released(o.contract)]
    BY <1>1, <1>6 DEF Current
  <2>2. Ownership!Release(o.contract, o.freed)
    BY <1>1, <1>6, <2>1 DEF Ownership!Release, Current
  <2> QED
    BY <1>1, <1>6, <2>2 DEF Ownership!Next, Current
<1> QED
  BY <1>1, <1>2, <1>3, <1>4, <1>5, <1>6 DEF ContractVerbs

LEMMA CommitRoot ==
    ASSUME Types, Holdings, NEW o \in Offers, Current(o), Commit(o)
    PROVE  /\ root' \in Nat /\ root' = root + 1
           /\ standing' \in [Contracts -> {"none", "active", "claimed", "abandoned"}]
           /\ holder' \in [DebtIds -> [contract : Contracts, disposition : {"held", "released"}] \cup {None}]
           /\ Holdings'
           /\ \A c \in Contracts : standing[c] = "claimed" => standing'[c] = "claimed"
           /\ \A c \in Contracts, d \in DebtIds : standing[c] = "claimed" /\ holder'[d] = HeldBy(c) => Holds(c, d)
           /\ \A c \in Contracts, d \in DebtIds : standing[c] = "claimed" /\ Holds(c, d) /\ d # o.taken =>
                 holder'[d] = HeldBy(c) \/ <<c, d>> \in paid
           /\ \A c \in Contracts, d \in DebtIds :
                 standing[c] = "claimed" /\ holder[d] = ReleasedBy(c) /\ d # o.taken => holder'[d] = ReleasedBy(c)
<1>1. /\ o.seen = root /\ o.contract \in Contracts /\ o.verb \in ContractVerbs
      /\ o.taken \in DebtIds \cup {None} /\ o.freed \in DebtIds \cup {None} /\ None \notin DebtIds
      /\ root' = root + 1 /\ root \in Nat
      /\ standing' = IF o.verb = "settle" THEN standing ELSE [standing EXCEPT ![o.contract] = After(o)]
      /\ standing \in [Contracts -> {"none", "active", "claimed", "abandoned"}]
      /\ holder \in [DebtIds -> [contract : Contracts, disposition : {"held", "released"}] \cup {None}]
      /\ holder' = [d \in DebtIds |-> IF d = o.taken THEN HeldBy(o.contract)
                                      ELSE IF d = o.freed THEN ReleasedBy(o.contract) ELSE holder[d]]
  BY SettlementFacts DEF Commit, Premise, Offers, Types
<1>2. /\ o.verb # "settle" => /\ After(o) = (IF o.verb = "bind" THEN "active"
                                             ELSE IF o.verb = "accept" THEN "claimed" ELSE "abandoned")
                              /\ standing[o.contract] = (IF o.verb = "bind" THEN "none" ELSE "active")
      /\ o.verb \in {"bind", "accept", "abandon", "settle"}
      /\ o.taken # None => o.verb = "bind"
      /\ o.freed # None => o.verb \in {"abandon", "settle"} /\ Holds(o.contract, o.freed)
      /\ o.verb = "settle" => standing[o.contract] = "claimed" /\ <<o.contract, o.freed>> \in paid
      /\ o.verb = "abandon" => \A d \in DebtIds : Holds(o.contract, d) => o.freed = d
  BY <1>1 DEF Current, After, ContractVerbs
<1>3. standing' \in [Contracts -> {"none", "active", "claimed", "abandoned"}]
  BY <1>1, <1>2
<1>4. holder' \in [DebtIds -> [contract : Contracts, disposition : {"held", "released"}] \cup {None}]
  <2>1. HeldBy(o.contract) \in [contract : Contracts, disposition : {"held", "released"}]
        /\ ReleasedBy(o.contract) \in [contract : Contracts, disposition : {"held", "released"}]
    BY <1>1 DEF HeldBy, ReleasedBy
  <2> QED
    BY <1>1, <2>1
<1>5. \A c \in Contracts : /\ c # o.contract \/ o.verb = "settle" => standing'[c] = standing[c]
                           /\ c = o.contract /\ o.verb # "settle" => standing'[c] = After(o)
  BY <1>1
<1>6. ASSUME NEW c \in Contracts, NEW d \in DebtIds
      PROVE  /\ holder'[d] = HeldBy(c) <=> \/ d = o.taken /\ c = o.contract
                                           \/ d # o.taken /\ d # o.freed /\ Holds(c, d)
             /\ holder'[d] = ReleasedBy(c) <=> \/ d # o.taken /\ d = o.freed /\ c = o.contract
                                               \/ d # o.taken /\ d # o.freed /\ holder[d] = ReleasedBy(c)
  <2>1. ReleasedBy(c) = ReleasedBy(o.contract) <=> c = o.contract
    BY DEF ReleasedBy
  <2>2. holder'[d] = IF d = o.taken THEN HeldBy(o.contract) ELSE IF d = o.freed THEN ReleasedBy(o.contract) ELSE holder[d]
    BY <1>1
  <2>3. /\ HeldBy(c) # ReleasedBy(o.contract) /\ ReleasedBy(c) # HeldBy(o.contract)
        /\ HeldBy(c) = HeldBy(o.contract) <=> c = o.contract
    BY <1>1, SettlementFacts
  <2> QED
    BY <2>1, <2>2, <2>3 DEF Holds
<1>7. Holdings'
  <2>1. SUFFICES ASSUME NEW c \in Contracts, NEW d \in DebtIds, holder'[d] = HeldBy(c)
                 PROVE  standing'[c] \in {"active", "claimed"} /\ \A e \in DebtIds : holder'[e] = HeldBy(c) => e = d
    BY DEF Holdings, Holds, HeldBy
  <2>2. CASE c = o.contract
    <3>1. CASE o.verb = "bind"
      <4>1. \A e \in DebtIds : ~Holds(c, e)
        BY <1>2, <2>2, <3>1 DEF Holdings
      <4> QED
        BY <1>2, <1>5, <1>6, <2>1, <2>2, <3>1, <4>1
    <3>2. CASE o.verb = "accept"
      BY <1>1, <1>2, <1>5, <1>6, <2>1, <2>2, <3>2 DEF Holdings
    <3>3. CASE o.verb = "abandon"
      BY <1>1, <1>2, <1>6, <2>1, <2>2, <3>3
    <3>4. CASE o.verb = "settle"
      BY <1>1, <1>2, <1>5, <1>6, <2>1, <2>2, <3>4 DEF Holdings
    <3> QED
      BY <1>2, <3>1, <3>2, <3>3, <3>4
  <2>3. CASE c # o.contract
    BY <1>5, <1>6, <2>1, <2>3 DEF Holdings
  <2> QED
    BY <2>2, <2>3
<1>8. \A c \in Contracts : standing[c] = "claimed" => standing'[c] = "claimed"
  BY <1>2, <1>5
<1>9. ASSUME NEW c \in Contracts, NEW d \in DebtIds, standing[c] = "claimed"
      PROVE  /\ holder'[d] = HeldBy(c) => Holds(c, d)
             /\ Holds(c, d) /\ d # o.taken => holder'[d] = HeldBy(c) \/ <<c, d>> \in paid
             /\ holder[d] = ReleasedBy(c) /\ d # o.taken => holder'[d] = ReleasedBy(c)
  <2>1. d = o.taken => c # o.contract
    BY <1>1, <1>2, <1>9
  <2>2. d = o.freed => Holds(o.contract, d)
    BY <1>1, <1>2
  <2>3. Holds(c, d) /\ Holds(o.contract, d) => c = o.contract
    BY <1>1, SettlementFacts DEF Holds
  <2>4. holder[d] = ReleasedBy(c) => ~Holds(o.contract, d)
    BY <1>1, SettlementFacts DEF Holds
  <2>5. d = o.freed /\ c = o.contract => <<c, d>> \in paid
    BY <1>1, <1>2, <1>9
  <2> QED
    BY <1>6, <2>1, <2>2, <2>3, <2>4, <2>5
<1>10. root' \in Nat /\ root' = root + 1
  BY <1>1
<1> QED
  BY <1>3, <1>4, <1>7, <1>8, <1>9, <1>10

(* The others while an offer is committed: they keep what they rely on.     *)
LEMMA CommitSpares ==
    ASSUME Inv, NEW o \in Offers, Current(o), Commit(o), UNCHANGED paid
    PROVE  /\ \A x \in Offers : Current(x) => Current(x)'
           /\ \A v \in Workers :
                 proc'[v] = proc[v] /\ task'[v] = task[v] /\ (Settles(v) /\ Phase(v) \notin Outside => proc[v].debt # o.taken)
                    => Owed(v)'
<1>1. /\ root' = root + 1 /\ root \in Nat
      /\ \A c \in Contracts : standing[c] = "claimed" => standing'[c] = "claimed"
      /\ \A c \in Contracts, d \in DebtIds : standing[c] = "claimed" /\ holder'[d] = HeldBy(c) => Holds(c, d)
      /\ \A c \in Contracts, d \in DebtIds : standing[c] = "claimed" /\ Holds(c, d) /\ d # o.taken =>
            holder'[d] = HeldBy(c) \/ <<c, d>> \in paid
      /\ \A c \in Contracts, d \in DebtIds :
            standing[c] = "claimed" /\ holder[d] = ReleasedBy(c) /\ d # o.taken => holder'[d] = ReleasedBy(c)
  BY CommitRoot DEF Inv, Types
<1>2. ASSUME NEW x \in Offers, Current(x)
      PROVE  Current(x)'
  <2>1. x.seen <= root /\ x.seen \in Nat /\ x.seen # root'
    BY <1>1, <1>2 DEF Current, Offers
  <2> QED
    BY <1>1, <1>2, <2>1 DEF Current
<1>3. ASSUME NEW v \in Workers, proc'[v] = proc[v], task'[v] = task[v], Settles(v) /\ Phase(v) \notin Outside => proc[v].debt # o.taken
      PROVE  Owed(v)'
  <2>1. CASE Settles(v) /\ Phase(v) # "hinting"
    <3> DEFINE c == proc[v].contract
               d == proc[v].debt
    <3>1. Owed(v) /\ Shape(v) /\ c \in Contracts /\ d \in DebtIds /\ standing[c] = "claimed"
          /\ \A e \in DebtIds : Holds(c, e) => e = d
      BY <2>1, ProcOf, NotApplicable DEF Owed
    <3>2. standing'[c] = "claimed" /\ \A e \in DebtIds : holder'[e] = HeldBy(c) => e = d
      BY <1>1, <3>1
    <3>3. Phase(v) \notin {"idle", "ordering", "fencing"} => d # o.taken
      BY <1>3, <2>1 DEF Outside
    <3>4. Phase(v) \in {"paying", "settling"} => holder'[d] = HeldBy(c) \/ <<c, d>> \in paid
      BY <1>1, <2>1, <3>1, <3>3 DEF Owed
    <3>5. proc[v].disposition = "released" => holder'[d] = ReleasedBy(c)
      <4>1. proc[v].disposition = "released" => Phase(v) \in {"closing", "unfencing"} /\ holder[d] = ReleasedBy(c)
        BY <2>1, <3>1 DEF Shape, Owed
      <4> QED
        BY <1>1, <3>1, <3>3, <4>1
    <3>6. ~Holds(c, d) => holder'[d] # HeldBy(c)
      BY <1>1, <3>1
    <3>7. /\ Phase(v) = "settling" =>
               /\ task[v].order = [verb |-> "settle", ids |-> <<d>>]
               /\ task[v].phase \in {"idle", "unlocking"} /\ task[v].result \in {"changed", "unchanged"}
                     => <<c, d>> \in paid
          /\ Phase(v) \in {"waiting", "seated", "publishing", "unknown"} => <<c, d>> \in paid
          /\ Phase(v) \in {"closing", "unfencing"} =>
               \/ proc[v].lag
               \/ proc[v].result = "thrown"
               \/ proc[v].result \notin {"retry", "crashed"} /\ ~Holds(c, d)
      BY <2>1, <3>1 DEF Owed
    <3>8. /\ proc'[v].contract = c /\ proc'[v].debt = d /\ Phase(v)' = Phase(v) /\ proc'[v].lag = proc[v].lag
          /\ proc'[v].result = proc[v].result /\ proc'[v].disposition = proc[v].disposition /\ paid' = paid
      BY <1>3 DEF Phase
    <3>9. \A a, b : ReleasedBy(a)' = ReleasedBy(a) /\ (Holds(a, b)' <=> holder'[b] = HeldBy(a))
      BY DEF ReleasedBy, Holds, HeldBy
    <3> HIDE DEF c, d
    <3> QED
      BY <1>3, <3>2, <3>4, <3>5, <3>6, <3>7, <3>8, <3>9 DEF Owed
  <2>2. CASE ~(Settles(v) /\ Phase(v) # "hinting")
    BY <1>3, <2>2 DEF Owed, Settles, Phase
  <2> QED
    BY <2>1, <2>2
<1> QED
  BY <1>2, <1>3

(* A process commits its offer, and knows or does not know that it did.      *)
LEMMA CommitKeeps ==
    ASSUME Inv, NEW w \in Workers, Phase(w) = "publishing", Commit(proc[w].offer), StoreInv', task' = task,
           UNCHANGED <<seat, fence, orphans, paid>>, NEW p \in Procs, proc' = [proc EXCEPT ![w] = p],
           p.verb = proc[w].verb, p.contract = proc[w].contract, p.debt = proc[w].debt, p.offer = proc[w].offer,
           \/ p.phase = "unknown" /\ p.disposition = proc[w].disposition
           \/ /\ p.phase = "closing"
              /\ Settles(w) => p.disposition = "released" /\ p.result = "released"
              /\ ~Settles(w) => p.disposition = proc[w].disposition
    PROVE  Inv' /\ Ownership!Next
<1> DEFINE o == proc[w].offer
<1>1. /\ proc[w] \in Procs /\ Shape(w) /\ Owed(w) /\ Types /\ Holdings /\ Current(o) /\ o \in Offers
      /\ o.verb = proc[w].verb /\ o.contract = proc[w].contract /\ Doing(w, "idle")
      /\ o.taken = (IF proc[w].verb = "bind" THEN proc[w].debt ELSE None)
      /\ Settles(w) => o.freed = proc[w].debt
      /\ proc \in [Workers -> Procs] /\ proc'[w] = p
  BY ProcOf DEF Shape
<1> HIDE DEF o
<1>2. Commit(o)
  BY DEF o
<1>3. Ownership!Next
  BY <1>1, <1>2, CommitOwns
<1>4. /\ root' \in Nat /\ Holdings'
      /\ standing' \in [Contracts -> {"none", "active", "claimed", "abandoned"}]
      /\ holder' \in [DebtIds -> [contract : Contracts, disposition : {"held", "released"}] \cup {None}]
  BY <1>1, <1>2, CommitRoot
<1>5. Apart(w)
  BY ProcOf DEF Apart
<1>6. ASSUME NEW v \in Workers \ {w}
      PROVE  Shape(v)' /\ Owed(v)' /\ (Phase(v)' \in {"publishing", "unknown"} => Current(proc[v].offer)')
  <2>1. proc'[v] = proc[v] /\ task'[v] = task[v] /\ v \in Workers /\ Shape(v)
    BY <1>5, ProcOf DEF Apart
  <2>2. Settles(v) /\ Phase(v) \notin Outside => proc[v].debt # o.taken
    <3>1. Phase(w) \notin Outside
      BY DEF Outside
    <3>2. o.taken # None => fence[o.taken] = w /\ o.taken \in DebtIds
      BY <1>1, <3>1 DEF Shape, Offers
    <3>3. Settles(v) /\ Phase(v) \notin Outside => proc[v].debt \in DebtIds /\ fence[proc[v].debt] = v
      BY <2>1 DEF Shape, Outside
    <3> QED
      BY <3>2, <3>3, SettlementFacts
  <2>3. Owed(v)'
    BY <1>1, <1>2, <2>1, <2>2, CommitSpares
  <2>4. Phase(v)' \in {"publishing", "unknown"} => proc[v].offer \in Offers /\ Current(proc[v].offer)
    BY <2>1, ProcOf DEF Phase, Shape
  <2>6. proc[v].offer \in Offers /\ Current(proc[v].offer) => Current(proc[v].offer)'
    BY <1>1, <1>2, <2>1, CommitSpares DEF Current
  <2> QED
    BY <1>5, <2>3, <2>4, <2>6, ApartKeepsShape
<1>7. Shape(w)'
  BY <1>1, SettlementFacts DEF Shape, Phase, Settles, Doing, Seated, Outside, o
<1>8. Owed(w)'
  <2>1. CASE ~Settles(w)
    BY <1>1, <2>1 DEF Owed, Settles
  <2>2. CASE Settles(w)
    <3> DEFINE c == proc[w].contract
               d == proc[w].debt
    <3>1. /\ c \in Contracts /\ d \in DebtIds /\ standing[c] = "claimed" /\ \A e \in DebtIds : Holds(c, e) => e = d
          /\ <<c, d>> \in paid /\ proc[w].disposition # "released" /\ o.freed = d /\ o.contract = c /\ o.taken = None
      BY <1>1, <2>2, NotApplicable DEF Owed, Shape, Current, Settles
    <3>2. standing'[c] = "claimed" /\ \A e \in DebtIds : holder'[e] = HeldBy(c) => e = d
      BY <1>1, <1>2, <3>1, CommitRoot
    <3>3. holder'[d] = ReleasedBy(c) /\ holder'[d] # HeldBy(c)
      BY <1>2, <3>1, SettlementFacts DEF Commit
    <3>4. /\ proc'[w].contract = c /\ proc'[w].debt = d /\ Phase(w)' \in {"unknown", "closing"}
          /\ Phase(w)' = "closing" => p.disposition = "released" /\ p.result = "released"
          /\ Phase(w)' = "unknown" => p.disposition # "released"
      BY <1>1, <2>2, <3>1 DEF Phase
    <3>5. \A a, b : ReleasedBy(a)' = ReleasedBy(a) /\ (Holds(a, b)' <=> holder'[b] = HeldBy(a))
      BY DEF ReleasedBy, Holds, HeldBy
    <3> HIDE DEF c, d
    <3> QED
      BY <1>1, <3>1, <3>2, <3>3, <3>4, <3>5 DEF Owed
  <2> QED
    BY <2>1, <2>2
<1>9. Phase(w)' \in {"publishing", "unknown"} => Current(proc[w].offer)'
  <2>1. p.offer = o /\ o \in Offers
    BY <1>1 DEF o
  <2> QED
    BY <1>1, <1>2, <2>1, CommitSpares DEF Current
<1>10. Types'
  BY <1>1, <1>4 DEF Types
<1>11. \A x \in orphans' : Current(x)'
  BY <1>1, <1>2, CommitSpares DEF Inv, Types
<1>12. Inv'
  BY <1>4, <1>6, <1>7, <1>8, <1>9, <1>10, <1>11 DEF Inv, Current
<1> QED
  BY <1>3, <1>12

LEMMA PublishKeeps ==
    ASSUME Inv, NEW w \in Workers, Publish(w)
    PROVE  Inv' /\ Ownership!Next
<1>1. /\ Phase(w) = "publishing" /\ Commit(proc[w].offer) /\ Settled(w) /\ proc[w] \in Procs
      /\ UNCHANGED <<storeVars, seat, fence, orphans, paid>>
  BY ProcOf DEF Publish
<1>2. StoreInv' /\ task' = task
  BY <1>1, StoreQuiet
<1>3. "released" \in Answers /\ "accepted" \in Answers
  BY DEF Answers, Results
<1>4. CASE Settles(w)
  <2>1. CloseWith(w, "released")
    BY <1>1, <1>4 DEF Settled, Settles
  <2>2. PICK p \in Procs : /\ proc' = [proc EXCEPT ![w] = p] /\ p.phase = "closing"
                           /\ p.verb = proc[w].verb /\ p.contract = proc[w].contract /\ p.debt = proc[w].debt
                           /\ p.offer = proc[w].offer /\ p.result = "released" /\ p.disposition = "released"
    BY <1>3, <2>1, ClosedProc
  <2> QED
    BY <1>1, <1>2, <1>4, <2>2, CommitKeeps
<1>5. CASE ~Settles(w)
  <2>1. Close(w, "accepted")
    BY <1>1, <1>5 DEF Settled, Settles
  <2>2. PICK p \in Procs : /\ proc' = [proc EXCEPT ![w] = p] /\ p.phase = "closing"
                           /\ p.verb = proc[w].verb /\ p.contract = proc[w].contract /\ p.debt = proc[w].debt
                           /\ p.offer = proc[w].offer /\ p.disposition = proc[w].disposition
    BY <1>3, <2>1, ClosedProc
  <2> QED
    BY <1>1, <1>2, <1>5, <2>2, CommitKeeps
<1> QED
  BY <1>4, <1>5

LEMMA RejectKeeps ==
    ASSUME Inv, NEW w \in Workers, Reject(w)
    PROVE  Inv' /\ UNCHANGED <<rootVars, paid>>
  BY NotSettledKeeps DEF Reject

LEMMA KillKeeps ==
    ASSUME Inv, NEW w \in Workers, Kill(w)
    PROVE  Inv' /\ (Ownership!Next \/ UNCHANGED <<rootVars, paid>>)
<1>1. /\ Phase(w) = "publishing" /\ Goto(w, "unknown") /\ proc[w] \in Procs /\ Shape(w) /\ Owed(w) /\ Types
      /\ UNCHANGED <<seat, fence, orphans, paid>> /\ StoreStill /\ Doing(w, "idle") /\ Current(proc[w].offer)
  BY ProcOf DEF Kill, Shape
<1>2. StoreInv' /\ task' = task
  <2>1. budget \in [edits : Nat, faults : Nat, kills : Nat, mortal : SUBSET Workers]
    BY ProcOf, TaskOf
  <2>2. budget' \in [edits : Nat, faults : Nat, kills : Nat, mortal : SUBSET Workers]
    <3>1. budget.kills - 1 \in Nat
      BY <2>1 DEF Kill
    <3> QED
      BY <2>1, <3>1 DEF Kill
  <2> QED
    BY <1>1, <2>2, ProcOf, TaskOf, StoreRests DEF StoreStill
<1>3. PICK p \in Procs : /\ proc' = [proc EXCEPT ![w] = p] /\ proc'[w] = p /\ p.phase = "unknown"
                         /\ p.verb = proc[w].verb /\ p.contract = proc[w].contract /\ p.debt = proc[w].debt
                         /\ p.disposition = proc[w].disposition /\ p.offer = proc[w].offer
  <2>1. "unknown" \in Phases
    BY DEF Phases
  <2> QED
    BY <1>1, <2>1, GotoProc
<1>4. CASE Commit(proc[w].offer)
  BY <1>1, <1>2, <1>3, <1>4, CommitKeeps
<1>5. CASE UNCHANGED rootVars
  <2>1. Shape(w)'
    BY <1>1, <1>2, <1>3, SettlementFacts DEF Shape, Phase, Settles, Doing, Seated, Outside
  <2>2. Owed(w)'
    BY <1>1, <1>3, <1>5 DEF Owed, Phase, Settles, Holds, rootVars, Shape
  <2>3. Apart(w)
    BY <1>1, <1>2, <1>3, StaysApart
  <2> QED
    BY <1>1, <1>2, <1>3, <1>5, <2>1, <2>2, <2>3, WorksOn DEF Types
<1> QED
  BY <1>4, <1>5 DEF Kill

-----------------------------------------------------------------------------
(* Closing the seat and the fence                                            *)

LEMMA CloseSeatKeeps ==
    ASSUME Inv, NEW w \in Workers, CloseSeat(w)
    PROVE  Inv' /\ UNCHANGED <<rootVars, paid>>
<1>1. /\ Phase(w) = "closing" /\ seat' = None /\ seat = w /\ proc[w] \in Procs /\ Shape(w) /\ Owed(w) /\ Types
      /\ UNCHANGED <<storeVars, rootVars, fence, orphans, paid>> /\ Doing(w, "idle") /\ proc \in [Workers -> Procs]
  BY ProcOf DEF CloseSeat, Shape, Seated
<1>2. CASE proc[w].result # "retry"
  <2>1. proc' = [proc EXCEPT ![w] = Leaving(proc[w], proc[w].result)] /\ proc[w].result \in Answers
    BY <1>1, <1>2 DEF CloseSeat, Procs
  <2>2. Settles(w) => \/ proc[w].lag
                      \/ proc[w].result = "thrown"
                      \/ proc[w].result \notin {"retry", "crashed"} /\ ~Holds(proc[w].contract, proc[w].debt)
    BY <1>1 DEF Owed
  <2> QED
    BY <1>1, <2>1, <2>2, LeaveKeeps
<1>3. CASE proc[w].result = "retry" /\ proc[w].attempt = MaxAttempts
  <2>1. proc' = [proc EXCEPT ![w] = Leaving(proc[w], "exhausted")] /\ "exhausted" \in Answers
    BY <1>1, <1>3 DEF CloseSeat, Answers, Results
  <2>2. ~Settles(w)
    BY <1>1, <1>3 DEF Shape
  <2> QED
    BY <1>1, <2>1, <2>2, LeaveKeeps
<1>4. CASE proc[w].result = "retry" /\ proc[w].attempt # MaxAttempts
  <2> DEFINE p == Again(proc[w])
  <2>1. proc' = [proc EXCEPT ![w] = p] /\ ~Settles(w)
    BY <1>1, <1>4 DEF CloseSeat, Shape
  <2>2. /\ p \in Procs /\ p.phase = "waiting" /\ p.verb = proc[w].verb /\ p.contract = proc[w].contract
        /\ p.debt = proc[w].debt /\ p.disposition = proc[w].disposition
    <3>1. proc[w].attempt + 1 \in Nat
      BY <1>1 DEF Procs
    <3> QED
      BY <1>1, <3>1 DEF Again, Procs, Phases, Answers
  <2> HIDE DEF p
  <2>3. StoreInv' /\ task' = task /\ Doing(w, "idle")'
    BY <1>1, StoreQuiet
  <2>4. Shape(w)'
    BY <1>1, <2>1, <2>2, <2>3, SettlementFacts DEF Shape, Phase, Settles, Doing, Seated, Outside
  <2>5. Owed(w)' /\ Phase(w)' \notin {"publishing", "unknown"}
    BY <1>1, <2>1, <2>2 DEF Owed, Phase, Settles
  <2>6. Apart(w)
    BY <1>1, <2>1, <2>3, StaysApart
  <2> QED
    BY <1>1, <2>1, <2>2, <2>3, <2>4, <2>5, <2>6, WorksOn DEF Types
<1> QED
  BY <1>1, <1>2, <1>3, <1>4

LEMMA CloseSeatFailsKeeps ==
    ASSUME Inv, NEW w \in Workers, CloseSeatFails(w)
    PROVE  Inv' /\ UNCHANGED <<rootVars, paid>>
<1>1. /\ Phase(w) = "closing" /\ seat' = None /\ seat = w /\ proc[w] \in Procs /\ Shape(w) /\ Owed(w)
      /\ Fault /\ StoreStill /\ UNCHANGED <<rootVars, fence, orphans, paid>> /\ Doing(w, "idle")
  BY ProcOf DEF CloseSeatFails, Shape, Seated
<1>2. "held" \in Answers /\ "thrown" \in Answers /\ proc[w].result \in Answers
  BY <1>1 DEF Answers, Results, Procs
<1>3. CASE proc[w].result \in {"accepted", "released"}
  <2>1. proc' = [proc EXCEPT ![w] = Leaving(proc[w], proc[w].result)]
    BY <1>3, ProcOf DEF CloseSeatFails
  <2>2. Settles(w) => \/ proc[w].lag
                      \/ proc[w].result = "thrown"
                      \/ proc[w].result \notin {"retry", "crashed"} /\ ~Holds(proc[w].contract, proc[w].debt)
    BY <1>1 DEF Owed
  <2> QED
    BY <1>1, <1>2, <2>1, <2>2, LeaveKeeps
<1>4. CASE proc[w].result \notin {"accepted", "released"} /\ Settles(w)
  <2>1. proc' = [proc EXCEPT ![w] = Leaving([[proc[w] EXCEPT !.disposition = "held"] EXCEPT !.lag = TRUE], "held")]
    BY <1>4, ProcOf DEF CloseSeatFails, Lagging, Settles
  <2>2. [[proc[w] EXCEPT !.disposition = "held"] EXCEPT !.lag = TRUE] = [proc[w] EXCEPT !.disposition = "held", !.lag = TRUE]
    OBVIOUS
  <2>3. proc' = [proc EXCEPT ![w] = Leaving([proc[w] EXCEPT !.disposition = "held", !.lag = TRUE], "held")]
    BY <2>1, <2>2
  <2> QED
    BY <1>1, <1>2, <2>3, LeaveKeeps
<1>5. CASE proc[w].result \notin {"accepted", "released"} /\ ~Settles(w)
  <2>1. proc' = [proc EXCEPT ![w] = Leaving(proc[w], "thrown")]
    BY <1>5, ProcOf DEF CloseSeatFails, Settles
  <2> QED
    BY <1>1, <1>2, <1>5, <2>1, LeaveKeeps
<1> QED
  BY <1>1, <1>3, <1>4, <1>5

LEMMA UnfencingKeeps ==
    ASSUME Inv, StoreInv', NEW w \in Workers, Phase(w) = "unfencing", fence' = [fence EXCEPT ![proc[w].debt] = None],
           NEW p, Over(p), proc' = [proc EXCEPT ![w] = p], UNCHANGED <<task, rootVars, seat, orphans, paid>>
    PROVE  Inv'
<1>1. /\ Shape(w) /\ Types /\ Doing(w, "idle")' /\ seat # w /\ proc[w].debt \in DebtIds
      /\ \A d \in DebtIds : fence[d] = w <=> proc[w].debt = d
  BY ProcOf DEF Shape, Doing, Seated, Outside
<1>2. fence' \in [DebtIds -> Workers \cup {None}] /\ \A d \in DebtIds : fence'[d] # w
  BY <1>1, SettlementFacts DEF Types
<1>3. Apart(w)
  BY <1>1, StaysApart DEF Types
<1> QED
  BY <1>1, <1>2, <1>3, OverKeeps DEF Types

LEMMA UnfenceKeeps ==
    ASSUME Inv, NEW w \in Workers, Unfence(w)
    PROVE  Inv' /\ UNCHANGED <<rootVars, paid>>
<1>1. proc[w] \in Procs /\ proc[w].contract \in Contracts /\ StoreInv'
  BY ProcOf, StoreQuiet DEF Unfence, Shape
<1>2. proc' = [proc EXCEPT ![w] = Unfenced(proc[w])]
  BY ProcOf DEF Unfence
<1> QED
  BY <1>1, <1>2, UnfencedOver, UnfencingKeeps DEF Unfence, storeVars

LEMMA UnfenceFailsKeeps ==
    ASSUME Inv, NEW w \in Workers, UnfenceFails(w)
    PROVE  Inv' /\ UNCHANGED <<rootVars, paid>>
<1>1. proc[w] \in Procs /\ proc[w].contract \in Contracts /\ StoreInv' /\ task' = task /\ proc[w].result \in Answers
  BY ProcOf, StoreQuiet DEF UnfenceFails, Shape, Procs
<1>2. "accepted" \in Answers /\ "thrown" \in Answers
  BY DEF Answers, Results
<1>3. CASE Settles(w)
  <2> DEFINE q == [proc[w] EXCEPT !.lag = proc[w].lag \/ proc[w].disposition # "released"]
  <2>1. proc' = [proc EXCEPT ![w] = Ended(q, proc[w].result)]
    BY <1>3, ProcOf DEF UnfenceFails, Settles
  <2>2. q \in Procs
    <3>1. (proc[w].lag \/ proc[w].disposition # "released") \in BOOLEAN
      BY <1>1, Zenon DEF Procs
    <3> QED
      BY <1>1, <3>1 DEF Procs
  <2> HIDE DEF q
  <2>3. Over(Ended(q, proc[w].result))
    BY <1>1, <2>2, EndedProc DEF Over
  <2> QED
    BY <1>1, <2>1, <2>3, UnfencingKeeps DEF UnfenceFails, storeVars
<1>4. CASE ~Settles(w) /\ proc[w].result = "accepted"
  <2>1. proc' = [proc EXCEPT ![w] = AfterAdmission(proc[w], "accepted")]
    BY <1>4, ProcOf DEF UnfenceFails, Settles
  <2> QED
    BY <1>1, <1>2, <2>1, AfterAdmissionOver, UnfencingKeeps DEF UnfenceFails
<1>5. CASE ~Settles(w) /\ proc[w].result # "accepted"
  <2>1. proc' = [proc EXCEPT ![w] = Ended(proc[w], "thrown")]
    BY <1>5, ProcOf DEF UnfenceFails, Settles
  <2>2. Over(Ended(proc[w], "thrown"))
    BY <1>1, <1>2, EndedProc DEF Over
  <2> QED
    BY <1>1, <2>1, <2>2, UnfencingKeeps DEF UnfenceFails
<1> QED
  BY <1>3, <1>4, <1>5 DEF UnfenceFails

-----------------------------------------------------------------------------
(* Process death, and a person                                               *)

LEMMA CrashKeeps ==
    ASSUME Inv, NEW w \in Workers, Crash(w)
    PROVE  Inv' /\ UNCHANGED <<rootVars, paid>>
<1>1. /\ proc[w] \in Procs /\ Shape(w) /\ Types /\ Die(w) /\ UNCHANGED <<debts, author, rootVars, paid>>
      /\ seat' = (IF seat = w THEN None ELSE seat)
      /\ fence' = [d \in DebtIds |-> IF fence[d] = w THEN None ELSE fence[d]]
  BY ProcOf DEF Crash, FreedFences
<1>2. StoreInv' /\ Doing(w, "idle")' /\ \A v \in Workers \ {w} : task'[v] = task[v]
  <2>1. budget \in [edits : Nat, faults : Nat, kills : Nat, mortal : SUBSET Workers]
    BY ProcOf, TaskOf
  <2>2. budget' \in [edits : Nat, faults : Nat, kills : Nat, mortal : SUBSET Workers]
    BY <2>1 DEF Crash
  <2> QED
    BY <1>1, <2>2, ProcOf, DieKeeps
<1> DEFINE q == [proc[w] EXCEPT !.lag = FALSE]
<1>3. proc' = [proc EXCEPT ![w] = Ended(q, "crashed")] /\ Over(Ended(q, "crashed"))
  <2>1. q \in Procs /\ "crashed" \in Answers
    BY <1>1 DEF Procs, Answers
  <2> QED
    BY <2>1, ProcOf, EndedProc DEF Crash, Over
<1> HIDE DEF q
<1>4. /\ seat' \in (Workers \cup {None}) \ {w} /\ fence' \in [DebtIds -> Workers \cup {None}]
      /\ \A d \in DebtIds : fence'[d] # w
  BY <1>1, SettlementFacts DEF Types
<1>5. Apart(w)
  BY <1>1, <1>2, <1>3, StaysApart
<1>6. orphans' \subseteq Offers /\ \A o \in orphans' : o \in orphans \/ Current(o)'
  <2>1. orphans' = IF Phase(w) = "publishing" THEN orphans \cup {proc[w].offer} ELSE orphans
    BY DEF Crash
  <2>2. Phase(w) = "publishing" => proc[w].offer \in Offers /\ Current(proc[w].offer)
    BY <1>1, ProcOf DEF Shape
  <2>3. \A o : Current(o) => Current(o)'
    BY <1>1 DEF Current, Holds, rootVars
  <2>4. orphans \subseteq Offers
    BY <1>1 DEF Types
  <2>5. CASE Phase(w) = "publishing"
    <3>1. PICK x : x = proc[w].offer
      OBVIOUS
    <3> QED
      BY <2>1, <2>2, <2>3, <2>4, <2>5, <3>1
  <2>6. CASE Phase(w) # "publishing"
    BY <2>1, <2>4, <2>6
  <2> QED
    BY <2>5, <2>6
<1> QED
  BY <1>1, <1>2, <1>3, <1>4, <1>5, <1>6, OverKeeps

LEMMA OrphanCommitsKeeps ==
    ASSUME Inv, TakersLive, NEW o \in orphans, OrphanCommits(o)
    PROVE  Inv' /\ Ownership!Next
<1>1. /\ Commit(o) /\ orphans' = orphans \ {o} /\ UNCHANGED <<storeVars, seat, fence, proc, paid>> /\ o.taken = None
      /\ o \in Offers /\ Current(o) /\ Types /\ Holdings
  BY DEF OrphanCommits, TakersLive, Inv, Types
<1>2. StoreInv'
  BY <1>1, StoreQuiet
<1>3. Ownership!Next
  BY <1>1, CommitOwns
<1>4. Types' /\ Holdings'
  BY <1>1, CommitRoot DEF Types
<1>5. ASSUME NEW v \in Workers
      PROVE  Shape(v)' /\ Owed(v)' /\ (Phase(v)' \in {"publishing", "unknown"} => Current(proc[v].offer)')
  <2>1. Shape(v) /\ Shape(v)'
    BY <1>1, ProcOf DEF Shape, Phase, Settles, Doing, storeVars
  <2>2. Settles(v) /\ Phase(v) \notin Outside => proc[v].debt # o.taken
    BY <1>1, <2>1, SettlementFacts DEF Shape, Outside
  <2>3. Owed(v)'
    BY <1>1, <2>2, CommitSpares DEF storeVars
  <2>4. Phase(v)' \in {"publishing", "unknown"} => proc[v].offer \in Offers /\ Current(proc[v].offer)
    BY <1>1, ProcOf DEF Phase, Shape
  <2> QED
    BY <1>1, <2>1, <2>3, <2>4, CommitSpares DEF Current
<1>6. \A x \in orphans' : Current(x)'
  BY <1>1, CommitSpares DEF Inv, Types
<1> QED
  BY <1>2, <1>3, <1>4, <1>5, <1>6 DEF Inv, Current

(* Steps of nobody's: all stays but the files and what Git may still accept. *)
LEMMA NobodyMoves ==
    ASSUME Inv, StoreInv', UNCHANGED <<rootVars, seat, fence, proc, task, paid>>, orphans' \subseteq orphans
    PROVE  Inv'
<1>1. Types' /\ Holdings'
  BY DEF Inv, Types, Holdings, Holds, rootVars
<1>2. ASSUME NEW v \in Workers
      PROVE  Shape(v)' /\ Owed(v)' /\ (Phase(v)' \in {"publishing", "unknown"} => Current(proc[v].offer)')
  <2>1. Shape(v)'
    BY ProcOf DEF Shape, Phase, Settles, Doing
  <2>2. Owed(v)'
    BY ProcOf DEF Owed, Phase, Settles, Holds, rootVars
  <2> QED
    BY <2>1, <2>2, ProcOf DEF Phase, Current, Holds, rootVars
<1>3. \A x \in orphans' : Current(x)'
  BY DEF Inv, Current, Holds, rootVars
<1> QED
  BY <1>1, <1>2, <1>3 DEF Inv, Current

LEMMA OrphanDiesKeeps ==
    ASSUME Inv, NEW o \in orphans, OrphanDies(o)
    PROVE  Inv' /\ UNCHANGED <<rootVars, paid>>
<1>1. StoreInv'
  BY StoreQuiet DEF OrphanDies
<1> QED
  BY <1>1, NobodyMoves DEF OrphanDies, storeVars

LEMMA HandKeeps ==
    ASSUME Inv, NEW d \in DebtIds, Edit(d)
    PROVE  Inv' /\ UNCHANGED <<rootVars, paid>>
<1>1. StoreInv' /\ task' = task
  BY EditKeeps DEF Edit, EditByHand, Inv
<1> QED
  BY <1>1, NobodyMoves DEF Edit

-----------------------------------------------------------------------------
(* The invariant, and the refinement of DebtOwnership                        *)

LEMMA InitHolds == Init => Inv /\ Ownership!Init
<1>1. SUFFICES ASSUME Init
               PROVE  Inv /\ Ownership!Init
  OBVIOUS
<1>2. PICK s \in Scenarios :
        /\ \E board \in s.boards : StoreInit(board, s.budget)
        /\ standing = s.standing
        /\ holder = [d \in DebtIds |->
                       IF s.holds[d] = None THEN None ELSE [contract |-> s.holds[d], disposition |-> "held"]]
        /\ root = 0 /\ seat = None /\ fence = [d \in DebtIds |-> None]
        /\ proc = [w \in Workers |-> [Idle EXCEPT !.agenda = s.agenda[w]]]
        /\ orphans = {} /\ paid = {}
  BY <1>1 DEF Init
<1>3. /\ s.standing \in [Contracts -> {"none", "active", "claimed", "abandoned"}]
      /\ s.holds \in [DebtIds -> Contracts \cup {None}]
      /\ s.agenda \in [Workers -> Seq(Invocations)] /\ s.boards \subseteq Boards
      /\ s.budget \in [edits : Nat, faults : Nat, kills : Nat, mortal : SUBSET Workers]
      /\ \A d \in DebtIds : s.holds[d] # None =>
            /\ s.standing[s.holds[d]] \in {"active", "claimed"}
            /\ \A e \in DebtIds : s.holds[e] = s.holds[d] => e = d
  BY SettlementAssumption DEF Scenes
<1>4. StoreInv
  <2>1. PICK board \in Boards : StoreInit(board, s.budget)
    BY <1>2, <1>3
  <2>2. NoTask \in Tasks /\ NoTask.phase = "idle"
    BY DEF NoTask, Tasks, TaskPhases
  <2>3. StoreTypes
    BY <1>3, <2>1, <2>2 DEF StoreInit, StoreTypes
  <2>4. \A w \in Workers : task[w] = NoTask /\ \A l \in Locks : ~Owns(w, l)
    BY <2>1, LockFacts DEF StoreInit, Owns
  <2> QED
    BY <2>2, <2>3, <2>4 DEF StoreInv, TaskCustody
<1>5. \A d \in DebtIds : holder[d] = (IF s.holds[d] = None THEN None ELSE HeldBy(s.holds[d]))
  BY <1>2 DEF HeldBy
<1>6. Holdings
  <2>1. \A c \in Contracts, d \in DebtIds : Holds(c, d) => s.holds[d] = c /\ s.holds[d] # None
    BY <1>3, <1>5, SettlementFacts DEF Holds
  <2> QED
    BY <1>2, <1>3, <2>1 DEF Holdings
<1>7. \A w \in Workers : /\ proc[w] \in Procs /\ proc[w].phase = "idle" /\ proc[w].verb = None /\ proc[w].debt = None
                         /\ proc[w].disposition = None
  BY <1>2, <1>3 DEF Idle, Procs, Phases, Answers
<1>8. Types
  <2>1. holder \in [DebtIds -> [contract : Contracts, disposition : {"held", "released"}] \cup {None}]
    BY <1>2, <1>3
  <2> QED
    BY <1>2, <1>3, <1>7, <2>1 DEF Types
<1>9. \A w \in Workers : Shape(w) /\ Owed(w) /\ Phase(w) = "idle"
  <2>1. \A w \in Workers : task[w] = NoTask
    BY <1>2 DEF StoreInit
  <2> QED
    BY <1>2, <1>7, <2>1, SettlementFacts DEF Shape, Owed, Phase, Settles, Doing, NoTask, Seated, Outside
<1>10. Ownership!Init
  <2>1. standing \in [Contracts -> Ownership!Standings] /\ holder \in [DebtIds -> Ownership!Holders \cup {None}]
    BY <1>8 DEF Types, Ownership!Standings, Ownership!Holders
  <2>2. ASSUME NEW d \in DebtIds, holder[d] # None
        PROVE  s.holds[d] \in Contracts /\ holder[d] = HeldBy(s.holds[d]) /\ holder[d].contract = s.holds[d]
    BY <1>3, <1>5, <2>2 DEF HeldBy
  <2>3. ASSUME NEW d \in DebtIds, holder[d] # None
        PROVE  /\ standing[holder[d].contract] \in {"active", "claimed"}
               /\ Ownership!Holds(holder[d].contract, d)
    BY <1>2, <1>3, <1>5, <2>2, <2>3 DEF Ownership!Holds, Ownership!Held, HeldBy
  <2>4. ASSUME NEW d \in DebtIds, NEW e \in DebtIds, holder[d] = holder[e], holder[d] # None
        PROVE  d = e
    BY <1>3, <1>5, <2>2, <2>4, SettlementFacts
  <2> QED
    BY <1>2, <2>1, <2>3, <2>4 DEF Ownership!Init
<1> QED
  BY <1>2, <1>4, <1>6, <1>8, <1>9, <1>10 DEF Inv

(* The debt store completes a debt of a contract that holds it, or has paid. *)
LEMMA StoreStepOwns ==
    ASSUME Inv, NEW w \in Workers, StoreStep(w)
    PROVE  [Ownership!Next]_(Ownership!ownershipVars)
<1>1. UNCHANGED <<standing, holder>> /\ (paid' = paid \/ (PaysNow(w) /\ paid' = paid \cup {<<proc[w].contract, proc[w].debt>>}))
  BY DEF StoreStep, rootVars
<1>2. CASE PaysNow(w) /\ paid' = paid \cup {<<proc[w].contract, proc[w].debt>>}
  <2> DEFINE c == proc[w].contract
             d == proc[w].debt
  <2>1. /\ c \in Contracts /\ d \in DebtIds /\ standing[c] = "claimed"
        /\ Holds(c, d) \/ <<c, d>> \in paid
    BY <1>2, ProcOf DEF PaysNow, Shape, Owed
  <2>2. CASE Holds(c, d)
    <3>1. Ownership!Pay(c, d)
      BY <1>1, <1>2, <2>1, <2>2 DEF Ownership!Pay, Ownership!Holds, Ownership!Held, Holds, HeldBy
    <3> QED
      BY <2>1, <3>1 DEF Ownership!Next
  <2>3. CASE <<c, d>> \in paid
    BY <1>1, <1>2, <2>3 DEF Ownership!ownershipVars
  <2> QED
    BY <2>1, <2>2, <2>3
<1> QED
  BY <1>1, <1>2 DEF Ownership!ownershipVars

LEMMA NextKeeps ==
    ASSUME Inv, TakersLive, [Next]_vars
    PROVE  Inv' /\ [Ownership!Next]_(Ownership!ownershipVars)
<1>1. CASE \E w \in Workers : Begin(w) \/ ContractStep(w) \/ ContractFault(w) \/ StoreStep(w)
  <2>1. PICK w \in Workers : Begin(w) \/ ContractStep(w) \/ ContractFault(w) \/ StoreStep(w)
    BY <1>1
  <2>2. CASE Publish(w)
    BY <2>2, PublishKeeps
  <2>3. CASE Kill(w)
    BY <2>3, KillKeeps DEF rootVars, Ownership!ownershipVars
  <2>4. CASE StoreStep(w)
    BY <2>4, StoreStepKeeps, StoreStepOwns
  <2>5. CASE \/ Begin(w) \/ Hint(w) \/ AcquireFence(w) \/ Confirm(w) \/ Pay(w) \/ Paid(w) \/ Ordered(w)
             \/ AcquireSeat(w) \/ SeatTimeout(w) \/ DecideAdmission(w) \/ DecideRelease(w)
             \/ Reject(w) \/ Recover(w) \/ CloseSeat(w) \/ Unfence(w)
             \/ ObservationFails(w) \/ ConfirmFails(w) \/ RecoverFails(w)
             \/ CloseSeatFails(w) \/ UnfenceFails(w) \/ Crash(w)
    <3>1. Inv' /\ UNCHANGED <<rootVars, paid>>
      BY <2>5, BeginKeeps, HintKeeps, AcquireFenceKeeps, ConfirmKeeps, PayKeeps, PaidKeeps, OrderedKeeps,
         AcquireSeatKeeps, SeatTimeoutKeeps, DecideAdmissionKeeps, DecideReleaseKeeps, RejectKeeps, RecoverKeeps,
         CloseSeatKeeps, UnfenceKeeps, ObservationFailsKeeps, ConfirmFailsKeeps, RecoverFailsKeeps,
         CloseSeatFailsKeeps, UnfenceFailsKeeps, CrashKeeps
    <3> QED
      BY <3>1 DEF rootVars, Ownership!ownershipVars
  <2> QED
    BY <2>1, <2>2, <2>3, <2>4, <2>5 DEF ContractStep, ContractFault
<1>2. CASE \E o \in orphans : OrphanCommits(o) \/ OrphanDies(o)
  BY <1>2, OrphanCommitsKeeps, OrphanDiesKeeps DEF rootVars, Ownership!ownershipVars
<1>3. CASE \E d \in DebtIds : Edit(d)
  BY <1>3, HandKeeps DEF rootVars, Ownership!ownershipVars
<1>4. CASE UNCHANGED vars
  <2>1. StoreInv'
    BY <1>4, StoreQuiet DEF vars
  <2> QED
    BY <1>4, <2>1, NobodyMoves DEF vars, storeVars, rootVars, Ownership!ownershipVars
<1> QED
  BY <1>1, <1>2, <1>3, <1>4 DEF Next

LEMMA InvHolds == Spec /\ []TakersLive => []Inv
<1>1. Init => Inv
  BY InitHolds
<1>2. Inv /\ TakersLive /\ [Next]_vars => Inv'
  BY NextKeeps
<1> QED
  BY <1>1, <1>2, PTL DEF Spec

(* docs/settlement.md, for any number of processes, contracts and debts:    *)
(* contracts and debts behave as DebtOwnership says, as long as no ref      *)
(* transaction of a dead binder is under way.                               *)
THEOREM OwnershipIsKept == Spec /\ []TakersLive => PromiseKept
<1>1. Init => Ownership!Init
  BY InitHolds
<1>2. Inv /\ TakersLive /\ [Next]_vars => [Ownership!Next]_(Ownership!ownershipVars)
  BY NextKeeps
<1> QED
  BY <1>1, <1>2, InvHolds, PTL DEF Spec, PromiseKept, Ownership!Spec

-----------------------------------------------------------------------------
(* Reports                                                                   *)

LEMMA ReleasesLast == Inv => ReleasedIsDurable
<1>1. SUFFICES ASSUME Inv
               PROVE  ReleasedIsDurable
  OBVIOUS
<1>2. Types /\ StoreInv /\ StoreTypes
  BY <1>1 DEF Inv, StoreInv
<1>3. ASSUME NEW w \in Workers
      PROVE  /\ Phase(w) \in Phases /\ proc[w].debt \in DebtIds \cup {None}
             /\ seat = w <=> Phase(w) \in {"seated", "publishing", "unknown", "closing"}
             /\ \A d \in DebtIds : fence[d] = w <=> proc[w].debt = d /\ Phase(w) \notin {"idle", "hinting", "fencing"}
             /\ \A l \in Locks : custody[l] = w => ~Doing(w, "idle") /\ Phase(w) \in {"ordering", "settling"}
  <2>1. proc[w] \in Procs /\ Shape(w) /\ TaskCustody(w)
    BY <1>1, ProcOf
  <2>2. Phase(w) = "ordering" => proc[w].debt \notin DebtIds
    BY <2>1, SettlementFacts DEF Shape
  <2>3. \A d \in DebtIds : fence[d] = w <=> proc[w].debt = d /\ Phase(w) \notin {"idle", "hinting", "fencing"}
    BY <2>1, <2>2 DEF Shape, Outside
  <2>4. \A l \in Locks : custody[l] = w => ~Doing(w, "idle")
    BY <2>1 DEF TaskCustody, Owns, Doing
  <2> QED
    BY <2>1, <2>3, <2>4 DEF Procs, Phase, Shape, Seated
<1>4. TypeOK
  BY <1>2, <1>3 DEF TypeOK, Types, StoreTypes
<1>5. ASSUME NEW w \in Workers, proc[w].verb = "settle", proc[w].disposition = "released"
      PROVE  HolderOf(w) = ReleasedBy(proc[w].contract)
  BY <1>1, <1>5, ProcOf DEF Shape, Owed, Settles, HolderOf
<1> QED
  BY <1>4, <1>5 DEF ReleasedIsDurable

(* One process moves.                                                        *)
LEMMA OneMoves ==
    ASSUME NEW v \in Workers, NEW w \in Workers \ {v}, proc \in [Workers -> Procs],
           Begin(v) \/ ContractStep(v) \/ ContractFault(v) \/ StoreStep(v)
    PROVE  proc'[w] = proc[w]
<1>1. CASE \/ Begin(v) \/ Hint(v) \/ AcquireFence(v) \/ Confirm(v) \/ Pay(v) \/ Paid(v) \/ Ordered(v)
           \/ AcquireSeat(v) \/ SeatTimeout(v) \/ ObservationFails(v) \/ ConfirmFails(v) \/ StoreStep(v)
  BY <1>1 DEF Begin, Hint, AcquireFence, Confirm, Pay, Paid, Ordered, AcquireSeat, SeatTimeout, ObservationFails,
              ConfirmFails, StoreStep, Goto, Leave
<1>2. CASE DecideAdmission(v) \/ DecideRelease(v) \/ Publish(v) \/ Reject(v) \/ Recover(v) \/ Kill(v) \/ RecoverFails(v)
  BY <1>2 DEF DecideAdmission, DecideRelease, Publish, Reject, Recover, Kill, RecoverFails, Offer, Close, CloseWith,
              Settled, NotSettled, Goto
<1>3. CASE CloseSeat(v) \/ CloseSeatFails(v) \/ Unfence(v) \/ UnfenceFails(v) \/ Crash(v)
  BY <1>3 DEF CloseSeat, CloseSeatFails, Unfence, UnfenceFails, Crash
<1> QED
  BY <1>1, <1>2, <1>3 DEF ContractStep, ContractFault

(* A settlement at work has its debt, so it leaves by way of its fence.      *)
LEMMA SettlerLeaves ==
    ASSUME Inv, NEW w \in Workers, Settles(w), Phase(w) # "hinting", NEW q, q.debt = proc[w].debt, NEW r
    PROVE  Leaving(q, r) = [q EXCEPT !.phase = "unfencing", !.result = r]
  BY NotApplicable, SettlementFacts DEF Leaving

(* How a settlement may come to its end.                                     *)
LEMMA SettlerEnds ==
    ASSUME Inv, NEW w \in Workers, Settles(w), Phase(w) # "idle",
           Begin(w) \/ ContractStep(w) \/ ContractFault(w) \/ StoreStep(w), proc'[w].phase = "idle"
    PROVE  \/ Hint(w) \/ Unfence(w) \/ UnfenceFails(w) \/ ObservationFails(w) \/ Crash(w)
<1>1. proc[w] \in Procs /\ proc \in [Workers -> Procs] /\ Shape(w)
  BY ProcOf
<1>2. CASE StoreStep(w)
  BY <1>2 DEF StoreStep, Phase
<1>3. CASE Begin(w) \/ Ordered(w)
  BY <1>1, <1>3, SettlementFacts DEF Begin, Ordered, Shape, Settles, ContractVerbs
<1>4. ASSUME NEW phase \in Phases \ {"idle"}, Goto(w, phase)
      PROVE  FALSE
  <2>1. \E p \in Procs : proc'[w] = p /\ p.phase = phase
    BY <1>4, GotoProc
  <2> QED
    BY <1>4, <2>1
<1>5. ASSUME NEW q \in Procs, NEW r, proc' = [proc EXCEPT ![w] = Leaving(q, r)], q.debt = proc[w].debt,
             Phase(w) # "hinting"
      PROVE  FALSE
  <2>1. Leaving(q, r) = [q EXCEPT !.phase = "unfencing", !.result = r]
    BY <1>5, SettlerLeaves
  <2>2. proc'[w].phase = "unfencing"
    BY <1>1, <1>5, <2>1 DEF Procs
  <2> QED
    BY <2>2
<1>6. ASSUME NEW r, Close(w, r) \/ CloseWith(w, r)
      PROVE  FALSE
  <2>1. proc'[w].phase = "closing"
    BY <1>1, <1>6 DEF Close, CloseWith, Procs
  <2> QED
    BY <2>1
<1>7. CASE AcquireFence(w) \/ Pay(w) \/ AcquireSeat(w) \/ Kill(w)
  BY <1>4, <1>7 DEF AcquireFence, Pay, AcquireSeat, Kill, Phases, Settles
<1>8. CASE Confirm(w)
  BY <1>1, <1>4, <1>5, <1>8 DEF Confirm, Leave, Phases
<1>9. CASE Paid(w)
  <2>1. [proc[w] EXCEPT !.lag = TRUE] \in Procs /\ [proc[w] EXCEPT !.lag = TRUE].debt = proc[w].debt
    BY <1>1 DEF Procs
  <2>2. Phase(w) = "settling"
    BY <1>9 DEF Paid
  <2>3. CASE task[w].result \in {"changed", "unchanged"}
    BY <1>4, <1>9, <2>3 DEF Paid, Phases
  <2>4. CASE task[w].result \in {"thrown", "corrupt"}
    BY <1>1, <1>5, <1>9, <2>2, <2>4 DEF Paid
  <2>5. CASE task[w].result \notin {"changed", "unchanged", "thrown", "corrupt"}
    BY <1>1, <1>5, <1>9, <2>1, <2>2, <2>5 DEF Paid, Lagging
  <2> QED
    BY <2>3, <2>4, <2>5
<1>10. CASE SeatTimeout(w)
  BY <1>1, <1>5, <1>10 DEF SeatTimeout
<1>11. CASE DecideAdmission(w) \/ RecoverFails(w) \/ Publish(w) \/ Reject(w) \/ Recover(w)
  BY <1>6, <1>11 DEF DecideAdmission, RecoverFails, Publish, Reject, Recover, Settled, NotSettled, Settles
<1>12. CASE DecideRelease(w)
  <2>1. CASE CloseWith(w, "inert")
    BY <1>6, <2>1
  <2>2. CASE Offer(w, None, proc[w].debt)
    <3>1. proc'[w].phase = "publishing"
      BY <1>1, <2>2 DEF Offer, Procs
    <3> QED
      BY <3>1
  <2> QED
    BY <1>12, <2>1, <2>2 DEF DecideRelease
<1>13. CASE ConfirmFails(w)
  <2>1. [proc[w] EXCEPT !.lag = TRUE] \in Procs /\ [proc[w] EXCEPT !.lag = TRUE].debt = proc[w].debt
    BY <1>1 DEF Procs
  <2> QED
    BY <1>1, <1>5, <1>13, <2>1 DEF ConfirmFails, Lagging
<1>14. CASE CloseSeat(w)
  <2>1. proc[w].result # "retry"
    BY <1>1, <1>14 DEF CloseSeat, Shape
  <2> QED
    BY <1>1, <1>5, <1>14, <2>1 DEF CloseSeat
<1>15. CASE CloseSeatFails(w)
  <2> DEFINE q == [[proc[w] EXCEPT !.disposition = "held"] EXCEPT !.lag = TRUE]
  <2>1. q \in Procs /\ q.debt = proc[w].debt
    BY <1>1 DEF Procs
  <2>2. \/ proc' = [proc EXCEPT ![w] = Leaving(proc[w], proc[w].result)]
        \/ proc' = [proc EXCEPT ![w] = Leaving(q, "held")]
        \/ proc' = [proc EXCEPT ![w] = Leaving(proc[w], "thrown")]
    BY <1>1, <1>15 DEF CloseSeatFails, Lagging
  <2>3. Phase(w) # "hinting"
    BY <1>15 DEF CloseSeatFails
  <2> HIDE DEF q
  <2> QED
    BY <1>1, <1>5, <2>1, <2>2, <2>3
<1> QED
  BY <1>2, <1>3, <1>7, <1>8, <1>9, <1>10, <1>11, <1>12, <1>13, <1>14, <1>15 DEF ContractStep, ContractFault

LEMMA NothingOwed ==
    ASSUME Inv, NEW w \in Workers, Settles(w), Phase(w) # "idle",
           Hint(w) \/ Unfence(w) \/ UnfenceFails(w) \/ ObservationFails(w) \/ Crash(w),
           proc'[w].phase = "idle", ~proc'[w].lag, proc'[w].result \notin {"thrown", "crashed"}
    PROVE  Applicable(proc[w].contract) = None /\ UNCHANGED rootVars
<1>1. proc[w] \in Procs /\ proc \in [Workers -> Procs] /\ Shape(w) /\ Owed(w) /\ "crashed" \in Answers /\ "lagging" \in Answers
  BY ProcOf DEF Answers
<1>2. CASE Hint(w)
  <2> DEFINE d == Applicable(proc[w].contract)
  <2>1. CASE d # None
    <3>1. proc' = [proc EXCEPT ![w].phase = "fencing", ![w].debt = d]
      BY <1>2, <2>1 DEF Hint, Settles
    <3>2. proc'[w].phase = "fencing"
      BY <1>1, <3>1 DEF Procs
    <3> QED
      BY <3>2
  <2> QED
    BY <1>2, <2>1 DEF Hint
<1>3. ASSUME NEW c, c = proc[w].contract, standing[c] = "claimed", ~Holds(c, proc[w].debt),
             \A e \in DebtIds : Holds(c, e) => e = proc[w].debt, c \in Contracts
      PROVE  Applicable(c) = None
  BY <1>3, HeldDebtHeld
<1>4. CASE Phase(w) = "unfencing"
  <2>1. /\ standing[proc[w].contract] = "claimed" /\ proc[w].contract \in Contracts
        /\ \A e \in DebtIds : Holds(proc[w].contract, e) => e = proc[w].debt
        /\ \/ proc[w].lag \/ proc[w].result = "thrown" \/ ~Holds(proc[w].contract, proc[w].debt)
        /\ proc[w].disposition = "released" => holder[proc[w].debt] = ReleasedBy(proc[w].contract)
        /\ proc[w].debt \in DebtIds
    BY <1>1, <1>4 DEF Owed, Shape
  <2>2. ~Holds(proc[w].contract, proc[w].debt)
    <3>1. CASE Unfence(w)
      <4>1. proc'[w] = Ended(proc[w], proc[w].result) /\ proc[w].result \in Answers
        BY <1>1, <3>1 DEF Unfence, Unfenced, Settles, Procs
      <4>2. proc'[w].lag = proc[w].lag /\ proc'[w].result = proc[w].result
        BY <1>1, <4>1, EndedProc
      <4> QED
        BY <2>1, <4>2
    <3>2. CASE UnfenceFails(w)
      <4> DEFINE lag == proc[w].lag \/ proc[w].disposition # "released"
                 q == [proc[w] EXCEPT !.lag = lag]
      <4>1. proc'[w] = Ended(q, proc[w].result) /\ proc[w].result \in Answers
        BY <1>1, <3>2 DEF UnfenceFails, Settles, Procs
      <4>2. lag \in BOOLEAN
        BY <1>1, Zenon DEF Procs
      <4>3. q.lag = lag
        BY <1>1 DEF Procs
      <4>4. proc'[w].lag = lag
        BY <4>1, <4>3 DEF Ended
      <4>5. proc[w].disposition = "released"
        BY <4>4
      <4> QED
        BY <2>1, <4>5, SettlementFacts DEF Holds
    <3>3. CASE Crash(w)
      <4> DEFINE q == [proc[w] EXCEPT !.lag = FALSE]
      <4>1. proc'[w] = Ended(q, "crashed") /\ q \in Procs
        BY <1>1, <3>3 DEF Crash, Procs
      <4> HIDE DEF q
      <4>2. proc'[w].result = "crashed"
        BY <1>1, <4>1, EndedProc
      <4> QED
        BY <4>2
    <3> QED
      BY <1>4, <3>1, <3>2, <3>3 DEF Hint, ObservationFails
  <2> QED
    BY <1>3, <1>4, <2>1, <2>2 DEF Hint, Unfence, UnfenceFails, ObservationFails, Crash
<1>5. CASE ObservationFails(w) \/ (Crash(w) /\ Phase(w) # "unfencing")
  <2>1. CASE Crash(w)
    <3> DEFINE q == [proc[w] EXCEPT !.lag = FALSE]
    <3>1. proc'[w] = Ended(q, "crashed") /\ q \in Procs
      BY <1>1, <2>1 DEF Crash, Procs
    <3> HIDE DEF q
    <3>2. proc'[w].result = "crashed"
      BY <1>1, <3>1, EndedProc
    <3> QED
      BY <3>2
  <2>2. CASE ObservationFails(w)
    <3> DEFINE q == [proc[w] EXCEPT !.lag = TRUE]
    <3>1. proc'[w] = Ended(q, "lagging") /\ q \in Procs /\ q.lag = TRUE
      BY <1>1, <2>2 DEF ObservationFails, Procs, Settles
    <3> HIDE DEF q
    <3>2. proc'[w].lag = TRUE
      BY <1>1, <3>1, EndedProc
    <3> QED
      BY <3>2
  <2> QED
    BY <1>5, <2>1, <2>2
<1> QED
  BY <1>2, <1>4, <1>5 DEF Unfence, UnfenceFails

(* What a settlement reports is true, for any number of processes, contracts *)
(* and debts: what it calls released is, and without a lag and without an    *)
(* exception its contract holds no debt any more.                            *)
THEOREM ReportsAreHonest == Spec /\ []TakersLive => HonestReport
<1>1. Inv /\ Inv' /\ TakersLive /\ [Next]_vars =>
      [ /\ ReleasedIsDurable'
        /\ \A w \in Workers, c \in Contracts :
            /\ proc[w].contract = c /\ proc[w].verb = "settle" /\ Phase(w) # "idle" /\ proc'[w].phase = "idle"
            /\ ~proc'[w].lag /\ proc'[w].result \notin {"thrown", "crashed"}
            => Applicable(c)' = None]_vars
  <2> SUFFICES ASSUME Inv, Inv', TakersLive, [Next]_vars
               PROVE  [ /\ ReleasedIsDurable'
                        /\ \A w \in Workers, c \in Contracts :
                            /\ proc[w].contract = c /\ proc[w].verb = "settle" /\ Phase(w) # "idle" /\ proc'[w].phase = "idle"
                            /\ ~proc'[w].lag /\ proc'[w].result \notin {"thrown", "crashed"}
                            => Applicable(c)' = None]_vars
    OBVIOUS
  <2>1. ReleasedIsDurable'
    BY ReleasesLast, PTL
  <2>2. ASSUME NEW w \in Workers, Settles(w), Phase(w) # "idle", proc'[w].phase = "idle", ~proc'[w].lag,
               proc'[w].result \notin {"thrown", "crashed"}
        PROVE  Applicable(proc[w].contract) = None /\ UNCHANGED rootVars
    <3>1. proc'[w] # proc[w]
      BY <2>2 DEF Phase
    <3>2. CASE \E v \in Workers : Begin(v) \/ ContractStep(v) \/ ContractFault(v) \/ StoreStep(v)
      <4>1. PICK v \in Workers : Begin(v) \/ ContractStep(v) \/ ContractFault(v) \/ StoreStep(v)
        BY <3>2
      <4>2. v = w
        BY <3>1, <4>1, OneMoves DEF Inv, Types
      <4> QED
        BY <2>2, <4>1, <4>2, SettlerEnds, NothingOwed
    <3> QED
      BY <3>1, <3>2 DEF Next, OrphanCommits, OrphanDies, Edit, vars
  <2>3. \A c : UNCHANGED rootVars => Applicable(c)' = Applicable(c)
    BY DEF Applicable, HeldDebt, HeldBy, rootVars
  <2> QED
    BY <2>1, <2>2, <2>3 DEF Settles
<1>2. Inv => ReleasedIsDurable
  BY ReleasesLast
<1> QED
  BY <1>1, <1>2, InvHolds, PTL DEF Spec, HonestReport

-----------------------------------------------------------------------------
(* Nobody erases what another process wrote                                  *)

(* Between reading a debt and renaming its successor over it a process has   *)
(* the debt to itself.                                                       *)
LEMMA RenamesApart ==
    ASSUME StoreInv, \A v \in Workers : Guarded(v), NEW w \in Workers, NEW v \in Workers \ {w},
           Doing(v, "renaming")
    PROVE  /\ Doing(w, "renaming") => task[v].id # task[w].id
           /\ Doing(w, "unlinking") => task[v].id \notin task[w].listed
<1>1. TaskCustody(v) /\ TaskCustody(w) /\ Guarded(v) /\ Guarded(w) /\ v # None /\ w # None
  BY TaskOf, LockFacts
<1>2. Verb(v) # "create" => Owns(v, task[v].id)
  BY <1>1 DEF TaskCustody, Doing, Verb
<1>3. Verb(v) = "create" => Owns(v, Allocation)
  BY <1>1 DEF TaskCustody, Doing, Verb
<1>4. CASE Doing(w, "renaming")
  <2>1. /\ Verb(w) # "create" => Owns(w, task[w].id)
        /\ Verb(w) = "create" => Owns(w, Allocation)
    BY <1>1, <1>4 DEF TaskCustody, Doing, Verb
  <2>2. /\ debts[task[w].id] = None <=> Verb(w) = "create"
        /\ debts[task[v].id] = None <=> Verb(v) = "create"
    BY <1>1, <1>4 DEF Guarded
  <2>3. task[v].id # task[w].id
    BY <1>2, <1>3, <2>1, <2>2 DEF Owns
  <2> QED
    BY <1>4, <2>3 DEF Doing
<1>5. CASE Doing(w, "unlinking")
  <2>1. Owns(w, Allocation) /\ \A d \in task[w].listed : Owns(w, d)
    BY <1>1, <1>5 DEF TaskCustody, Doing
  <2> QED
    BY <1>2, <1>3, <1>5, <2>1 DEF Owns, Doing
<1> QED
  BY <1>4, <1>5

LEMMA GuardRests ==
    ASSUME NEW v \in Workers, Guarded(v), UNCHANGED <<debts, author>>,
           task'[v] = task[v] \/ task'[v].phase # "renaming"
    PROVE  Guarded(v)'
  BY DEF Guarded, Doing, Verb

(* A task that does not write leaves what the others are about to replace.   *)
LEMMA QuietTask ==
    ASSUME StoreInv, NEW w \in Workers,
           \/ Acquire(w) \/ Busy(w) \/ List(w) \/ Read(w) \/ Judge(w) \/ Unlock(w) \/ ReplaceFails(w) \/ UnlockFails(w)
    PROVE  /\ UNCHANGED <<debts, author>> /\ task'[w].phase # "renaming"
           /\ \A v \in Workers \ {w} : task'[v] = task[v]
<1>1. task[w] \in Tasks /\ task \in [Workers -> Tasks]
  BY TaskOf
<1>2. ASSUME NEW r, Finish(w, r)
      PROVE  task'[w].phase # "renaming" /\ \A v \in Workers \ {w} : task'[v] = task[v]
  <2>1. task'[w].phase = "unlocking"
    BY <1>1, <1>2 DEF Finish, Tasks
  <2> QED
    BY <1>1, <1>2, <2>1 DEF Finish
<1>3. ASSUME NEW d, NEW x, NEW y, Replace(w, d, x, y)
      PROVE  task'[w].phase # "renaming" /\ \A v \in Workers \ {w} : task'[v] = task[v]
  <2>1. task'[w].phase = "comparing"
    BY <1>1, <1>3 DEF Replace, Tasks
  <2> QED
    BY <1>1, <1>3, <2>1 DEF Replace
<1>4. ASSUME NEW t \in Tasks, NEW n
      PROVE  Item(t, n).phase = "locking"
  BY DEF Item, Tasks
<1>5. CASE Acquire(w)
  <2>1. PICK l \in task[w].want :
           task' = [task EXCEPT ![w].want = @ \ {l}, ![w].phase = IF task[w].want = {l} THEN Locked(w) ELSE @]
    BY <1>5 DEF Acquire, Least
  <2>2. task'[w].phase \in {"locking", "judging", "unlinking", "listing"}
    BY <1>1, <1>5, <2>1 DEF Acquire, Tasks, Locked, Doing
  <2> QED
    BY <1>1, <1>5, <2>1, <2>2 DEF Acquire
<1>6. CASE Busy(w)
  BY <1>2, <1>6 DEF Busy
<1>7. CASE List(w)
  <2>1. CASE Verb(w) # "nuke"
    <3>1. task'[w].phase = "reading"
      BY <1>1, <1>7, <2>1 DEF List, Tasks
    <3> QED
      BY <1>1, <1>7, <2>1, <3>1 DEF List
  <2>2. CASE Verb(w) = "nuke" /\ Present = {}
    BY <1>2, <1>7, <2>2 DEF List
  <2>3. CASE Verb(w) = "nuke" /\ Present # {}
    <3>1. task'[w].phase = "locking"
      BY <1>1, <1>7, <2>3 DEF List, Tasks
    <3> QED
      BY <1>1, <1>7, <2>3, <3>1 DEF List
  <2> QED
    BY <2>1, <2>2, <2>3
<1>8. CASE Read(w)
  <2> DEFINE board == [d \in DebtIds |-> IF d \in task[w].listed THEN debts[d] ELSE None]
  <2>1. CASE Finish(w, "vanished") \/ Finish(w, "corrupt")
    BY <1>2, <1>8, <2>1 DEF Read
  <2>2. CASE task' = [task EXCEPT ![w] = IF Verb(w) = "batch" THEN Item([@ EXCEPT !.board = board], 1)
                                         ELSE [@ EXCEPT !.board = board, !.phase = "judging"]]
    <3>1. task'[w].phase \in {"locking", "judging"}
      BY <1>1, <2>2 DEF Item, Tasks
    <3> QED
      BY <1>1, <1>8, <2>2, <3>1 DEF Read
  <2> QED
    BY <1>8, <2>1, <2>2 DEF Read
<1>9. CASE Judge(w)
  <2>1. \/ \E r : Finish(w, r)
        \/ \E d, x, y : Replace(w, d, x, y)
    BY <1>9 DEF Judge, JudgeCreate, JudgeUpdate, JudgeLifecycle, JudgeSettle
  <2>2. UNCHANGED <<debts, author>>
    BY <1>9 DEF Judge, JudgeCreate, JudgeUpdate, JudgeLifecycle, JudgeSettle
  <2> QED
    BY <1>2, <1>3, <2>1, <2>2
<1>10. CASE Unlock(w) \/ UnlockFails(w)
  <2>1. PICK t : /\ task' = [task EXCEPT ![w] = t]
                 /\ \/ t = Item(task[w], task[w].at + 1)
                    \/ t = [task[w] EXCEPT !.phase = "idle"]
                    \/ t = [task[w] EXCEPT !.phase = "idle", !.result = "thrown"]
    BY <1>1, <1>10 DEF Unlock, UnlockFails
  <2>2. t.phase \in {"locking", "idle"}
    <3>1. Item(task[w], task[w].at + 1).phase = "locking"
      BY <1>1, <1>4
    <3>2. [task[w] EXCEPT !.phase = "idle"].phase = "idle"
          /\ [task[w] EXCEPT !.phase = "idle", !.result = "thrown"].phase = "idle"
      BY <1>1 DEF Tasks
    <3> QED
      BY <2>1, <3>1, <3>2
  <2> QED
    BY <1>1, <1>10, <2>1, <2>2 DEF Unlock, UnlockFails
<1>11. CASE ReplaceFails(w)
  BY <1>2, <1>11 DEF ReplaceFails
<1> QED
  BY <1>5, <1>6, <1>7, <1>8, <1>9, <1>10, <1>11

LEMMA GuardKept ==
    ASSUME StoreInv, \A v \in Workers : Guarded(v), NEW w \in Workers, TaskStep(w) \/ TaskFault(w)
    PROVE  /\ \A v \in Workers : Guarded(v)'
           /\ \A v \in Workers, d \in DebtIds : Doing(v, "renaming") /\ debts'[d] # debts[d] /\ author'[d] = v
                 => debts[d] = task[v].expected \/ author[d] = "hand"
<1>1. task[w] \in Tasks /\ task \in [Workers -> Tasks] /\ TaskCustody(w) /\ debts \in Boards
      /\ author \in [DebtIds -> Workers \cup {None, "hand"}]
  BY TaskOf
<1>2. CASE \/ Acquire(w) \/ Busy(w) \/ List(w) \/ Read(w) \/ Judge(w) \/ Unlock(w) \/ ReplaceFails(w) \/ UnlockFails(w)
  <2>1. UNCHANGED <<debts, author>> /\ \A v \in Workers : Guarded(v)'
    BY <1>2, QuietTask, GuardRests
  <2> QED
    BY <2>1
<1>3. CASE Compare(w)
  <2>1. UNCHANGED <<debts, author>> /\ Doing(w, "comparing") /\ \A v \in Workers \ {w} : task'[v] = task[v]
    BY <1>1, <1>3 DEF Compare, Finish
  <2>2. CASE debts[task[w].id] = task[w].expected
    <3>1. task' = [task EXCEPT ![w].phase = "renaming"]
      BY <1>3, <2>2 DEF Compare
    <3>2. /\ task'[w].id = task[w].id /\ task'[w].expected = task[w].expected /\ task'[w].order = task[w].order
      BY <1>1, <3>1 DEF Tasks
    <3>3. task[w].expected = None <=> Verb(w) = "create"
      BY <1>1, <2>1 DEF TaskCustody, Verb, Doing
    <3> QED
      BY <2>1, <2>2, <3>2, <3>3, GuardRests DEF Guarded, Verb
  <2>3. CASE debts[task[w].id] # task[w].expected
    <3>1. task'[w].phase = "unlocking"
      BY <1>1, <1>3, <2>3 DEF Compare, Finish, Tasks
    <3> QED
      BY <2>1, <3>1, GuardRests
  <2> QED
    BY <2>2, <2>3
<1>4. CASE Rename(w) \/ SyncFails(w)
  <2>1. PICK r : Renamed(w, r) /\ Doing(w, "renaming")
    BY <1>4 DEF Rename, SyncFails
  <2>2. /\ debts' = [debts EXCEPT ![task[w].id] = task[w].next] /\ author' = [author EXCEPT ![task[w].id] = w]
        /\ \A v \in Workers \ {w} : task'[v] = task[v]
    BY <1>1, <2>1 DEF Renamed
  <2>3. task'[w].phase = "unlocking"
    BY <1>1, <2>1 DEF Renamed, Tasks
  <2>4. ASSUME NEW v \in Workers
        PROVE  Guarded(v)'
    <3>1. CASE v = w
      BY <2>3, <3>1 DEF Guarded, Doing
    <3>2. CASE v # w
      <4>1. Doing(v, "renaming") => task[v].id # task[w].id
        BY <2>1, <3>2, RenamesApart
      <4>2. Doing(v, "renaming") => debts'[task[v].id] = debts[task[v].id] /\ author'[task[v].id] = author[task[v].id]
        BY <2>2, <4>1
      <4> QED
        BY <2>2, <3>2, <4>2 DEF Guarded, Doing, Verb
    <3> QED
      BY <3>1, <3>2
  <2>5. ASSUME NEW v \in Workers, NEW d \in DebtIds, Doing(v, "renaming"), debts'[d] # debts[d], author'[d] = v
        PROVE  debts[d] = task[v].expected \/ author[d] = "hand"
    <3>1. d = task[w].id /\ v = w
      BY <1>1, <2>2, <2>5 DEF Boards
    <3> QED
      BY <2>5, <3>1 DEF Guarded
  <2> QED
    BY <2>4, <2>5
<1>5. CASE Unlink(w)
  <2>1. PICK e \in task[w].listed :
          /\ debts' = [debts EXCEPT ![e] = None] /\ author' = [author EXCEPT ![e] = w]
          /\ task' = IF task[w].listed = {e}
                        THEN [task EXCEPT ![w].listed = {}, ![w].phase = "unlocking", ![w].result = "removed"]
                        ELSE [task EXCEPT ![w].listed = @ \ {e}]
    BY <1>5 DEF Unlink, Least
  <2>2. Doing(w, "unlinking") /\ \A v \in Workers \ {w} : task'[v] = task[v]
    BY <1>1, <1>5, <2>1 DEF Unlink
  <2>3. task'[w].phase \in {"unlinking", "unlocking"}
    BY <1>1, <2>1, <2>2 DEF Tasks, Doing
  <2>4. ASSUME NEW v \in Workers
        PROVE  Guarded(v)'
    <3>1. CASE v = w
      BY <2>3, <3>1 DEF Guarded, Doing
    <3>2. CASE v # w
      <4>1. Doing(v, "renaming") => task[v].id # e
        BY <2>1, <2>2, <3>2, RenamesApart
      <4>2. Doing(v, "renaming") => debts'[task[v].id] = debts[task[v].id] /\ author'[task[v].id] = author[task[v].id]
        BY <2>1, <4>1
      <4> QED
        BY <2>2, <3>2, <4>2 DEF Guarded, Doing, Verb
    <3> QED
      BY <3>1, <3>2
  <2>5. ASSUME NEW v \in Workers, NEW d \in DebtIds, Doing(v, "renaming"), debts'[d] # debts[d], author'[d] = v
        PROVE  FALSE
    <3>1. v = w
      BY <1>1, <2>1, <2>5 DEF Boards
    <3> QED
      BY <2>2, <2>5, <3>1 DEF Doing
  <2> QED
    BY <2>4, <2>5
<1> QED
  BY <1>2, <1>3, <1>4, <1>5 DEF TaskStep, TaskFault

(* What the debt store relies on in its processes: that they ask for orders, *)
(* and pay for a debt they have.                                             *)
Fits(p) ==
    /\ p \in Procs
    /\ p.phase \notin {"idle", "ordering"} => p.contract \in Contracts /\ p.verb \in ContractVerbs
    /\ p.phase \in {"fencing", "confirming", "paying"} => p.debt \in DebtIds
Steady == StoreInv /\ root \in Nat /\ proc \in [Workers -> Procs] /\ \A w \in Workers : Fits(proc[w])

LEMMA GotoFits ==
    ASSUME NEW q, Fits(q), q.phase \notin {"idle", "ordering"}, NEW phase \in Phases,
           phase \in {"fencing", "confirming", "paying"} => q.debt \in DebtIds
    PROVE  Fits([q EXCEPT !.phase = phase])
<1> DEFINE p == [q EXCEPT !.phase = phase]
<1>1. p \in Procs /\ p.phase = phase /\ p.contract = q.contract /\ p.verb = q.verb /\ p.debt = q.debt
  BY DEF Fits, Procs
<1> HIDE DEF p
<1>2. Fits(p)
  BY <1>1 DEF Fits
<1> QED
  BY <1>2 DEF p

LEMMA OverFits ==
    ASSUME NEW p, Over(p)
    PROVE  Fits(p)
  BY SettlementFacts DEF Over, Fits

LEMMA LeavingFits ==
    ASSUME NEW q, Fits(q), q.phase \notin {"idle", "ordering"}, NEW r \in Answers
    PROVE  Fits(Leaving(q, r))
<1>1. CASE q.debt = None
  BY <1>1, LeavingProc, OverFits DEF Fits
<1>2. CASE q.debt # None
  <2> DEFINE p == [q EXCEPT !.phase = "unfencing", !.result = r]
  <2>1. Leaving(q, r) = p /\ p \in Procs
    BY <1>2, LeavingProc DEF Fits
  <2>2. p.phase = "unfencing" /\ p.contract = q.contract /\ p.verb = q.verb
    BY DEF Fits, Procs
  <2> HIDE DEF p
  <2> QED
    BY <2>1, <2>2 DEF Fits
<1> QED
  BY <1>1, <1>2

LEMMA EndedFits ==
    ASSUME NEW q \in Procs, NEW r \in Answers
    PROVE  Fits(Ended(q, r))
  BY EndedProc, OverFits DEF Over

(* An exchange of what does not matter here.                                 *)
LEMMA SameFits ==
    ASSUME NEW q, Fits(q), NEW p \in Procs, p.phase = q.phase, p.contract = q.contract, p.verb = q.verb, p.debt = q.debt
    PROVE  Fits(p)
  BY DEF Fits

LEMMA BeginFits ==
    ASSUME Steady, NEW w \in Workers, Begin(w)
    PROVE  \E p : Fits(p) /\ proc' = [proc EXCEPT ![w] = p]
<1> DEFINE op == Head(proc[w].agenda)
           rest == [Idle EXCEPT !.agenda = Tail(proc[w].agenda)]
<1>1. op \in Invocations /\ Tail(proc[w].agenda) \in Seq(Invocations)
  BY DEF Steady, Begin, Procs
<1>2. CASE op.verb = "order"
  <2> DEFINE p == [rest EXCEPT !.phase = "ordering", !.verb = "order"]
  <2>1. proc' = [proc EXCEPT ![w] = p]
    BY <1>2 DEF Begin
  <2>2. p \in Procs /\ p.phase = "ordering"
    BY <1>1 DEF Idle, Procs, Phases, Answers
  <2> HIDE DEF p
  <2> QED
    BY <2>1, <2>2 DEF Fits
<1>3. CASE op.verb # "order"
  <2> DEFINE p == [rest EXCEPT !.phase = FirstPhase(op), !.verb = op.verb, !.contract = op.contract,
                               !.debt = op.debt, !.attempt = 1]
  <2>1. proc' = [proc EXCEPT ![w] = p]
    BY <1>3 DEF Begin
  <2>2. op.verb \in ContractVerbs /\ op.contract \in Contracts /\ op.debt \in DebtIds \cup {None}
    BY <1>1, <1>3, InvocationFields
  <2>3. /\ FirstPhase(op) \in {"waiting", "fencing", "hinting"}
        /\ FirstPhase(op) = "fencing" => op.debt # None
    BY <2>2, SettlementFacts DEF FirstPhase
  <2> HIDE DEF op
  <2>4. p \in Procs /\ p.phase = FirstPhase(op) /\ p.contract = op.contract /\ p.verb = op.verb /\ p.debt = op.debt
    BY <1>1, <2>2, <2>3 DEF Idle, Procs, Phases, Answers
  <2> HIDE DEF p
  <2> QED
    BY <2>1, <2>2, <2>3, <2>4 DEF Fits
<1> QED
  BY <1>2, <1>3

LEMMA StepFits ==
    ASSUME Steady, NEW w \in Workers, Begin(w) \/ ContractStep(w) \/ ContractFault(w) \/ StoreStep(w)
    PROVE  \E p : Fits(p) /\ proc' = [proc EXCEPT ![w] = p]
<1>1. /\ Fits(proc[w]) /\ proc[w] \in Procs /\ proc \in [Workers -> Procs] /\ proc[w].result \in Answers
      /\ proc[w].debt \in DebtIds \cup {None} /\ proc[w].lag \in BOOLEAN
      /\ proc[w].disposition \in {None, "released", "inert", "held"} /\ task[w].result \in Answers
  BY TaskOf DEF Steady, Fits, Procs, Tasks, Answers
<1>2. \A r \in {"inert", "lagging", "thrown", "contended", "refused", "released", "held", "accepted", "retry",
                "exhausted", "crashed"} : r \in Answers
  BY DEF Answers, Results
<1>3. ASSUME NEW phase \in Phases, Goto(w, phase), Phase(w) \notin {"idle", "ordering"},
             phase \in {"fencing", "confirming", "paying"} => proc[w].debt \in DebtIds
      PROVE  \E p : Fits(p) /\ proc' = [proc EXCEPT ![w] = p]
  <2>1. proc' = [proc EXCEPT ![w] = [proc[w] EXCEPT !.phase = phase]]
    BY <1>1, <1>3 DEF Goto
  <2> QED
    BY <1>1, <1>3, <2>1, GotoFits DEF Phase
<1>5. ASSUME NEW r \in Answers, Phase(w) \notin {"idle", "ordering"}
      PROVE  /\ Fits(Leaving(proc[w], r)) /\ Fits(Ended(proc[w], r))
             /\ Fits(Leaving([proc[w] EXCEPT !.lag = TRUE], r)) /\ Fits(Ended([proc[w] EXCEPT !.lag = TRUE], r))
             /\ Fits(Leaving([[proc[w] EXCEPT !.disposition = "held"] EXCEPT !.lag = TRUE], r))
  <2> DEFINE p == [proc[w] EXCEPT !.lag = TRUE]
             q == [[proc[w] EXCEPT !.disposition = "held"] EXCEPT !.lag = TRUE]
  <2>1. /\ p \in Procs /\ p.phase = proc[w].phase /\ p.contract = proc[w].contract /\ p.verb = proc[w].verb
        /\ p.debt = proc[w].debt
        /\ q \in Procs /\ q.phase = proc[w].phase /\ q.contract = proc[w].contract /\ q.verb = proc[w].verb
        /\ q.debt = proc[w].debt
    BY <1>1 DEF Procs
  <2> HIDE DEF p, q
  <2>2. Fits(p) /\ Fits(q)
    BY <1>1, <2>1, SameFits
  <2>3. /\ Fits(Leaving(proc[w], r)) /\ Fits(Ended(proc[w], r)) /\ Fits(Leaving(p, r)) /\ Fits(Ended(p, r))
        /\ Fits(Leaving(q, r))
    BY <1>1, <1>5, <2>1, <2>2, LeavingFits, EndedFits DEF Phase
  <2> QED
    BY <2>3 DEF p, q
<1>6. ASSUME NEW r \in Answers, Close(w, r) \/ (r \in {"inert", "held", "released"} /\ CloseWith(w, r)),
             Phase(w) \notin {"idle", "ordering"}
      PROVE  \E p : Fits(p) /\ proc' = [proc EXCEPT ![w] = p]
  <2>1. ASSUME NEW p \in Procs, p.phase = "closing", p.contract = proc[w].contract, p.verb = proc[w].verb
        PROVE  Fits(p)
    BY <1>1, <1>6, <2>1 DEF Fits, Phase
  <2>2. CASE Close(w, r)
    <3> DEFINE p == [proc[w] EXCEPT !.phase = "closing", !.result = r]
    <3>1. p \in Procs /\ p.phase = "closing" /\ p.contract = proc[w].contract /\ p.verb = proc[w].verb
      BY <1>1 DEF Procs, Phases
    <3>2. proc' = [proc EXCEPT ![w] = p]
      BY <1>1, <2>2 DEF Close
    <3> HIDE DEF p
    <3> QED
      BY <2>1, <3>1, <3>2
  <2>3. CASE r \in {"inert", "held", "released"} /\ CloseWith(w, r)
    <3> DEFINE p == [proc[w] EXCEPT !.phase = "closing", !.result = r, !.disposition = r, !.lag = @ \/ r = "held"]
    <3>1. (proc[w].lag \/ r = "held") \in BOOLEAN
      BY <1>1, Zenon
    <3>2. p \in Procs /\ p.phase = "closing" /\ p.contract = proc[w].contract /\ p.verb = proc[w].verb
      BY <1>1, <2>3, <3>1 DEF Procs, Phases
    <3>3. proc' = [proc EXCEPT ![w] = p]
      BY <1>1, <2>3 DEF CloseWith
    <3> HIDE DEF p
    <3> QED
      BY <2>1, <3>2, <3>3
  <2> QED
    BY <1>6, <2>2, <2>3
<1>7. CASE Begin(w)
  BY <1>7, BeginFits
<1>8. CASE StoreStep(w)
  <2>1. proc' = [proc EXCEPT ![w] = proc[w]]
    BY <1>1, <1>8 DEF StoreStep
  <2> QED
    BY <1>1, <2>1
<1>9. CASE Hint(w)
  <2> DEFINE c == proc[w].contract
             d == IF proc[w].verb = "abandon" THEN HeldDebt(c) ELSE Applicable(c)
  <2>1. d \in DebtIds \cup {None}
    BY DEF HeldDebt, Applicable
  <2>2. CASE d # None
    <3>1. proc' = [proc EXCEPT ![w].phase = "fencing", ![w].debt = d]
      BY <1>9, <2>2 DEF Hint
    <3>2. Phase(w) = "hinting"
      BY <1>9 DEF Hint
    <3> HIDE DEF d
    <3> DEFINE p == [proc[w] EXCEPT !.phase = "fencing", !.debt = d]
    <3>3. p \in Procs /\ p.phase = "fencing" /\ p.contract = proc[w].contract /\ p.verb = proc[w].verb /\ p.debt = d
      BY <1>1, <2>1 DEF Procs, Phases
    <3>4. proc' = [proc EXCEPT ![w] = p]
      BY <1>1, <3>1
    <3> HIDE DEF p
    <3> QED
      BY <1>1, <2>1, <2>2, <3>2, <3>3, <3>4 DEF Fits, Phase
  <2>3. CASE d = None /\ proc[w].verb = "abandon"
    BY <1>3, <1>9, <2>3 DEF Hint, Phases
  <2>4. CASE d = None /\ proc[w].verb # "abandon"
    <3>1. proc' = [proc EXCEPT ![w] = Ended(proc[w], "inert")]
      BY <1>1, <1>9, <2>4 DEF Hint
    <3> QED
      BY <1>2, <1>5, <1>9, <3>1 DEF Hint
  <2> QED
    BY <2>2, <2>3, <2>4
<1>10. CASE AcquireFence(w) \/ Pay(w) \/ AcquireSeat(w) \/ Kill(w)
  <2>1. Phase(w) = "fencing" => proc[w].debt \in DebtIds
    BY <1>1 DEF Fits, Phase
  <2>2. CASE AcquireFence(w)
    BY <1>3, <2>1, <2>2 DEF AcquireFence, Phases
  <2>3. CASE Pay(w)
    BY <1>3, <2>3 DEF Pay, Phases
  <2>4. CASE AcquireSeat(w)
    BY <1>3, <2>4 DEF AcquireSeat, Phases
  <2>5. CASE Kill(w)
    BY <1>3, <2>5 DEF Kill, Phases
  <2> QED
    BY <1>10, <2>2, <2>3, <2>4, <2>5
<1>11. CASE Confirm(w)
  <2>1. Phase(w) = "confirming" /\ proc[w].debt \in DebtIds
    BY <1>1, <1>11 DEF Confirm, Fits, Phase
  <2>2. CASE Goto(w, "paying")
    BY <1>3, <2>1, <2>2 DEF Phases
  <2>3. CASE Leave(w, "inert")
    <3>1. proc' = [proc EXCEPT ![w] = Leaving(proc[w], "inert")]
      BY <1>1, <2>3 DEF Leave
    <3> QED
      BY <1>2, <1>5, <2>1, <3>1
  <2> QED
    BY <1>11, <2>2, <2>3 DEF Confirm
<1>12. CASE Paid(w)
  <2>1. Phase(w) = "settling"
    BY <1>12 DEF Paid
  <2>2. CASE Goto(w, "waiting")
    BY <1>3, <2>1, <2>2 DEF Phases
  <2>3. \/ Goto(w, "waiting")
        \/ proc' = [proc EXCEPT ![w] = Leaving(proc[w], "thrown")]
        \/ proc' = [proc EXCEPT ![w] = Leaving([proc[w] EXCEPT !.lag = TRUE], "lagging")]
    BY <1>1, <1>12 DEF Paid, Lagging
  <2> QED
    BY <1>2, <1>5, <2>1, <2>2, <2>3
<1>13. CASE Ordered(w)
  <2>1. proc' = [proc EXCEPT ![w] = Ended(proc[w], task[w].result)]
    BY <1>1, <1>13 DEF Ordered
  <2> QED
    BY <1>1, <2>1, EndedFits
<1>14. CASE SeatTimeout(w) \/ ObservationFails(w) \/ ConfirmFails(w)
  <2>1. Phase(w) \notin {"idle", "ordering"}
    BY <1>14 DEF SeatTimeout, ObservationFails, ConfirmFails
  <2>2. \/ proc' = [proc EXCEPT ![w] = Leaving(proc[w], "thrown")]
        \/ proc' = [proc EXCEPT ![w] = Leaving(proc[w], "contended")]
        \/ proc' = [proc EXCEPT ![w] = Ended([proc[w] EXCEPT !.lag = TRUE], "lagging")]
        \/ proc' = [proc EXCEPT ![w] = Ended(proc[w], "thrown")]
        \/ proc' = [proc EXCEPT ![w] = Leaving([proc[w] EXCEPT !.lag = TRUE], "lagging")]
    BY <1>1, <1>14 DEF SeatTimeout, ObservationFails, ConfirmFails, Lagging
  <2> QED
    BY <1>2, <1>5, <2>1, <2>2
<1>15. CASE DecideAdmission(w) \/ DecideRelease(w)
  <2>1. Phase(w) = "seated"
    BY <1>15 DEF DecideAdmission, DecideRelease
  <2>2. \/ Close(w, "refused") \/ CloseWith(w, "inert")
        \/ \E taken, freed \in DebtIds \cup {None} : Offer(w, taken, freed)
    <3>1. HeldDebt(proc[w].contract) \in DebtIds \cup {None}
      BY DEF HeldDebt
    <3>2. CASE DecideAdmission(w)
      <4>1. (IF proc[w].verb = "bind" THEN proc[w].debt ELSE None) \in DebtIds \cup {None}
            /\ (IF proc[w].verb = "abandon" THEN HeldDebt(proc[w].contract) ELSE None) \in DebtIds \cup {None}
        BY <1>1, <3>1
      <4> QED
        BY <3>2, <4>1 DEF DecideAdmission
    <3>3. CASE DecideRelease(w)
      BY <1>1, <3>3 DEF DecideRelease
    <3> QED
      BY <1>15, <3>2, <3>3
  <2>3. ASSUME NEW taken \in DebtIds \cup {None}, NEW freed \in DebtIds \cup {None}, Offer(w, taken, freed)
        PROVE  \E p : Fits(p) /\ proc' = [proc EXCEPT ![w] = p]
    <3> DEFINE o == [seen |-> root, verb |-> proc[w].verb, contract |-> proc[w].contract, taken |-> taken, freed |-> freed]
               p == [proc[w] EXCEPT !.phase = "publishing", !.offer = o]
    <3>1. o \in Offers
      BY <1>1, <2>1 DEF Offers, Fits, Phase, Steady
    <3>2. proc' = [proc EXCEPT ![w] = p]
      BY <1>1, <2>3 DEF Offer
    <3> HIDE DEF o
    <3>3. p \in Procs /\ p.phase = "publishing" /\ p.contract = proc[w].contract /\ p.verb = proc[w].verb
      BY <1>1, <3>1 DEF Procs, Phases
    <3> HIDE DEF p
    <3> QED
      BY <1>1, <2>1, <3>2, <3>3 DEF Fits, Phase
  <2> QED
    BY <1>2, <1>6, <2>1, <2>2, <2>3
<1>16. CASE Publish(w) \/ Reject(w) \/ Recover(w) \/ RecoverFails(w)
  <2>1. Phase(w) \in {"publishing", "unknown"}
    BY <1>16 DEF Publish, Reject, Recover, RecoverFails
  <2>2. \/ CloseWith(w, "released") \/ Close(w, "accepted") \/ CloseWith(w, "held") \/ Close(w, "retry")
        \/ Close(w, "thrown")
    BY <1>16 DEF Publish, Reject, Recover, RecoverFails, Settled, NotSettled
  <2> QED
    BY <1>2, <1>6, <2>1, <2>2
<1>17. CASE CloseSeat(w) \/ CloseSeatFails(w)
  <2>1. Phase(w) = "closing"
    BY <1>17 DEF CloseSeat, CloseSeatFails
  <2>2. \/ proc' = [proc EXCEPT ![w] = Leaving(proc[w], proc[w].result)]
        \/ proc' = [proc EXCEPT ![w] = Leaving(proc[w], "exhausted")]
        \/ proc' = [proc EXCEPT ![w] = Leaving(proc[w], "thrown")]
        \/ proc' = [proc EXCEPT ![w] = Leaving([[proc[w] EXCEPT !.disposition = "held"] EXCEPT !.lag = TRUE], "held")]
        \/ proc' = [proc EXCEPT ![w] = Again(proc[w])]
    BY <1>1, <1>17 DEF CloseSeat, CloseSeatFails, Lagging
  <2>3. Fits(Again(proc[w]))
    <3> DEFINE p == Again(proc[w])
    <3>1. proc[w].attempt + 1 \in Nat
      BY <1>1 DEF Procs
    <3>2. p \in Procs /\ p.phase = "waiting" /\ p.contract = proc[w].contract /\ p.verb = proc[w].verb
      BY <1>1, <3>1 DEF Again, Procs, Phases, Answers
    <3> HIDE DEF p
    <3>3. Fits(p)
      BY <1>1, <2>1, <3>2 DEF Fits, Phase
    <3> QED
      BY <3>3 DEF p
  <2> QED
    BY <1>1, <1>2, <1>5, <2>1, <2>2, <2>3
<1>18. CASE Unfence(w) \/ UnfenceFails(w)
  <2>1. Phase(w) = "unfencing" /\ proc[w].contract \in Contracts
    BY <1>1, <1>18 DEF Unfence, UnfenceFails, Fits, Phase
  <2> DEFINE q == [proc[w] EXCEPT !.lag = proc[w].lag \/ proc[w].disposition # "released"]
  <2>2. \/ proc' = [proc EXCEPT ![w] = Unfenced(proc[w])]
        \/ proc' = [proc EXCEPT ![w] = AfterAdmission(proc[w], "accepted")]
        \/ proc' = [proc EXCEPT ![w] = Ended(proc[w], "thrown")]
        \/ proc' = [proc EXCEPT ![w] = Ended(q, proc[w].result)]
    BY <1>1, <1>18 DEF Unfence, UnfenceFails
  <2>3. q \in Procs
    <3>1. (proc[w].lag \/ proc[w].disposition # "released") \in BOOLEAN
      BY <1>1, Zenon
    <3> QED
      BY <1>1, <3>1 DEF Procs
  <2> HIDE DEF q
  <2>4. Fits(Unfenced(proc[w])) /\ Fits(AfterAdmission(proc[w], "accepted"))
    BY <1>1, <1>2, <2>1, UnfencedOver, AfterAdmissionOver, OverFits
  <2> QED
    BY <1>1, <1>2, <1>5, <2>1, <2>2, <2>3, <2>4, EndedFits
<1>19. CASE Crash(w)
  <2> DEFINE q == [proc[w] EXCEPT !.lag = FALSE]
  <2>1. proc' = [proc EXCEPT ![w] = Ended(q, "crashed")] /\ q \in Procs
    BY <1>1, <1>19 DEF Crash, Procs
  <2> HIDE DEF q
  <2> QED
    BY <1>2, <2>1, EndedFits
<1> QED
  BY <1>7, <1>8, <1>9, <1>10, <1>11, <1>12, <1>13, <1>14, <1>15, <1>16, <1>17, <1>18, <1>19 DEF ContractStep, ContractFault

LEMMA StoreFields ==
    ASSUME StoreInv
    PROVE  budget \in [edits : Nat, faults : Nat, kills : Nat, mortal : SUBSET Workers] /\ debts \in Boards
           /\ author \in [DebtIds -> Workers \cup {None, "hand"}] /\ task \in [Workers -> Tasks]
  BY DEF StoreInv, StoreTypes

(* The debt store's part of each step.                                       *)
LEMMA StoreKept ==
    ASSUME Steady, NEW w \in Workers, Begin(w) \/ ContractStep(w) \/ ContractFault(w) \/ StoreStep(w)
    PROVE  /\ StoreInv'
           /\ \/ TaskStep(w) \/ TaskFault(w)
              \/ /\ UNCHANGED <<debts, author>>
                 /\ task'[w] = task[w] \/ task'[w].phase # "renaming"
                 /\ \A v \in Workers \ {w} : task'[v] = task[v]
<1>1. StoreInv /\ task \in [Workers -> Tasks] /\ Fits(proc[w])
  BY StoreFields DEF Steady
<1>2. ASSUME UNCHANGED storeVars \/ (Fault /\ StoreStill)
      PROVE  StoreInv' /\ UNCHANGED <<debts, author, task>>
  BY <1>1, <1>2, FewerFaults, StoreRests, StoreFields DEF Fault, StoreStill, storeVars
<1>3. ASSUME NEW o \in Orders, StartTask(w, o), Doing(w, "idle"), UNCHANGED <<debts, author, custody, budget>>
      PROVE  /\ StoreInv' /\ UNCHANGED <<debts, author>> /\ task'[w].phase # "renaming"
             /\ \A v \in Workers \ {w} : task'[v] = task[v]
  <2>1. StoreInv' /\ task'[w].phase \in {"locking", "listing"}
    BY <1>1, <1>3, Starting
  <2> QED
    BY <1>1, <1>3, <2>1 DEF StartTask
<1>4. CASE StoreStep(w)
  BY <1>1, <1>4, TaskStepKeeps DEF StoreStep
<1>5. CASE Begin(w)
  <2> DEFINE op == Head(proc[w].agenda)
  <2>1. op \in Invocations
    BY <1>1, <1>5 DEF Fits, Begin, Procs
  <2>2. CASE op.verb = "order"
    BY <1>3, <1>5, <2>1, <2>2, InvocationFields DEF Begin
  <2>3. CASE op.verb # "order"
    <3>1. UNCHANGED storeVars
      BY <1>5, <2>3 DEF Begin, storeVars
    <3> QED
      BY <1>2, <3>1
  <2> QED
    BY <2>2, <2>3
<1>6. CASE Pay(w)
  <2>1. [verb |-> "settle", ids |-> <<proc[w].debt>>] \in Orders
    <3>1. proc[w].debt \in DebtIds
      BY <1>1, <1>6 DEF Pay, Fits, Phase
    <3> QED
      BY <3>1 DEF Orders, Single
  <2> QED
    BY <1>3, <1>6, <2>1 DEF Pay
<1>7. CASE Kill(w)
  <2>1. budget' \in [edits : Nat, faults : Nat, kills : Nat, mortal : SUBSET Workers]
    <3>1. budget \in [edits : Nat, faults : Nat, kills : Nat, mortal : SUBSET Workers] /\ budget.kills - 1 \in Nat
      BY <1>1, <1>7, StoreFields DEF Kill
    <3> QED
      BY <1>7, <3>1 DEF Kill
  <2> QED
    BY <1>1, <1>7, <2>1, StoreRests, StoreFields DEF Kill, StoreStill
<1>8. CASE Crash(w)
  <2>1. budget' \in [edits : Nat, faults : Nat, kills : Nat, mortal : SUBSET Workers]
    BY <1>1, <1>8, StoreFields DEF Crash
  <2>2. StoreInv' /\ Doing(w, "idle")' /\ \A v \in Workers \ {w} : task'[v] = task[v]
    BY <1>1, <1>8, <2>1, DieKeeps DEF Crash
  <2> QED
    BY <1>8, <2>2 DEF Crash, Doing
<1>9. CASE \/ Hint(w) \/ AcquireFence(w) \/ Confirm(w) \/ Paid(w) \/ Ordered(w) \/ AcquireSeat(w) \/ SeatTimeout(w)
           \/ DecideAdmission(w) \/ DecideRelease(w) \/ Publish(w) \/ Reject(w) \/ Recover(w) \/ CloseSeat(w) \/ Unfence(w)
  <2>1. UNCHANGED storeVars
    BY <1>9 DEF Hint, AcquireFence, Confirm, Paid, Ordered, AcquireSeat, SeatTimeout, DecideAdmission, DecideRelease,
                Publish, Reject, Recover, CloseSeat, Unfence
  <2> QED
    BY <1>2, <2>1
<1>10. CASE ObservationFails(w) \/ ConfirmFails(w) \/ RecoverFails(w) \/ CloseSeatFails(w) \/ UnfenceFails(w)
  <2>1. Fault /\ StoreStill
    BY <1>10 DEF ObservationFails, ConfirmFails, RecoverFails, CloseSeatFails, UnfenceFails
  <2> QED
    BY <1>2, <2>1
<1> QED
  BY <1>4, <1>5, <1>6, <1>7, <1>8, <1>9, <1>10 DEF ContractStep, ContractFault

LEMMA RootCounts ==
    ASSUME root \in Nat, NEW w \in Workers, Begin(w) \/ ContractStep(w) \/ ContractFault(w) \/ StoreStep(w)
    PROVE  root' \in Nat
<1>1. CASE Publish(w) \/ Kill(w)
  BY <1>1 DEF Publish, Kill, Commit, rootVars
<1>2. CASE \/ Begin(w) \/ Hint(w) \/ AcquireFence(w) \/ Confirm(w) \/ Pay(w) \/ Paid(w) \/ Ordered(w) \/ AcquireSeat(w)
           \/ SeatTimeout(w) \/ DecideAdmission(w) \/ DecideRelease(w) \/ Reject(w) \/ Recover(w) \/ CloseSeat(w)
           \/ Unfence(w) \/ ObservationFails(w) \/ ConfirmFails(w) \/ RecoverFails(w) \/ CloseSeatFails(w)
           \/ UnfenceFails(w) \/ Crash(w) \/ StoreStep(w)
  <2>1. UNCHANGED rootVars
    BY <1>2 DEF Begin, Hint, AcquireFence, Confirm, Pay, Paid, Ordered, AcquireSeat, SeatTimeout, DecideAdmission,
                DecideRelease, Reject, Recover, CloseSeat, Unfence, ObservationFails, ConfirmFails, RecoverFails,
                CloseSeatFails, UnfenceFails, Crash, StoreStep
  <2> QED
    BY <2>1 DEF rootVars
<1> QED
  BY <1>1, <1>2 DEF ContractStep, ContractFault

LEMMA SteadyKeeps ==
    ASSUME Steady, [Next]_vars
    PROVE  Steady'
<1>1. CASE \E w \in Workers : Begin(w) \/ ContractStep(w) \/ ContractFault(w) \/ StoreStep(w)
  <2>1. PICK w \in Workers : Begin(w) \/ ContractStep(w) \/ ContractFault(w) \/ StoreStep(w)
    BY <1>1
  <2>2. StoreInv' /\ root' \in Nat
    BY <2>1, StoreKept, RootCounts DEF Steady
  <2>3. PICK p : Fits(p) /\ proc' = [proc EXCEPT ![w] = p]
    BY <2>1, StepFits
  <2> QED
    BY <2>2, <2>3 DEF Steady, Fits
<1>2. CASE \E o \in orphans : OrphanCommits(o) \/ OrphanDies(o)
  <2>1. UNCHANGED <<debts, author, custody, task, budget, proc>> /\ root' \in Nat
    BY <1>2 DEF OrphanCommits, OrphanDies, Commit, rootVars, storeVars, Steady
  <2>2. StoreInv'
    BY <2>1, StoreRests, StoreFields DEF Steady
  <2> QED
    BY <2>1, <2>2 DEF Steady
<1>3. CASE \E d \in DebtIds : Edit(d)
  BY <1>3, EditKeeps DEF Edit, Steady, rootVars
<1>4. CASE UNCHANGED vars
  <2>1. StoreInv'
    BY <1>4, StoreRests, StoreFields DEF vars, storeVars, Steady
  <2> QED
    BY <1>4, <2>1 DEF vars, rootVars, Steady
<1> QED
  BY <1>1, <1>2, <1>3, <1>4 DEF Next

(* One step, and what a person does in it.                                   *)
LEMMA NextGuards ==
    ASSUME Steady, \A v \in Workers : Guarded(v), [Next]_vars,
           \A d \in DebtIds : author'[d] = "hand" /\ debts'[d] # debts[d] => debts[d] # None /\ debts'[d] # None
    PROVE  /\ \A v \in Workers : Guarded(v)'
           /\ \A v \in Workers, d \in DebtIds : Doing(v, "renaming") /\ debts'[d] # debts[d] /\ author'[d] = v
                 => debts[d] = task[v].expected \/ author[d] = "hand"
<1>1. StoreInv
  BY DEF Steady
<1>2. CASE \E w \in Workers : Begin(w) \/ ContractStep(w) \/ ContractFault(w) \/ StoreStep(w)
  <2>1. PICK w \in Workers : Begin(w) \/ ContractStep(w) \/ ContractFault(w) \/ StoreStep(w)
    BY <1>2
  <2>2. CASE TaskStep(w) \/ TaskFault(w)
    BY <1>1, <2>2, GuardKept
  <2>3. CASE /\ UNCHANGED <<debts, author>>
             /\ task'[w] = task[w] \/ task'[w].phase # "renaming"
             /\ \A v \in Workers \ {w} : task'[v] = task[v]
    BY <2>3, GuardRests
  <2> QED
    BY <2>1, <2>2, <2>3, StoreKept
<1>3. CASE (\E o \in orphans : OrphanCommits(o) \/ OrphanDies(o)) \/ UNCHANGED vars
  <2>1. UNCHANGED <<debts, author, task>>
    BY <1>3 DEF OrphanCommits, OrphanDies, storeVars, vars
  <2> QED
    BY <2>1, GuardRests
<1>4. CASE \E d \in DebtIds : Edit(d)
  <2>1. PICK d \in DebtIds : EditByHand(d)
    BY <1>4 DEF Edit
  <2>2. /\ author' = [author EXCEPT ![d] = "hand"] /\ debts'[d] # debts[d] /\ task' = task
        /\ \A e \in DebtIds \ {d} : debts'[e] = debts[e] /\ author'[e] = author[e]
        /\ author'[d] = "hand"
    BY <1>1, <2>1, StoreFields DEF EditByHand, Boards
  <2>3. debts[d] # None /\ debts'[d] # None
    BY <2>2
  <2>4. ASSUME NEW v \in Workers
        PROVE  Guarded(v)'
    <3>1. Doing(v, "renaming") => task[v].id \in DebtIds
      BY <1>1, TaskOf DEF TaskCustody, Doing
    <3>2. CASE task[v].id = d
      BY <2>2, <2>3, <3>2 DEF Guarded, Doing, Verb
    <3>3. CASE task[v].id # d
      BY <2>2, <3>1, <3>3 DEF Guarded, Doing, Verb
    <3> QED
      BY <3>2, <3>3
  <2>5. \A v \in Workers, e \in DebtIds : ~(debts'[e] # debts[e] /\ author'[e] = v)
    BY <2>2, LockFacts
  <2> QED
    BY <2>4, <2>5
<1> QED
  BY <1>2, <1>3, <1>4 DEF Next

(* store.ts, for any number of processes and debts: a rename replaces what   *)
(* its process read, or what a person has saved since.                       *)
THEOREM NothingIsClobbered == Spec /\ HandsOnlyEdit => NeverClobber
<1> DEFINE G == \A v \in Workers : Guarded(v)
           H == \A d \in DebtIds : author'[d] = "hand" /\ debts'[d] # debts[d] => debts[d] # None /\ debts'[d] # None
           N == \A w \in Workers, d \in DebtIds :
                  Doing(w, "renaming") /\ debts'[d] # debts[d] /\ author'[d] = w
                     => debts[d] = task[w].expected \/ author[d] = "hand"
<1>1. Init => Steady /\ G
  <2>1. Init => Inv
    BY InitHolds
  <2>2. Init => \A w \in Workers : task[w].phase = "idle" /\ proc[w].phase = "idle"
    BY DEF Init, StoreInit, NoTask, Idle
  <2>3. Inv /\ (\A w \in Workers : task[w].phase = "idle" /\ proc[w].phase = "idle") => Steady /\ G
    BY DEF Inv, Types, Steady, Fits, Guarded, Doing
  <2> QED
    BY <2>1, <2>2, <2>3
<1>2. Steady /\ [Next]_vars => Steady'
  BY SteadyKeeps
<1>3. Steady /\ G /\ [Next]_vars /\ [H]_vars => G' /\ [N]_storeVars
  <2> SUFFICES ASSUME Steady, G, [Next]_vars, [H]_vars
               PROVE  G' /\ [N]_storeVars
    OBVIOUS
  <2>1. H
    BY DEF vars, storeVars
  <2> QED
    BY <2>1, NextGuards
<1> QED
  BY <1>1, <1>2, <1>3, PTL DEF Spec, HandsOnlyEdit, NeverClobber
=============================================================================
