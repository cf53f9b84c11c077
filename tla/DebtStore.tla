------------------------------ MODULE DebtStore ------------------------------
(***************************************************************************)
(* The debt ledger of one World: one Markdown file per debt, rewritten by  *)
(* concurrent processes and, at any moment, by a person's editor.          *)
(* Processes lock the debts they address, and the allocation of new        *)
(* identities, with SQLite locks that are taken in one order; each         *)
(* replacement compares the file with what was read before it renames the  *)
(* successor over it.  A batch judges against one board read before its    *)
(* locks.  Comparing and renaming are two steps, so an editor may slip in  *)
(* between them; another process must not.                                 *)
(***************************************************************************)
EXTENDS Naturals, FiniteSets, Sequences

CONSTANTS
    DebtIds,      \* debt identities, in the order of their bytes
    Workers,      \* processes
    Texts,        \* what a title, a note and a body say
    Manual,       \* what a person may write in a debt's file
    Now,          \* the clock
    Corrupt,      \* a file that does not parse
    None

Allocation == 0                           \* debt-allocation.sqlite, taken before any debt's lock
Locks == {Allocation} \cup DebtIds

Relations == {"needs", "parent", "supersedes", "relates"}
DebtStates == {"open", "done", "drop"}
Links == [Relations -> SUBSET DebtIds]
Debt == [state : DebtStates, links : Links, text : Texts, stamp : Nat]
Boards == [DebtIds -> Debt \cup {Corrupt, None}]

(* What a process may be told to do with the ledger.                       *)
Single == {<<d>> : d \in DebtIds}
Orders ==
    [verb : {"create"}, ids : {<<>>}, record : Debt]
    \cup [verb : {"update"}, ids : Single, text : Texts \cup {None}, set : [Relations -> (SUBSET DebtIds) \cup {None}],
          add : Links, drop : Links]
    \cup [verb : {"done", "drop", "settle"}, ids : Single]
    \cup [verb : {"batch"}, ids : Seq(DebtIds) \ {<<>>}, to : {"done", "drop"}]
    \cup [verb : {"nuke"}, ids : {<<>>}]

ASSUME DebtAssumption ==
    /\ DebtIds \subseteq Nat \ {Allocation}
    /\ Now \in Nat
    /\ None \notin Debt \cup Workers \cup {Corrupt} \cup Texts \cup DebtIds
    /\ Corrupt \notin Debt
    /\ "hand" \notin Workers
    /\ Manual \subseteq Debt \cup {Corrupt, None}

VARIABLES
    debts,        \* the files
    author,       \* history: who wrote each file last, "hand" for a person
    custody,      \* the holder of each lock, or None
    task,         \* what each process is doing
    budget        \* edits by hand, faults and kills still to come, and who may still die

storeVars == <<debts, author, custody, task, budget>>

NoTask == [order |-> None, phase |-> "idle", want |-> {}, listed |-> {}, board |-> None, at |-> 0,
           id |-> None, expected |-> None, next |-> None, result |-> None]

Empty == [d \in DebtIds |-> None]

StoreInit(board, bounds) ==
    /\ debts = board
    /\ author = [d \in DebtIds |-> None]
    /\ custody = [l \in Locks |-> None]
    /\ task = [w \in Workers |-> NoTask]
    /\ budget = bounds

Verb(w) == task[w].order.verb
Least(S) == {x \in S : \A y \in S : x <= y}
Present == {d \in DebtIds : debts[d] # None}
Doing(w, phase) == task[w].phase = phase

Finish(w, result) == task' = [task EXCEPT ![w].phase = "unlocking", ![w].result = result]

----------------------------------------------------------------------------
(* Locks (withDebtLocks): allocation first, then debts in order.  A wait   *)
(* of three seconds for a lock that another holds ends in "busy".          *)

LocksOf(order) ==
    CASE order.verb \in {"create", "nuke"} -> {Allocation}
      [] order.verb = "batch" -> {}
      [] OTHER -> {order.ids[1]}

StartTask(w, order) ==
    task' = [task EXCEPT ![w] = [NoTask EXCEPT
                !.order = order,
                !.want = LocksOf(order),
                !.phase = IF order.verb = "batch" THEN "listing" ELSE "locking",
                !.id = IF order.verb \in {"update", "done", "drop", "settle"} THEN order.ids[1] ELSE None]]

Locked(w) ==
    CASE Verb(w) = "batch" -> "judging"
      [] Verb(w) = "nuke" /\ task[w].listed # {} -> "unlinking"
      [] OTHER -> "listing"

Acquire(w) ==
    /\ Doing(w, "locking")
    /\ \E l \in Least(task[w].want) :
       /\ custody[l] = None
       /\ custody' = [custody EXCEPT ![l] = w]
       /\ task' = [task EXCEPT ![w].want = @ \ {l}, ![w].phase = IF task[w].want = {l} THEN Locked(w) ELSE @]
    /\ UNCHANGED <<debts, author, budget>>

Busy(w) ==
    /\ Doing(w, "locking")
    /\ \E l \in Least(task[w].want) : custody[l] \notin {None, w}
    /\ Finish(w, "busy")
    /\ UNCHANGED <<debts, author, custody, budget>>

----------------------------------------------------------------------------
(* The board: the directory is listed, then its files are read.  A file    *)
(* that is gone by then, or that does not parse, fails the whole read.  A  *)
(* reset only lists, and then takes the locks of all that it has listed.   *)

List(w) ==
    /\ Doing(w, "listing")
    /\ IF Verb(w) # "nuke"
          THEN task' = [task EXCEPT ![w].listed = Present, ![w].phase = "reading"]
       ELSE IF Present = {} THEN Finish(w, "removed")
       ELSE task' = [task EXCEPT ![w].listed = Present, ![w].want = Present, ![w].phase = "locking"]
    /\ UNCHANGED <<debts, author, custody, budget>>

(* The next debt of a batch, with its lock still to take. *)
Item(t, at) == [t EXCEPT !.at = at, !.id = t.order.ids[at], !.want = {t.order.ids[at]}, !.phase = "locking",
                         !.result = None]

Read(w) ==
    /\ Doing(w, "reading")
    /\ LET board == [d \in DebtIds |-> IF d \in task[w].listed THEN debts[d] ELSE None] IN
       IF \E d \in task[w].listed : debts[d] = None THEN Finish(w, "vanished")
       ELSE IF \E d \in task[w].listed : debts[d] = Corrupt THEN Finish(w, "corrupt")
       ELSE task' = [task EXCEPT ![w] = IF Verb(w) = "batch" THEN Item([@ EXCEPT !.board = board], 1)
                                        ELSE [@ EXCEPT !.board = board, !.phase = "judging"]]
    /\ UNCHANGED <<debts, author, custody, budget>>

----------------------------------------------------------------------------
(* Judgments on the board that was read. *)

Advance(stamp) == IF Now > stamp THEN Now ELSE stamp + 1      \* advanceDebtTimestamp

(* A newly declared relation names another debt that exists. *)
RelationProblem(board, d, before, after) ==
    \E r \in Relations : \E t \in after.links[r] \ before[r] : t = d \/ board[t] = None

NoLinks == [r \in Relations |-> {}]

Replace(w, d, expected, next) ==
    task' = [task EXCEPT ![w].phase = "comparing", ![w].id = d, ![w].expected = expected, ![w].next = next]

(* Any identity that the namespace does not hold may be minted. *)
JudgeCreate(w) ==
    /\ Doing(w, "judging") /\ Verb(w) = "create"
    /\ LET board == task[w].board
           next == [task[w].order.record EXCEPT !.stamp = Now]
       IN \/ \E d \in DebtIds :
                /\ board[d] = None
                /\ IF RelationProblem(board, d, NoLinks, next) THEN Finish(w, "refused")
                   ELSE Replace(w, d, None, next)
          \/ (\A d \in DebtIds : board[d] # None) /\ Finish(w, "exhausted")
    /\ UNCHANGED <<debts, author, custody, budget>>

Changed(order, current) ==
    [current EXCEPT
        !.text = IF order.text = None THEN @ ELSE order.text,
        !.links = [r \in Relations |->
                     ((IF order.set[r] = None THEN current.links[r] ELSE order.set[r]) \cup order.add[r])
                         \ order.drop[r]]]

(* relatedOwner: the relation is declared in the other debt's file. *)
OwnedByOther(board, d, order) ==
    \E other \in order.drop["relates"] \ board[d].links["relates"] :
        board[other] # None /\ d \in board[other].links["relates"]

JudgeUpdate(w) ==
    /\ Doing(w, "judging") /\ Verb(w) = "update"
    /\ LET d == task[w].id
           board == task[w].board
           candidate == Changed(task[w].order, board[d])
       IN IF board[d] = None THEN Finish(w, "refused")
          ELSE IF OwnedByOther(board, d, task[w].order) THEN Finish(w, "refused")
          ELSE IF RelationProblem(board, d, board[d].links, candidate) THEN Finish(w, "refused")
          ELSE IF candidate = board[d] THEN Finish(w, "accepted")
          ELSE Replace(w, d, board[d], [candidate EXCEPT !.stamp = Advance(board[d].stamp)])
    /\ UNCHANGED <<debts, author, custody, budget>>

Target(order) == IF order.verb = "batch" THEN order.to ELSE order.verb

(* Only an open debt is done or dropped.  A batch that would refuse on its *)
(* early board first looks whether the file still is what it read.         *)
JudgeLifecycle(w) ==
    /\ Doing(w, "judging") /\ Verb(w) \in {"done", "drop", "batch"}
    /\ LET d == task[w].id
           current == task[w].board[d]
       IN IF current = None \/ current.state # "open"
             THEN Finish(w, IF Verb(w) = "batch" /\ debts[d] # current THEN "retry" ELSE "refused")
          ELSE Replace(w, d, current, [current EXCEPT !.state = Target(task[w].order), !.stamp = Advance(@)])
    /\ UNCHANGED <<debts, author, custody, budget>>

JudgeSettle(w) ==
    /\ Doing(w, "judging") /\ Verb(w) = "settle"
    /\ LET d == task[w].id
           current == task[w].board[d]
       IN IF current = None THEN Finish(w, "refused")
          ELSE IF current.state = "done" THEN Finish(w, "unchanged")
          ELSE IF current.state = "drop" THEN Finish(w, "refused")
          ELSE Replace(w, d, current, [current EXCEPT !.state = "done", !.stamp = Advance(@)])
    /\ UNCHANGED <<debts, author, custody, budget>>

Judge(w) == JudgeCreate(w) \/ JudgeUpdate(w) \/ JudgeLifecycle(w) \/ JudgeSettle(w)

----------------------------------------------------------------------------
(* replaceAuthority: compare, then rename. *)

(* Mutation: the predecessor is not compared. *)
CompareNothing(w) ==
    /\ Doing(w, "comparing")
    /\ task' = [task EXCEPT ![w].phase = "renaming"]
    /\ UNCHANGED <<debts, author, custody, budget>>

Compare(w) ==
    /\ Doing(w, "comparing")
    /\ IF debts[task[w].id] = task[w].expected
          THEN task' = [task EXCEPT ![w].phase = "renaming"]
          ELSE Finish(w, "retry")
    /\ UNCHANGED <<debts, author, custody, budget>>

(* The temporary file or the directory fails before the rename. *)
ReplaceFails(w) ==
    /\ Doing(w, "comparing")
    /\ budget.faults > 0
    /\ budget' = [budget EXCEPT !.faults = @ - 1]
    /\ Finish(w, "failed")
    /\ UNCHANGED <<debts, author, custody>>

Renamed(w, result) ==
    LET t == task[w] IN
    /\ debts' = [debts EXCEPT ![t.id] = t.next]
    /\ author' = [author EXCEPT ![t.id] = w]
    /\ task' = [task EXCEPT ![w].phase = "unlocking", ![w].board[t.id] = t.next, ![w].result = result]

Rename(w) ==
    /\ Doing(w, "renaming")
    /\ Renamed(w, IF Verb(w) = "settle" THEN "changed" ELSE "accepted")
    /\ UNCHANGED <<custody, budget>>

(* The directory cannot be synchronised: an error, but the file is there.  *)
(* A batch does not see its own change then, and ends with the error.      *)
SyncFails(w) ==
    /\ Doing(w, "renaming")
    /\ budget.faults > 0
    /\ budget' = [budget EXCEPT !.faults = @ - 1]
    /\ Renamed(w, "failed")
    /\ UNCHANGED custody

(* A reset unlinks one file after the other, under all the locks. *)
Unlink(w) ==
    /\ Doing(w, "unlinking")
    /\ \E d \in Least(task[w].listed) :
       /\ debts' = [debts EXCEPT ![d] = None]
       /\ author' = [author EXCEPT ![d] = w]
       /\ task' = IF task[w].listed = {d}
                     THEN [task EXCEPT ![w].listed = {}, ![w].phase = "unlocking", ![w].result = "removed"]
                     ELSE [task EXCEPT ![w].listed = @ \ {d}]
    /\ UNCHANGED <<custody, budget>>

----------------------------------------------------------------------------
(* The locks are closed, the last taken first. *)

Freed(w) == [l \in Locks |-> IF custody[l] = w THEN None ELSE custody[l]]

(* An item's exception ends its batch. *)
More(w) ==
    /\ Verb(w) = "batch" /\ task[w].at \in 1..(Len(task[w].order.ids) - 1)
    /\ task[w].result # "failed"

Unlock(w) ==
    /\ Doing(w, "unlocking")
    /\ custody' = Freed(w)
    /\ task' = [task EXCEPT ![w] = IF More(w) THEN Item(@, @.at + 1) ELSE [@ EXCEPT !.phase = "idle"]]
    /\ UNCHANGED <<debts, author, budget>>

(* SQLite reports an error on closing.  Only a result that names a change  *)
(* survives it (preserveCommittedResult); any other becomes an exception,  *)
(* and a batch ends with it.                                               *)
UnlockFails(w) ==
    /\ Doing(w, "unlocking")
    /\ \E l \in Locks : custody[l] = w
    /\ budget.faults > 0
    /\ budget' = [budget EXCEPT !.faults = @ - 1]
    /\ custody' = Freed(w)
    /\ task' = [task EXCEPT ![w] =
                  IF @.result \in {"accepted", "changed"}
                     THEN IF More(w) THEN Item(@, @.at + 1) ELSE [@ EXCEPT !.phase = "idle"]
                     ELSE [@ EXCEPT !.phase = "idle", !.result = "thrown"]]
    /\ UNCHANGED <<debts, author>>

(* A process dies: the kernel drops its locks, its temporary file is no authority. *)
Die(w) ==
    /\ custody' = Freed(w)
    /\ task' = [task EXCEPT ![w] = NoTask]

(* A person saves a debt's file, or deletes it. *)
EditByHand(d) ==
    /\ budget.edits > 0
    /\ budget' = [budget EXCEPT !.edits = @ - 1]
    /\ \E r \in Manual :
          /\ r # debts[d]
          /\ debts' = [debts EXCEPT ![d] = r]
          /\ author' = [author EXCEPT ![d] = "hand"]
    /\ UNCHANGED <<custody, task>>

TaskStep(w) ==
    \/ Acquire(w) \/ Busy(w) \/ List(w) \/ Read(w) \/ Judge(w)
    \/ Compare(w) \/ Rename(w) \/ Unlink(w) \/ Unlock(w)

TaskFault(w) == ReplaceFails(w) \/ SyncFails(w) \/ UnlockFails(w)

----------------------------------------------------------------------------
(* Properties. *)

(* Only one process at a time stands between reading a debt and renaming   *)
(* its successor over it, and what one process writes never erases what    *)
(* another process wrote unseen: a rename replaces exactly the file that   *)
(* was read, or one that a person has saved since (store.ts promises no    *)
(* more against an editor).  A batch's early board, a reset and a creation *)
(* included.                                                               *)
NeverClobber ==
    [][\A w \in Workers, d \in DebtIds :
         Doing(w, "renaming") /\ debts'[d] # debts[d] /\ author'[d] = w
            => debts[d] = task[w].expected \/ author[d] = "hand"]_storeVars

=============================================================================
