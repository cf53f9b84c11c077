----------------------- MODULE ManagedWorktreesProofs -----------------------
(***************************************************************************)
(* Proofs about ManagedWorktrees, for any number of processes, contracts   *)
(* and places.  A managed worktree stands only where the register appoints *)
(* its contract (PlacesHeld), and a reconciliation drops no ref that is    *)
(* the last one to keep a contract's objects (CustodyKept).                *)
(*                                                                         *)
(* Nothing is locked between the parts of a reconciliation, so the proofs  *)
(* need what a process may rely on that looked earlier: a contract that it *)
(* noted as terminal is terminal for whoever works on it, and once it is   *)
(* cleaned up no worktree is registered at its place, whichever place that *)
(* is by now.                                                              *)
(***************************************************************************)
EXTENDS ManagedWorktrees, TLAPS

Journals == [standing : Standings, delivered : BOOLEAN]
Trees == [owner : Contracts, content : Contents]

Phases == Holding \cup {"idle", "appointing", "appointed", "next", "dismissing", "closing"}

Ops == [phase : Phases, batch : SUBSET Contracts, queue : SUBSET Contracts,
        round : {None, "retaining", "cleaning"}, contract : Contracts \cup {None}, known : SUBSET Contracts,
        terminal : SUBSET Contracts, lag : SUBSET Contracts, seen : Journals \cup {None},
        topology : SUBSET Places, place : Places \cup {None}, before : Contents \cup {None},
        recovery : Contents \cup {None}, custodian : (SUBSET (Contracts \cup {"root"})) \cup {None}]

Types ==
    /\ journal \in [Contracts -> Journals]
    /\ register \in [Contracts -> Places \cup {None}]
    /\ registered \in SUBSET Places
    /\ tree \in [Places -> {None, Foreign} \cup Trees]
    /\ delivery \in [Contracts -> {None, "start", "tender"}]
    /\ pin \in SUBSET Contracts
    /\ tip \in SUBSET (Contracts \cup {"root"})
    /\ placesLock \in Processes \cup {None}
    /\ lock \in [Contracts -> Processes \cup {None}]
    /\ fence \in [Contracts -> Processes \cup {None, "landing"}]
    /\ op \in [Processes -> Ops]
    /\ scene \in Scenes

(* Locks are held by the processes at work under them, and the register is *)
(* as it was read for as long as its lock is held.                         *)
Custody ==
    /\ placesLock # None => Phase(placesLock) = "appointed"
    /\ \A c \in Contracts :
          /\ lock[c] # None => Phase(lock[c]) \in Holding \cup {"closing"} /\ Mine(lock[c]) = c
          /\ fence[c] \notin {None, "landing"} =>
                Phase(fence[c]) \in Fenced \cup {"closing"} /\ lock[c] = fence[c]
    /\ \A p \in Processes :
          /\ Phase(p) = "appointed" => placesLock = p /\ op[p].topology = Occupied
          /\ Phase(p) \in Holding \cup {"closing"} => Mine(p) \in Contracts /\ lock[Mine(p)] = p
          /\ Phase(p) \in Fenced => fence[Mine(p)] = p

(* A place has one contract, a worktree stands at the place of its         *)
(* contract, and what Git knows as a worktree is at an appointed place.    *)
Tenancy ==
    /\ \A c, d \in Contracts : register[c] = register[d] /\ register[c] # None => c = d
    /\ \A x \in Places : tree[x] \in Trees => x \in registered /\ register[tree[x].owner] = x
    /\ \A x \in registered : \E c \in Contracts : register[c] = x

Cleaning == {"keeping", "sealing", "hooking", "resealing", "removing"}
Releasing == {"weighing", "releasing", "unpinning"}

(* What a process remembers of the contract that it works on is still so   *)
(* as far as it matters.                                                   *)
Memory(p) ==
    /\ Phase(p) \in Holding => op[p].seen \in Journals /\ (Terminal(op[p].seen) => journal[Mine(p)] = op[p].seen)
    /\ Phase(p) \in {"pinning", "realizing"} =>
          ~Terminal(op[p].seen) /\ (Here(p) # None => register[Mine(p)] = Here(p))
    /\ Phase(p) = "realizing" => Here(p) # None
    /\ Phase(p) \in Cleaning \cup Releasing => Terminal(op[p].seen)
    /\ Phase(p) \in (Cleaning \ {"keeping"}) \cup Releasing => op[p].round = "cleaning"
    /\ Phase(p) \in Cleaning => Here(p) # None
    /\ Phase(p) \in {"releasing", "unpinning"} /\ op[p].custodian # None =>
          IF op[p].seen.delivered THEN Mine(p) \in op[p].custodian ELSE "root" \in op[p].custodian

(* A contract that a process noted as terminal is so, for everyone.        *)
Ends(p) ==
    /\ op[p].queue \subseteq op[p].batch /\ op[p].terminal \subseteq op[p].batch
    /\ Phase(p) \in Holding \cup {"closing"} => Mine(p) \in op[p].batch
    /\ Phase(p) \in Holding \cup {"next", "closing"} => op[p].round # None
    /\ Phase(p) = "dismissing" => op[p].queue = {} /\ op[p].round = "cleaning" /\ op[p].terminal \cap op[p].lag = {}
    /\ \A c \in op[p].terminal :
          /\ Terminal(journal[c])
          /\ \A q \in Processes : Phase(q) \in Holding /\ Mine(q) = c => Terminal(op[q].seen)

(* No worktree is registered at the contract's place. *)
Clear(c) == register[c] \notin registered

(* While a terminal contract is cleaned up, a worktree that is registered  *)
(* at its place is the one that was listed and located; afterwards there   *)
(* is none.                                                                *)
Cleanup(p) ==
    /\ Phase(p) \in {"locating"} \cup Cleaning /\ Terminal(op[p].seen) =>
          Clear(Mine(p)) \/ register[Mine(p)] \in op[p].topology
    /\ Phase(p) \in Cleaning => Clear(Mine(p)) \/ register[Mine(p)] = Here(p)
    /\ Phase(p) \in Releasing => Clear(Mine(p))
    /\ op[p].round = "cleaning" =>
          \A c \in op[p].terminal \ op[p].lag :
             \/ c \in op[p].queue
             \/ Mine(p) = c /\ Phase(p) \in {"fencing", "surveying", "locating"} \cup Cleaning
             \/ Clear(c)

Inv ==
    /\ Types
    /\ Custody
    /\ Tenancy
    /\ \A p \in Processes : Memory(p) /\ Ends(p) /\ Cleanup(p)

-----------------------------------------------------------------------------
(* What a step leaves alone                                                  *)

(* A process that a step does not move keeps what it relies on when what     *)
(* ends stays ended, when a worktree is registered only by a process at work *)
(* for its contract, when a place is given only to a contract without one    *)
(* and taken only from one that everybody knows has ended, and when whoever  *)
(* starts on a contract looks at it.                                         *)
EndsStay == \A c \in Contracts : Terminal(journal[c]) => journal'[c] = journal[c]
ClearStays(q) ==
    \A c \in Contracts : Clear(c) => \/ Clear(c)'
                                     \/ \E p \in Processes : p # q /\ Phase(p) = "realizing" /\ Mine(p) = c
PlacesMove ==
    \A c \in Contracts :
       \/ register'[c] = register[c]
       \/ /\ Clear(c)'
          /\ \/ register[c] = None
             \/ \A r \in Processes : Phase(r) \in Holding /\ Mine(r) = c => Terminal(op[r].seen)
Looks ==
    \A r \in Processes :
       Phase(r)' \in Holding /\ Terminal(journal[Mine(r)']) =>
          \/ op'[r].seen = journal[Mine(r)']
          \/ Phase(r) \in Holding /\ Mine(r)' = Mine(r) /\ op'[r].seen = op[r].seen

LEMMA BystanderKeeps ==
    ASSUME Inv, NEW q \in Processes, op'[q] = op[q], EndsStay, ClearStays(q), PlacesMove, Looks
    PROVE  Memory(q)' /\ Ends(q)' /\ Cleanup(q)'
<1>1. /\ Phase(q)' = Phase(q) /\ Mine(q)' = Mine(q) /\ Here(q)' = Here(q)
      /\ Memory(q) /\ Ends(q) /\ Cleanup(q) /\ op[q] \in Ops
  BY DEF Phase, Mine, Here, Inv, Types
<1>2. Phase(q) \in Holding => Mine(q) \in Contracts
  BY DEF Inv, Custody
<1>3. Memory(q)'
  <2>1. Phase(q) \in Holding => op[q].seen \in Journals
                                /\ (Terminal(op[q].seen) => journal'[Mine(q)] = op[q].seen)
    BY <1>1, <1>2 DEF Memory, EndsStay
  <2>2. Phase(q) \in {"pinning", "realizing"} /\ Here(q) # None => register'[Mine(q)] = Here(q)
    BY <1>1, <1>2 DEF Memory, PlacesMove, Holding
  <2> QED
    BY <1>1, <2>1, <2>2 DEF Memory
<1>4. Ends(q)'
  <2> SUFFICES ASSUME NEW c \in op[q].terminal
               PROVE  /\ Terminal(journal'[c])
                      /\ \A r \in Processes : Phase(r)' \in Holding /\ Mine(r)' = c => Terminal(op'[r].seen)
    BY <1>1 DEF Ends
  <2>1. c \in Contracts /\ Terminal(journal[c]) /\ journal'[c] = journal[c]
    BY <1>1 DEF Ends, Ops, EndsStay
  <2>2. ASSUME NEW r \in Processes, Phase(r)' \in Holding, Mine(r)' = c PROVE Terminal(op'[r].seen)
    <3>1. CASE op'[r].seen = journal[c]
      BY <2>1, <3>1
    <3>2. CASE Phase(r) \in Holding /\ Mine(r) = c /\ op'[r].seen = op[r].seen
      BY <1>1, <3>2 DEF Ends
    <3> QED
      BY <2>1, <2>2, <3>1, <3>2 DEF Looks
  <2> QED
    BY <2>1, <2>2
<1>5. ASSUME NEW c \in Contracts, Clear(c),
             (Phase(q) \in Holding /\ Mine(q) = c) \/ c \in op[q].terminal
      PROVE  Clear(c)'
  <2> SUFFICES ASSUME NEW p \in Processes, p # q, Phase(p) = "realizing", Mine(p) = c PROVE FALSE
    BY <1>5 DEF ClearStays
  <2>1. lock[c] = p /\ Memory(p) /\ Phase(p) \in Holding
    BY DEF Inv, Custody, Holding
  <2>2. CASE Phase(q) \in Holding /\ Mine(q) = c
    BY <2>1, <2>2 DEF Inv, Custody
  <2>3. CASE c \in op[q].terminal
    BY <1>1, <2>1, <2>3 DEF Ends, Memory
  <2> QED
    BY <1>5, <2>2, <2>3
<1>6. ASSUME NEW c \in Contracts, (Phase(q) \in Holding /\ Mine(q) = c) \/ c \in op[q].terminal,
             NEW X, register[c] = X
      PROVE  register'[c] = X \/ Clear(c)'
  BY <1>6 DEF PlacesMove
<1>7. Cleanup(q)'
  <2>1. Phase(q) \in {"locating"} \cup Cleaning /\ Terminal(op[q].seen) =>
          Clear(Mine(q))' \/ register'[Mine(q)] \in op[q].topology
    BY <1>1, <1>2, <1>5, <1>6 DEF Cleanup, Cleaning, Holding
  <2>2. Phase(q) \in Cleaning => Clear(Mine(q))' \/ register'[Mine(q)] = Here(q)
    BY <1>1, <1>2, <1>5, <1>6 DEF Cleanup, Cleaning, Holding
  <2>3. Phase(q) \in Releasing => Clear(Mine(q))'
    BY <1>1, <1>2, <1>5 DEF Cleanup, Releasing, Holding
  <2>4. ASSUME op[q].round = "cleaning", NEW c \in op[q].terminal \ op[q].lag
        PROVE  \/ c \in op[q].queue
               \/ Mine(q) = c /\ Phase(q) \in {"fencing", "surveying", "locating"} \cup Cleaning
               \/ Clear(c)'
    <3>1. c \in Contracts
      BY <1>1 DEF Ops
    <3> QED
      BY <1>1, <1>5, <2>4, <3>1 DEF Cleanup
  <2> HIDE DEF Clear
  <2>5. (\A c : Clear(c)' <=> register'[c] \notin registered')
    BY DEF Clear
  <2> QED
    BY <1>1, <2>1, <2>2, <2>3, <2>4, <2>5 DEF Cleanup, Clear
<1> QED
  BY <1>3, <1>4, <1>7

LEMMA QuietBystander ==
    ASSUME Inv, NEW q \in Processes, op'[q] = op[q], journal' = journal, register' = register,
           registered' \subseteq registered, Looks
    PROVE  Memory(q)' /\ Ends(q)' /\ Cleanup(q)'
<1>1. EndsStay /\ PlacesMove /\ ClearStays(q)
  BY DEF EndsStay, PlacesMove, ClearStays, Clear
<1> QED
  BY <1>1, BystanderKeeps

-----------------------------------------------------------------------------
(* A step of a process within the work for one contract                      *)

LEMMA Moves ==
    ASSUME NEW o \in Ops, NEW ph \in Phases, NEW n, n = [o EXCEPT !.phase = ph]
    PROVE  /\ n \in Ops /\ n.phase = ph
           /\ n.batch = o.batch /\ n.queue = o.queue /\ n.round = o.round /\ n.contract = o.contract
           /\ n.known = o.known /\ n.terminal = o.terminal /\ n.lag = o.lag /\ n.seen = o.seen
           /\ n.topology = o.topology /\ n.place = o.place /\ n.custodian = o.custodian
  BY DEF Ops

LEMMA Lags ==
    ASSUME NEW o \in Ops, o.contract \in Contracts, NEW n, n = Lagging(o)
    PROVE  /\ n \in Ops /\ n.phase = "closing" /\ n.lag = o.lag \cup {o.contract}
           /\ n.batch = o.batch /\ n.queue = o.queue /\ n.round = o.round /\ n.contract = o.contract
           /\ n.known = o.known /\ n.terminal = o.terminal /\ n.seen = o.seen
  BY DEF Ops, Lagging, Phases

Within(p) ==
    /\ \A q \in Processes : q # p => op'[q] = op[q]
    /\ op'[p].batch = op[p].batch /\ op'[p].queue = op[p].queue /\ op'[p].round = op[p].round
    /\ op'[p].contract = op[p].contract /\ op'[p].terminal = op[p].terminal /\ op'[p].seen = op[p].seen
    /\ Phase(p) \in Holding /\ Phase(p)' \in Holding \cup {"closing"}
    /\ Phase(p)' \in Fenced => Phase(p) \in Fenced
    /\ Phase(p) \in Fenced => Phase(p)' \in Fenced \cup {"closing"}

LEMMA WithinLooks ==
    ASSUME NEW p \in Processes, Within(p)
    PROVE  Looks
  BY DEF Within, Looks, Phase, Mine

LEMMA WithinEnds ==
    ASSUME Inv, NEW p \in Processes, Within(p), journal' = journal
    PROVE  Ends(p)'
<1>1. Ends(p) /\ op[p].seen = op'[p].seen /\ Mine(p)' = Mine(p) /\ Phase(p)' # "dismissing"
  BY DEF Inv, Within, Mine, Phase, Holding
<1>2. ASSUME NEW c \in op[p].terminal
      PROVE  \A q \in Processes : Phase(q)' \in Holding /\ Mine(q)' = c => Terminal(op'[q].seen)
  BY <1>1 DEF Within, Ends, Phase, Mine
<1> QED
  BY <1>1, <1>2 DEF Within, Ends, Phase, Mine

LEMMA WithinCustody ==
    ASSUME Inv, NEW p \in Processes, Within(p), UNCHANGED lockVars, register' = register
    PROVE  Custody'
<1> USE DEF lockVars
<1>1. \A q \in Processes : Mine(q)' = Mine(q)
  BY DEF Within, Mine
<1>2. \A q \in Processes : (Phase(q) \in Holding \cup {"closing"}) <=> (Phase(q)' \in Holding \cup {"closing"})
  BY DEF Within, Phase
<1>3. \A q \in Processes : Phase(q) \in Fenced \cup {"closing"} => Phase(q)' \in Fenced \cup {"closing"}
  BY DEF Within, Phase, Fenced
<1>4. \A q \in Processes : Phase(q)' \in Fenced => Phase(q) \in Fenced
  BY DEF Within, Phase
<1>5. \A q \in Processes : (Phase(q)' = "appointed" <=> Phase(q) = "appointed")
                           /\ (q # p => op'[q].topology = op[q].topology)
                           /\ (Phase(q) = "appointed" => q # p)
  BY DEF Within, Phase, Holding
<1>6. /\ placesLock \in Processes \cup {None}
      /\ \A c \in Contracts : lock[c] \in Processes \cup {None} /\ fence[c] \in Processes \cup {None, "landing"}
  BY DEF Inv, Types
<1>7. Occupied' = Occupied
  BY DEF Occupied
<1>8. /\ placesLock # None => Phase(placesLock)' = "appointed"
      /\ \A c \in Contracts :
            /\ lock[c] # None => Phase(lock[c])' \in Holding \cup {"closing"} /\ Mine(lock[c])' = c
            /\ fence[c] \notin {None, "landing"} =>
                  Phase(fence[c])' \in Fenced \cup {"closing"} /\ lock[c] = fence[c]
  BY <1>1, <1>2, <1>3, <1>5, <1>6 DEF Inv, Custody
<1>9. \A q \in Processes :
          /\ Phase(q)' = "appointed" => placesLock = q /\ op'[q].topology = Occupied
          /\ Phase(q)' \in Holding \cup {"closing"} => Mine(q)' \in Contracts /\ lock[Mine(q)'] = q
          /\ Phase(q)' \in Fenced => fence[Mine(q)'] = q
  BY <1>1, <1>2, <1>4, <1>5 DEF Inv, Custody
<1> HIDE DEF Custody, Occupied, Holding, Fenced
<1>10. \A q \in Processes : Phase(q)' = op'[q].phase /\ Mine(q)' = op'[q].contract
  BY DEF Phase, Mine
<1> QED
  BY <1>6, <1>7, <1>8, <1>9, <1>10 DEF Custody, Phase, Mine

(* What is left to show of such a step is what it does to the disk and what  *)
(* the process itself remembers.                                             *)
LEMMA WithinKeeps ==
    ASSUME Inv, NEW p \in Processes, Within(p),
           journal' = journal, register' = register, UNCHANGED lockVars, registered' \subseteq registered,
           Types', Tenancy', Memory(p)', Cleanup(p)'
    PROVE  Inv'
<1>1. ASSUME NEW q \in Processes, q # p PROVE Memory(q)' /\ Ends(q)' /\ Cleanup(q)'
  BY <1>1, QuietBystander, WithinLooks DEF Within
<1>2. Ends(p)' /\ Custody'
  BY WithinEnds, WithinCustody
<1> QED
  BY <1>1, <1>2 DEF Inv

(* Most steps of this kind change neither what Git knows nor where worktrees *)
(* stand.                                                                    *)
LEMMA TenancyStays ==
    ASSUME Inv, register' = register, registered' = registered,
           \A x \in Places : tree'[x] \in Trees => tree[x] \in Trees /\ tree'[x].owner = tree[x].owner
    PROVE  Tenancy'
  BY DEF Inv, Tenancy

LEMMA LagKeeps ==
    ASSUME Inv, NEW p \in Processes, Phase(p) \in Holding, Lag(p),
           UNCHANGED <<journal, register, diskVars, refVars, lockVars>>, scene' \in Scenes
    PROVE  Inv'
<1>1. op[p] \in Ops /\ op[p].contract \in Contracts /\ op' = [op EXCEPT ![p] = Lagging(op[p])]
  BY DEF Inv, Types, Custody, Mine, Lag
<1>2. /\ \A q \in Processes : q # p => op'[q] = op[q]
      /\ op'[p] = Lagging(op[p]) /\ op' \in [Processes -> Ops]
  BY <1>1, Lags DEF Inv, Types
<1>3. /\ op'[p].phase = "closing" /\ op'[p].lag = op[p].lag \cup {op[p].contract}
      /\ op'[p].batch = op[p].batch /\ op'[p].queue = op[p].queue /\ op'[p].round = op[p].round
      /\ op'[p].contract = op[p].contract /\ op'[p].terminal = op[p].terminal /\ op'[p].seen = op[p].seen
  BY <1>1, <1>2, Lags
<1>4. Within(p)
  BY <1>2, <1>3 DEF Within, Phase, Fenced, Holding
<1>5. Memory(p)'
  BY <1>3 DEF Memory, Phase, Holding, Cleaning, Releasing
<1>6. Cleanup(p)'
  <2>1. Cleanup(p)
    BY DEF Inv
  <2> QED
    BY <1>3, <2>1 DEF Cleanup, Phase, Mine, Clear, Holding, Cleaning, Releasing, diskVars
<1>7. Types' /\ Tenancy'
  BY <1>2 DEF Inv, Types, Tenancy, diskVars, refVars, lockVars
<1> QED
  BY <1>4, <1>5, <1>6, <1>7, WithinKeeps DEF diskVars

LEMMA GotoBecomes ==
    ASSUME Inv, NEW p \in Processes, NEW ph \in Phases, Goto(p, ph)
    PROVE  /\ op' \in [Processes -> Ops] /\ \A q \in Processes : q # p => op'[q] = op[q]
           /\ op'[p].phase = ph
           /\ op'[p].batch = op[p].batch /\ op'[p].queue = op[p].queue /\ op'[p].round = op[p].round
           /\ op'[p].contract = op[p].contract /\ op'[p].known = op[p].known
           /\ op'[p].terminal = op[p].terminal /\ op'[p].lag = op[p].lag /\ op'[p].seen = op[p].seen
           /\ op'[p].topology = op[p].topology /\ op'[p].place = op[p].place
           /\ op'[p].custodian = op[p].custodian
<1>1. op \in [Processes -> Ops] /\ op[p] \in Ops
  BY DEF Inv, Types
<1>2. op' = [op EXCEPT ![p] = [op[p] EXCEPT !.phase = ph]]
  BY <1>1 DEF Goto
<1>3. op'[p] = [op[p] EXCEPT !.phase = ph] /\ \A q \in Processes : q # p => op'[q] = op[q]
  BY <1>1, <1>2
<1>4. op' \in [Processes -> Ops]
  BY <1>1, <1>2, Moves
<1> QED
  BY <1>1, <1>3, <1>4, Moves

LEMMA SurveyKeeps == ASSUME Inv, NEW p \in Processes, Survey(p) PROVE Inv'
<1>1. op[p] \in Ops /\ registered \in SUBSET Places /\ op \in [Processes -> Ops] /\ Phase(p) = "surveying"
  BY DEF Inv, Types, Survey
<1>2. op' = [op EXCEPT ![p] = [op[p] EXCEPT !.phase = "locating", !.topology = registered]]
  BY <1>1 DEF Survey
<1>3. /\ [op[p] EXCEPT !.phase = "locating", !.topology = registered] \in Ops
      /\ op' \in [Processes -> Ops]
      /\ op'[p] = [op[p] EXCEPT !.phase = "locating", !.topology = registered]
      /\ \A q \in Processes : q # p => op'[q] = op[q]
  <2>1. [op[p] EXCEPT !.phase = "locating", !.topology = registered] \in Ops
    BY <1>1 DEF Ops, Phases, Holding
  <2> QED
    BY <1>1, <1>2, <2>1
<1>4. /\ op'[p].phase = "locating" /\ op'[p].topology = registered
      /\ op'[p].batch = op[p].batch /\ op'[p].queue = op[p].queue /\ op'[p].round = op[p].round
      /\ op'[p].contract = op[p].contract /\ op'[p].lag = op[p].lag
      /\ op'[p].terminal = op[p].terminal /\ op'[p].seen = op[p].seen
  BY <1>1, <1>3 DEF Ops
<1>5. Within(p)
  BY <1>1, <1>3, <1>4 DEF Within, Phase, Holding, Fenced
<1>6. Memory(p)'
  <2>1. op[p].seen \in Journals /\ (Terminal(op[p].seen) => journal[Mine(p)] = op[p].seen)
    BY <1>1 DEF Inv, Memory, Holding
  <2> QED
    BY <1>4, <2>1 DEF Memory, Phase, Mine, Cleaning, Releasing, Survey
<1>7. Cleanup(p)'
  <2>1. Cleanup(p) /\ register' = register /\ registered' = registered
    BY DEF Inv, Survey, diskVars
  <2> QED
    BY <1>1, <1>4, <2>1 DEF Cleanup, Phase, Mine, Clear, Cleaning, Releasing
<1>8. Types' /\ Tenancy'
  BY <1>3 DEF Inv, Types, Tenancy, diskVars, refVars, lockVars, Survey
<1> QED
  BY <1>5, <1>6, <1>7, <1>8, WithinKeeps DEF Survey, diskVars

LEMMA LocateKeeps == ASSUME Inv, NEW p \in Processes, Locate(p) PROVE Inv'
<1> DEFINE next == IF ~Terminal(op[p].seen) THEN "pinning"
                   ELSE IF register[Mine(p)] # None THEN "keeping"
                   ELSE IF op[p].round = "cleaning" THEN "weighing" ELSE "closing"
<1>1. /\ op[p] \in Ops /\ op \in [Processes -> Ops] /\ Phase(p) = "locating"
      /\ Mine(p) \in Contracts /\ register[Mine(p)] \in Places \cup {None} /\ registered \in SUBSET Places
  BY DEF Inv, Types, Locate, Custody, Holding
<1>2. op' = [op EXCEPT ![p] = [op[p] EXCEPT !.place = register[Mine(p)], !.phase = next]]
  BY <1>1 DEF Locate
<1>3. next \in {"pinning", "keeping", "weighing", "closing"}
  OBVIOUS
<1> HIDE DEF next
<1>4. /\ op' \in [Processes -> Ops]
      /\ op'[p] = [op[p] EXCEPT !.place = register[Mine(p)], !.phase = next]
      /\ \A q \in Processes : q # p => op'[q] = op[q]
  <2>1. [op[p] EXCEPT !.place = register[Mine(p)], !.phase = next] \in Ops
    BY <1>1, <1>3 DEF Ops, Phases, Holding
  <2> QED
    BY <1>1, <1>2, <2>1
<1>5. /\ op'[p].phase = next /\ op'[p].place = register[Mine(p)] /\ op'[p].topology = op[p].topology
      /\ op'[p].batch = op[p].batch /\ op'[p].queue = op[p].queue /\ op'[p].round = op[p].round
      /\ op'[p].contract = op[p].contract /\ op'[p].lag = op[p].lag
      /\ op'[p].terminal = op[p].terminal /\ op'[p].seen = op[p].seen
  BY <1>1, <1>4 DEF Ops
<1>6. Within(p)
  BY <1>1, <1>3, <1>4, <1>5 DEF Within, Phase, Holding, Fenced
<1>7. Memory(p) /\ Cleanup(p) /\ Ends(p)
  BY DEF Inv
<1>8. /\ op[p].seen \in Journals /\ (Terminal(op[p].seen) => journal[Mine(p)] = op[p].seen)
      /\ \A c \in op[p].terminal : Mine(p) = c => Terminal(op[p].seen)
  BY <1>1, <1>7 DEF Memory, Ends, Holding
<1>9. Memory(p)'
  BY <1>3, <1>5, <1>8 DEF Memory, Phase, Mine, Here, Cleaning, Releasing, Locate, next
<1>10. Cleanup(p)'
  <2>1. register' = register /\ registered' = registered /\ None \notin registered
    BY <1>1, WorktreesAssumption DEF Inv, Locate, diskVars
  <2>2. next \in Releasing => Clear(Mine(p))
    BY <1>3, <2>1 DEF next, Clear, Releasing
  <2>3. next \in Cleaning => Terminal(op[p].seen)
    BY DEF next, Cleaning
  <2>4. next = "closing" => op[p].round # "cleaning"
    BY DEF next
  <2>5. next = "pinning" => Mine(p) \notin op[p].terminal
    BY <1>8 DEF next
  <2>6. op[p].round = "cleaning" =>
          \A c \in op[p].terminal \ op[p].lag :
             \/ c \in op[p].queue
             \/ Mine(p) = c /\ next \in Cleaning
             \/ Clear(c)
    BY <1>1, <1>3, <1>7, <2>2, <2>4, <2>5 DEF Cleanup, Cleaning, Releasing
  <2>7. next \in Cleaning => Clear(Mine(p)) \/ register[Mine(p)] \in op[p].topology
    BY <1>1, <1>7, <2>3 DEF Cleanup
  <2>8. next # "locating"
    BY <1>3
  <2>9. \A c : Clear(c)' <=> Clear(c)
    BY <2>1 DEF Clear
  <2> HIDE DEF Clear
  <2>10. Phase(p)' = next /\ Mine(p)' = Mine(p) /\ Here(p)' = register[Mine(p)]
    BY <1>5 DEF Phase, Mine, Here
  <2> QED
    BY <1>5, <2>1, <2>2, <2>6, <2>7, <2>8, <2>9, <2>10 DEF Cleanup
<1>11. Types' /\ Tenancy'
  BY <1>4 DEF Inv, Types, Tenancy, diskVars, refVars, lockVars, Locate
<1> QED
  BY <1>6, <1>9, <1>10, <1>11, WithinKeeps DEF Locate, diskVars

(* A process goes on with its contract: to the realization of an active one, *)
(* from the cleaning of a terminal one to the next part of it, or, with no   *)
(* worktree left at its place, to the release of its refs or to the end.     *)
GoesOn(p, ph) ==
    \/ Phase(p) = "pinning" /\ ph = "realizing" /\ Here(p) # None
    \/ Phase(p) \in Cleaning /\ ph \in Cleaning \ {"keeping"} /\ op[p].round = "cleaning"
    \/ Phase(p) = "removing" /\ ph = "weighing" /\ Clear(Mine(p))'
    \/ Phase(p) = "releasing" /\ ph = "unpinning"
    \/ /\ Phase(p) \in Fenced /\ ph = "closing"
       /\ op[p].round # "cleaning" \/ ~Terminal(op[p].seen) \/ Clear(Mine(p))'

LEMMA GotoKeeps ==
    ASSUME Inv, NEW p \in Processes, NEW ph, Goto(p, ph), GoesOn(p, ph),
           UNCHANGED <<journal, register, lockVars>>, registered' \subseteq registered,
           scene' = scene \/ scene' \in Scenes,
           tree' \in [Places -> {None, Foreign} \cup Trees],
           delivery' \in [Contracts -> {None, "start", "tender"}], pin' \subseteq Contracts, tip' = tip,
           Tenancy'
    PROVE  Inv'
<1>1. /\ ph \in Phases /\ ph \in Fenced \cup {"closing"} /\ Phase(p) \in Fenced /\ Phase(p) \in Holding
  BY DEF GoesOn, Phases, Holding, Fenced, Cleaning
<1>2. /\ op' \in [Processes -> Ops] /\ \A q \in Processes : q # p => op'[q] = op[q]
      /\ op'[p].phase = ph
      /\ op'[p].batch = op[p].batch /\ op'[p].queue = op[p].queue /\ op'[p].round = op[p].round
      /\ op'[p].contract = op[p].contract
      /\ op'[p].terminal = op[p].terminal /\ op'[p].lag = op[p].lag /\ op'[p].seen = op[p].seen
      /\ op'[p].topology = op[p].topology /\ op'[p].place = op[p].place
      /\ op'[p].custodian = op[p].custodian
  BY <1>1, GotoBecomes
<1>3. Within(p)
  BY <1>1, <1>2 DEF Within, Phase, Fenced
<1>4. Memory(p) /\ Cleanup(p) /\ Ends(p) /\ Mine(p) \in Contracts
  BY <1>1 DEF Inv, Custody
<1>5. Phase(p)' = ph /\ Mine(p)' = Mine(p) /\ Here(p)' = Here(p)
  BY <1>2 DEF Phase, Mine, Here
<1>6. Memory(p)'
  BY <1>1, <1>2, <1>4, <1>5 DEF Memory, GoesOn, Cleaning, Releasing
<1>7. ASSUME NEW c \in Contracts, Clear(c) PROVE Clear(c)'
  BY <1>7 DEF Clear
<1>8. Mine(p) \in op[p].terminal => Terminal(op[p].seen)
  BY <1>1, <1>4 DEF Ends
<1>9. Cleanup(p)'
  <2>1. ph \in Cleaning => Phase(p) \in Cleaning
    BY DEF GoesOn, Cleaning
  <2>2. ph \in Releasing => Clear(Mine(p))'
    <3>1. CASE Phase(p) = "releasing"
      BY <1>4, <1>5, <1>7, <3>1 DEF Cleanup, Releasing, Clear
    <3>2. CASE Phase(p) # "releasing"
      BY <3>2 DEF GoesOn, Releasing, Cleaning
    <3> QED
      BY <3>1, <3>2
  <2>3. ph # "locating"
    BY DEF GoesOn, Cleaning
  <2>4. ASSUME op[p].round = "cleaning", NEW c \in op[p].terminal \ op[p].lag
        PROVE  c \in op[p].queue \/ (Mine(p) = c /\ ph \in Cleaning) \/ Clear(c)'
    <3>1. c \in Contracts
      BY <1>4 DEF Inv, Types, Ops
    <3>2. \/ c \in op[p].queue
          \/ Mine(p) = c /\ Phase(p) \in {"fencing", "surveying", "locating"} \cup Cleaning
          \/ Clear(c)
      BY <1>4, <2>4 DEF Cleanup
    <3>3. ASSUME Mine(p) = c, Phase(p) \in {"fencing", "surveying", "locating"} \cup Cleaning
          PROVE  ph \in Cleaning \/ Clear(c)'
      BY <1>5, <1>8, <2>4, <3>3 DEF GoesOn, Cleaning, Clear
    <3> QED
      BY <1>7, <3>1, <3>2, <3>3
  <2>5. ph \in Cleaning => (Clear(Mine(p))' \/ register[Mine(p)] \in op[p].topology)
                           /\ (Clear(Mine(p))' \/ register[Mine(p)] = Here(p))
    BY <1>4, <1>5, <1>7, <2>1 DEF Cleanup, Memory, Clear
  <2>6. \A c : Clear(c)' <=> register[c] \notin registered'
    BY DEF Clear
  <2> QED
    BY <1>2, <1>5, <2>2, <2>3, <2>4, <2>5, <2>6 DEF Cleanup, Clear
<1>10. Types'
  BY <1>2 DEF Inv, Types, lockVars
<1> QED
  BY <1>3, <1>6, <1>9, <1>10, WithinKeeps

LEMMA PinKeeps == ASSUME Inv, NEW p \in Processes, Pin(p) PROVE Inv'
<1>1. Phase(p) = "pinning" /\ Mine(p) \in Contracts /\ op[p].seen \in Journals /\ Phase(p) \in Holding
  BY DEF Pin, Inv, Custody, Memory, Holding
<1>2. CASE Lag(p) /\ UNCHANGED <<delivery, pin>>
  BY <1>1, <1>2, LagKeeps DEF Pin, refVars, Inv, Types
<1>3. CASE /\ Here(p) # None
           /\ delivery' = [delivery EXCEPT ![Mine(p)] = Desired(p).base]
           /\ pin' = IF op[p].seen.delivered THEN pin \cup {Mine(p)} ELSE pin \ {Mine(p)}
           /\ Goto(p, "realizing")
  <2>1. delivery' \in [Contracts -> {None, "start", "tender"}] /\ pin' \subseteq Contracts
    BY <1>1, <1>3 DEF Inv, Types, Desired, Start, Tender
  <2>2. Tenancy' /\ tree' \in [Places -> {None, Foreign} \cup Trees]
    BY DEF Pin, diskVars, Inv, Tenancy, Types
  <2> QED
    BY <1>1, <1>3, <2>1, <2>2, GotoKeeps DEF GoesOn, Pin, diskVars
<1> QED
  BY <1>2, <1>3 DEF Pin

LEMMA KeepKeeps == ASSUME Inv, NEW p \in Processes, Keep(p) PROVE Inv'
<1>1. Phase(p) = "keeping" /\ Mine(p) \in Contracts /\ op[p].seen \in Journals
      /\ op[p].round \in {"retaining", "cleaning"}
  BY DEF Keep, Inv, Custody, Memory, Ends, Holding, Types, Ops
<1>2. delivery' \in [Contracts -> {None, "start", "tender"}] /\ pin' \subseteq Contracts
  BY <1>1 DEF Keep, Inv, Types, Desired, Start, Tender
<1>3. Tenancy' /\ tree' \in [Places -> {None, Foreign} \cup Trees]
  BY DEF Keep, diskVars, Inv, Tenancy, Types
<1>4. CASE op[p].round = "retaining"
  BY <1>1, <1>2, <1>3, <1>4, GotoKeeps DEF GoesOn, Keep, diskVars, Fenced, Holding
<1>5. CASE op[p].round # "retaining"
  BY <1>1, <1>2, <1>3, <1>5, GotoKeeps DEF GoesOn, Keep, diskVars, Cleaning
<1> QED
  BY <1>4, <1>5

LEMMA RealizeKeeps == ASSUME Inv, NEW p \in Processes, Realize(p) PROVE Inv'
<1> DEFINE x == Here(p)
<1>1. /\ Phase(p) = "realizing" /\ Phase(p) \in Holding /\ Phase(p) \in Fenced /\ Mine(p) \in Contracts
      /\ op[p].seen \in Journals /\ ~Terminal(op[p].seen) /\ Here(p) # None /\ register[Mine(p)] = Here(p)
      /\ Here(p) \in Places
  BY DEF Realize, Inv, Custody, Memory, Holding, Fenced, Types
<1>2. CASE Lag(p) /\ UNCHANGED diskVars
  BY <1>1, <1>2, LagKeeps DEF Realize, Inv, Types
<1>3. CASE Goto(p, "closing") /\ UNCHANGED diskVars
  <2>1. Tenancy' /\ tree' \in [Places -> {None, Foreign} \cup Trees]
    BY <1>3 DEF Realize, diskVars, Inv, Tenancy, Types
  <2>2. /\ delivery' \in [Contracts -> {None, "start", "tender"}] /\ pin' \subseteq Contracts
    BY DEF Realize, refVars, Inv, Types
  <2> QED
    BY <1>1, <1>3, <2>1, <2>2, GotoKeeps DEF GoesOn, Realize, diskVars, refVars
<1>4. CASE /\ tree' = [tree EXCEPT ![x] = Tree(Mine(p), Desired(p))]
           /\ registered' = registered \cup {x}
           /\ Goto(p, "closing")
  <2>1. /\ op' \in [Processes -> Ops] /\ \A q \in Processes : q # p => op'[q] = op[q]
        /\ op'[p].phase = "closing"
        /\ op'[p].batch = op[p].batch /\ op'[p].queue = op[p].queue /\ op'[p].round = op[p].round
        /\ op'[p].contract = op[p].contract
        /\ op'[p].terminal = op[p].terminal /\ op'[p].lag = op[p].lag /\ op'[p].seen = op[p].seen
    <3>1. "closing" \in Phases
      BY DEF Phases
    <3> QED
      BY <1>4, <3>1, GotoBecomes
  <2>2. Within(p)
    BY <1>1, <2>1 DEF Within, Phase, Fenced
  <2>3. UNCHANGED <<journal, register, refVars, lockVars, scene>>
    BY DEF Realize
  <2>4. ASSUME NEW c \in Contracts, c # Mine(p), Clear(c) PROVE Clear(c)'
    BY <1>1, <1>4, <2>3, <2>4 DEF Inv, Tenancy, Clear
  <2>5. EndsStay /\ PlacesMove /\ Looks
    BY <2>2, <2>3, WithinLooks DEF EndsStay, PlacesMove
  <2>6. ASSUME NEW q \in Processes, q # p PROVE Memory(q)' /\ Ends(q)' /\ Cleanup(q)'
    <3>1. ClearStays(q)
      BY <1>1, <2>4, <2>6 DEF ClearStays
    <3> QED
      BY <2>1, <2>5, <2>6, <3>1, BystanderKeeps
  <2>7. Ends(p)' /\ Custody'
    BY <2>2, <2>3, WithinEnds, WithinCustody
  <2>8. Memory(p)'
    BY <2>1 DEF Memory, Phase, Holding, Cleaning, Releasing
  <2>9. Cleanup(p)'
    <3>1. Cleanup(p) /\ Mine(p) \notin op[p].terminal /\ op[p].terminal \subseteq Contracts
      BY <1>1 DEF Inv, Ends, Types, Ops
    <3>2. ASSUME op[p].round = "cleaning", NEW c \in op[p].terminal \ op[p].lag
          PROVE  c \in op[p].queue \/ Clear(c)'
      BY <2>4, <3>1, <3>2 DEF Cleanup
    <3> QED
      BY <2>1, <3>2 DEF Cleanup, Phase, Clear, Cleaning, Releasing
  <2>10. Types'
    <3>1. Desired(p) \in Contents
      BY DEF Desired, Contents, Tender, Start
    <3>2. Tree(Mine(p), Desired(p)) \in Trees
      BY <1>1, <3>1 DEF Tree, Trees
    <3>3. tree' \in [Places -> {None, Foreign} \cup Trees] /\ registered' \in SUBSET Places
      BY <1>1, <1>4, <3>2 DEF Inv, Types
    <3> QED
      BY <2>1, <2>3, <3>3 DEF Inv, Types, refVars, lockVars
  <2>11. Tenancy'
    <3>1. tree'[x].owner = Mine(p) /\ \A y \in Places : y # x => tree'[y] = tree[y]
      BY <1>1, <1>4 DEF Tree, Inv, Types
    <3>2. Tenancy /\ register' = register
      BY <2>3 DEF Inv
    <3> QED
      BY <1>1, <1>4, <3>1, <3>2 DEF Tenancy
  <2> QED
    BY <2>6, <2>7, <2>8, <2>9, <2>10, <2>11 DEF Inv
<1> QED
  BY <1>2, <1>3, <1>4 DEF Realize

LEMMA WorkedTree ==
    ASSUME Inv, NEW x \in Places, tree[x] \notin {None, Foreign}, NEW content \in Contents,
           NEW new, new = [tree EXCEPT ![x].content = content]
    PROVE  /\ new \in [Places -> {None, Foreign} \cup Trees]
           /\ \A y \in Places : new[y] \in Trees => tree[y] \in Trees /\ new[y].owner = tree[y].owner
<1>1. tree[x] \in Trees /\ tree \in [Places -> {None, Foreign} \cup Trees]
  BY DEF Inv, Types
<1>2. [tree[x] EXCEPT !.content = content] \in Trees /\ [tree[x] EXCEPT !.content = content].owner = tree[x].owner
  BY <1>1 DEF Trees
<1>3. new = [tree EXCEPT ![x] = [tree[x] EXCEPT !.content = content]]
  BY <1>1
<1> QED
  BY <1>1, <1>2, <1>3

LEMMA EditedTree ==
    ASSUME Inv, NEW x \in Places, tree[x] \notin {None, Foreign},
           tree' = [tree EXCEPT ![x].content.edits = @ + 1]
    PROVE  /\ tree' \in [Places -> {None, Foreign} \cup Trees]
           /\ \A y \in Places : tree'[y] \in Trees => tree[y] \in Trees /\ tree'[y].owner = tree[y].owner
<1>1. tree[x].content \in Contents
  BY DEF Inv, Types, Trees
<1>2. [tree[x].content EXCEPT !.edits = @ + 1] \in Contents
  BY <1>1 DEF Contents
<1>3. tree' = [tree EXCEPT ![x].content = [tree[x].content EXCEPT !.edits = @ + 1]]
  BY DEF Inv, Types
<1> QED
  BY <1>2, <1>3, WorkedTree

LEMMA SealKeeps == ASSUME Inv, NEW p \in Processes, Seal(p) PROVE Inv'
<1> DEFINE content == tree[Here(p)].content
<1>1. /\ Phase(p) = "sealing" /\ Phase(p) \in Holding /\ op[p] \in Ops /\ op \in [Processes -> Ops]
      /\ op[p].round = "cleaning" /\ Here(p) \in Places
  BY DEF Seal, Inv, Memory, Types, Ops, Holding, Cleaning, Here
<1>2. UNCHANGED <<journal, register, diskVars, refVars, lockVars, scene>>
  BY DEF Seal
<1>3. Tenancy' /\ tree' \in [Places -> {None, Foreign} \cup Trees]
  BY <1>2 DEF diskVars, Inv, Tenancy, Types
<1>4. CASE Lag(p)
  BY <1>1, <1>2, <1>4, LagKeeps DEF Inv, Types
<1>5. CASE Goto(p, "removing")
  <2>1. /\ delivery' \in [Contracts -> {None, "start", "tender"}] /\ pin' \subseteq Contracts
    BY <1>2 DEF refVars, Inv, Types
  <2> QED
    BY <1>1, <1>2, <1>3, <1>5, <2>1, GotoKeeps DEF GoesOn, diskVars, refVars, Cleaning
<1>6. CASE /\ tree[Here(p)] \notin {None, Foreign}
           /\ op' = [op EXCEPT ![p] = [op[p] EXCEPT !.phase = "hooking", !.before = content,
                                           !.recovery = IF Unsealed(content) THEN content ELSE None]]
  <2> DEFINE rest == IF Unsealed(content) THEN content ELSE None
  <2>1. content \in Contents /\ rest \in Contents \cup {None}
    BY <1>1, <1>6 DEF Inv, Types, Trees
  <2> HIDE DEF content, rest
  <2>2. [op[p] EXCEPT !.phase = "hooking", !.before = content, !.recovery = rest] \in Ops
    BY <1>1, <2>1 DEF Ops, Phases, Holding
  <2>3. op' = [op EXCEPT ![p] = [op[p] EXCEPT !.phase = "hooking", !.before = content, !.recovery = rest]]
    BY <1>6 DEF rest, content
  <2>4. /\ op' \in [Processes -> Ops] /\ \A q \in Processes : q # p => op'[q] = op[q]
        /\ op'[p] = [op[p] EXCEPT !.phase = "hooking", !.before = content, !.recovery = rest]
    BY <1>1, <2>2, <2>3
  <2>5. /\ op'[p].phase = "hooking" /\ op'[p].place = op[p].place /\ op'[p].topology = op[p].topology
        /\ op'[p].batch = op[p].batch /\ op'[p].queue = op[p].queue /\ op'[p].round = op[p].round
        /\ op'[p].contract = op[p].contract /\ op'[p].lag = op[p].lag
        /\ op'[p].terminal = op[p].terminal /\ op'[p].seen = op[p].seen
    BY <1>1, <2>4 DEF Ops
  <2>6. Within(p)
    BY <1>1, <2>4, <2>5 DEF Within, Phase, Fenced, Holding
  <2>7. Memory(p) /\ Cleanup(p)
    BY DEF Inv
  <2>8. Memory(p)'
    BY <1>1, <1>2, <2>5, <2>7 DEF Memory, Phase, Mine, Here, Holding, Cleaning, Releasing
  <2>9. Cleanup(p)'
    BY <1>1, <1>2, <2>5, <2>7 DEF Cleanup, Memory, Phase, Mine, Here, Clear, Cleaning, Releasing, diskVars
  <2>10. Types'
    BY <1>2, <2>4 DEF Inv, Types, diskVars, refVars, lockVars
  <2> QED
    BY <1>2, <1>3, <2>6, <2>8, <2>9, <2>10, WithinKeeps DEF diskVars
<1> QED
  BY <1>1, <1>4, <1>5, <1>6 DEF Seal

LEMMA HookKeeps == ASSUME Inv, NEW p \in Processes, Hook(p) PROVE Inv'
<1>1. /\ Phase(p) = "hooking" /\ op[p].round = "cleaning" /\ Here(p) \in Places
      /\ UNCHANGED <<journal, register, registered, refVars, lockVars>> /\ Goto(p, "resealing")
  BY DEF Hook, Inv, Memory, Types, Ops, Holding, Cleaning, Here
<1>2. /\ tree' \in [Places -> {None, Foreign} \cup Trees]
      /\ \A x \in Places : tree'[x] \in Trees => tree[x] \in Trees /\ tree'[x].owner = tree[x].owner
  BY <1>1, EditedTree DEF Hook, Inv, Types
<1>3. Tenancy'
  BY <1>1, <1>2, TenancyStays
<1>4. /\ delivery' \in [Contracts -> {None, "start", "tender"}] /\ pin' \subseteq Contracts /\ tip' = tip
  BY <1>1 DEF refVars, Inv, Types
<1>5. GoesOn(p, "resealing")
  BY <1>1 DEF GoesOn, Cleaning
<1>6. scene' = scene \/ scene' \in Scenes
  BY DEF Hook, Inv, Types, Scenes
<1> QED
  BY <1>1, <1>2, <1>3, <1>4, <1>5, <1>6, GotoKeeps

LEMMA ResealKeeps == ASSUME Inv, NEW p \in Processes, Reseal(p) PROVE Inv'
<1>1. /\ Phase(p) = "resealing" /\ Phase(p) \in Holding /\ op[p].round = "cleaning"
      /\ UNCHANGED <<journal, register, diskVars, refVars, lockVars, scene>>
  BY DEF Reseal, Inv, Memory, Holding, Cleaning
<1>2. CASE Lag(p)
  BY <1>1, <1>2, LagKeeps DEF Inv, Types
<1>3. CASE Goto(p, "removing")
  <2>1. /\ delivery' \in [Contracts -> {None, "start", "tender"}] /\ pin' \subseteq Contracts /\ tip' = tip
        /\ Tenancy' /\ tree' \in [Places -> {None, Foreign} \cup Trees] /\ registered' = registered
    BY <1>1 DEF refVars, diskVars, Inv, Types, Tenancy
  <2> QED
    BY <1>1, <1>3, <2>1, GotoKeeps DEF GoesOn, Cleaning
<1> QED
  BY <1>2, <1>3 DEF Reseal

LEMMA RemoveWorktreeKeeps == ASSUME Inv, NEW p \in Processes, RemoveWorktree(p) PROVE Inv'
<1> DEFINE x == Here(p)
<1>1. /\ Phase(p) = "removing" /\ Phase(p) \in Holding /\ op[p].round = "cleaning" /\ x \in Places
      /\ Mine(p) \in Contracts /\ Terminal(op[p].seen) /\ tree \in [Places -> {None, Foreign} \cup Trees]
      /\ Clear(Mine(p)) \/ (register[Mine(p)] = x /\ x \in op[p].topology)
      /\ UNCHANGED <<journal, register, refVars, lockVars, scene>>
  <2>1. Phase(p) = "removing" /\ Phase(p) \in Holding /\ Phase(p) \in Cleaning
        /\ UNCHANGED <<journal, register, refVars, lockVars, scene>>
    BY DEF RemoveWorktree, Holding, Cleaning
  <2>2. Memory(p) /\ Cleanup(p) /\ Mine(p) \in Contracts /\ x \in Places \cup {None}
        /\ tree \in [Places -> {None, Foreign} \cup Trees]
    BY <2>1 DEF Inv, Custody, Types, Ops, Here
  <2> QED
    BY <2>1, <2>2 DEF Memory, Cleanup, Cleaning
<1>2. None \notin Trees
  BY WorktreesAssumption DEF Trees
<1>3. delivery' \in [Contracts -> {None, "start", "tender"}] /\ pin' \subseteq Contracts /\ tip' = tip
  BY <1>1 DEF refVars, Inv, Types
<1>4. CASE Lag(p) /\ UNCHANGED diskVars
  BY <1>1, <1>4, LagKeeps DEF Inv, Types
<1>5. CASE /\ tree' = [tree EXCEPT ![x] = None]
           /\ registered' = registered \ {x}
           /\ Goto(p, "weighing")
  <2>1. tree' \in [Places -> {None, Foreign} \cup Trees] /\ registered' \subseteq registered
    BY <1>1, <1>5
  <2>2. Tenancy'
    <3>1. \A y \in Places : tree'[y] \in Trees => y # x /\ tree'[y] = tree[y]
      BY <1>1, <1>2, <1>5
    <3>2. Tenancy
      BY DEF Inv
    <3> QED
      BY <1>1, <1>5, <3>1, <3>2 DEF Tenancy
  <2>3. Clear(Mine(p))'
    <3>1. Mine(p)' = Mine(p)
      BY <1>5, GotoBecomes DEF Mine, Phases, Holding
    <3> QED
      BY <1>1, <1>5, <3>1 DEF Clear
  <2> QED
    BY <1>1, <1>3, <1>5, <2>1, <2>2, <2>3, GotoKeeps DEF GoesOn
<1>6. CASE /\ x \notin op[p].topology
           /\ Goto(p, "weighing")
           /\ UNCHANGED diskVars
  <2>1. tree' \in [Places -> {None, Foreign} \cup Trees] /\ registered' = registered /\ Tenancy'
    BY <1>1, <1>6 DEF diskVars, Inv, Tenancy
  <2>2. Clear(Mine(p))'
    <3>1. Mine(p)' = Mine(p)
      BY <1>6, GotoBecomes DEF Mine, Phases, Holding
    <3> QED
      BY <1>1, <1>6, <2>1, <3>1 DEF Clear
  <2> QED
    BY <1>1, <1>3, <1>6, <2>1, <2>2, GotoKeeps DEF GoesOn
<1> QED
  BY <1>4, <1>5, <1>6 DEF RemoveWorktree

LEMMA WeighKeeps == ASSUME Inv, NEW p \in Processes, Weigh(p) PROVE Inv'
<1> DEFINE c == Mine(p)
           holds == IF op[p].seen.delivered
                       THEN op[p].seen.standing = "claimed" /\ c \notin scene.targetless /\ c \in tip
                       ELSE "root" \in tip
           done == delivery[c] = None /\ c \notin pin
           custodian == IF holds THEN tip ELSE None
<1>1. /\ Phase(p) = "weighing" /\ Phase(p) \in Holding /\ op[p] \in Ops /\ op \in [Processes -> Ops]
      /\ Mine(p) \in Contracts /\ tip \in SUBSET (Contracts \cup {"root"})
      /\ Memory(p) /\ Cleanup(p)
      /\ UNCHANGED <<journal, register, diskVars, refVars, lockVars, scene>>
  BY DEF Weigh, Inv, Types, Custody, Holding
<1>2. op' = [op EXCEPT ![p] = IF done THEN [op[p] EXCEPT !.phase = "closing"]
                              ELSE [op[p] EXCEPT !.phase = "releasing", !.custodian = custodian]]
  BY <1>1 DEF Weigh
<1>3. Tenancy' /\ tree' \in [Places -> {None, Foreign} \cup Trees] /\ registered' = registered
      /\ delivery' \in [Contracts -> {None, "start", "tender"}] /\ pin' \subseteq Contracts /\ tip' = tip
  BY <1>1 DEF diskVars, refVars, Inv, Tenancy, Types
<1>4. CASE done
  <2>1. Goto(p, "closing")
    BY <1>1, <1>2, <1>4 DEF Goto
  <2>2. Mine(p)' = Mine(p)
    BY <2>1, GotoBecomes DEF Mine, Phases
  <2>3. Clear(Mine(p))'
    BY <1>1, <1>3, <2>2 DEF Clear, Cleanup, Releasing
  <2> QED
    BY <1>1, <1>3, <2>1, <2>3, GotoKeeps DEF GoesOn, Fenced, Holding
<1>5. CASE ~done
  <2>1. custodian \in (SUBSET (Contracts \cup {"root"})) \cup {None}
    <3>1. custodian = tip \/ custodian = None
      OBVIOUS
    <3> HIDE DEF custodian
    <3> QED
      BY <1>1, <3>1
  <2>2. custodian # None => IF op[p].seen.delivered THEN Mine(p) \in custodian ELSE "root" \in custodian
    OBVIOUS
  <2> HIDE DEF custodian, done
  <2>3. [op[p] EXCEPT !.phase = "releasing", !.custodian = custodian] \in Ops
    BY <1>1, <2>1 DEF Ops, Phases, Holding
  <2>4. /\ op' \in [Processes -> Ops] /\ \A q \in Processes : q # p => op'[q] = op[q]
        /\ op'[p] = [op[p] EXCEPT !.phase = "releasing", !.custodian = custodian]
    BY <1>1, <1>2, <1>5, <2>3
  <2>5. /\ op'[p].phase = "releasing" /\ op'[p].custodian = custodian /\ op'[p].place = op[p].place
        /\ op'[p].batch = op[p].batch /\ op'[p].queue = op[p].queue /\ op'[p].round = op[p].round
        /\ op'[p].contract = op[p].contract /\ op'[p].lag = op[p].lag
        /\ op'[p].terminal = op[p].terminal /\ op'[p].seen = op[p].seen
    BY <1>1, <2>4 DEF Ops
  <2>6. Within(p)
    BY <1>1, <2>4, <2>5 DEF Within, Phase, Fenced, Holding
  <2>7. Memory(p)'
    BY <1>1, <2>2, <2>5 DEF Memory, Phase, Mine, Here, Holding, Cleaning, Releasing
  <2>8. Cleanup(p)'
    BY <1>1, <1>3, <2>5 DEF Cleanup, Phase, Mine, Clear, Cleaning, Releasing
  <2>9. Types'
    BY <1>1, <2>4 DEF Inv, Types, diskVars, refVars, lockVars
  <2> QED
    BY <1>1, <1>3, <2>6, <2>7, <2>8, <2>9, WithinKeeps
<1> QED
  BY <1>4, <1>5

LEMMA ReleaseDeliveryKeeps == ASSUME Inv, NEW p \in Processes, ReleaseDelivery(p) PROVE Inv'
<1>1. /\ Phase(p) = "releasing" /\ Phase(p) \in Holding /\ Mine(p) \in Contracts
      /\ UNCHANGED <<journal, register, diskVars, pin, tip, lockVars, scene>>
  BY DEF ReleaseDelivery, Inv, Custody, Holding
<1>2. CASE Lag(p) /\ UNCHANGED delivery
  BY <1>1, <1>2, LagKeeps DEF refVars, Inv, Types
<1>3. CASE /\ Goto(p, "unpinning")
           /\ UNCHANGED delivery \/ delivery' = [delivery EXCEPT ![Mine(p)] = None]
  <2>1. Tenancy' /\ tree' \in [Places -> {None, Foreign} \cup Trees] /\ registered' = registered
        /\ delivery' \in [Contracts -> {None, "start", "tender"}] /\ pin' \subseteq Contracts /\ tip' = tip
    BY <1>1, <1>3 DEF diskVars, Inv, Tenancy, Types
  <2> QED
    BY <1>1, <1>3, <2>1, GotoKeeps DEF GoesOn
<1> QED
  BY <1>2, <1>3 DEF ReleaseDelivery

LEMMA ReleasePinKeeps == ASSUME Inv, NEW p \in Processes, ReleasePin(p) PROVE Inv'
<1>1. /\ Phase(p) = "unpinning" /\ Phase(p) \in Holding /\ Phase(p) \in Fenced /\ Mine(p) \in Contracts
      /\ Clear(Mine(p))
      /\ UNCHANGED <<journal, register, diskVars, delivery, tip, lockVars, scene>>
  BY DEF ReleasePin, Inv, Custody, Holding, Fenced, Cleanup, Releasing
<1>2. CASE Lag(p) /\ UNCHANGED pin
  BY <1>1, <1>2, LagKeeps DEF refVars, Inv, Types
<1>3. CASE Goto(p, "closing") /\ (UNCHANGED pin \/ pin' = pin \ {Mine(p)})
  <2>1. Tenancy' /\ tree' \in [Places -> {None, Foreign} \cup Trees] /\ registered' = registered
        /\ delivery' \in [Contracts -> {None, "start", "tender"}] /\ pin' \subseteq Contracts /\ tip' = tip
    BY <1>1, <1>3 DEF diskVars, Inv, Tenancy, Types
  <2>2. Mine(p)' = Mine(p)
    BY <1>3, GotoBecomes DEF Mine, Phases
  <2>3. Clear(Mine(p))'
    BY <1>1, <2>1, <2>2 DEF Clear
  <2> QED
    BY <1>1, <1>3, <2>1, <2>3, GotoKeeps DEF GoesOn
<1> QED
  BY <1>2, <1>3 DEF ReleasePin

LEMMA FalterKeeps == ASSUME Inv, NEW p \in Processes, Falter(p) PROVE Inv'
<1>1. scene' \in Scenes
  BY DEF Falter, Inv, Types, Scenes
<1> QED
  BY <1>1, LagKeeps DEF Falter

-----------------------------------------------------------------------------
(* Steps between the contracts, and those that take or give up a lock        *)

(* A process that is not at work for a contract relies on little.            *)
LEMMA OutsideCustody ==
    ASSUME Inv, NEW p \in Processes, \A q \in Processes : q # p => op'[q] = op[q],
           Phase(p)' \notin Holding \cup {"closing", "appointed"}, Released(p),
           register' = register \/ \A q \in Processes : q # p => Phase(q) # "appointed",
           placesLock' = IF placesLock = p THEN None ELSE placesLock
    PROVE  Custody'
<1>1. /\ placesLock \in Processes \cup {None}
      /\ \A c \in Contracts : lock[c] \in Processes \cup {None} /\ fence[c] \in Processes \cup {None, "landing"}
      /\ None \notin Processes /\ "landing" \notin Processes /\ None # "landing"
  BY WorktreesAssumption DEF Inv, Types
<1>2. \A q \in Processes : q # p => Phase(q)' = Phase(q) /\ Mine(q)' = Mine(q)
  BY DEF Phase, Mine
<1>3. \A q \in Processes : q # p /\ Phase(q) = "appointed" => Occupied' = Occupied
  BY DEF Occupied
<1>4. \A c \in Contracts : /\ lock'[c] = IF lock[c] = p THEN None ELSE lock[c]
                           /\ fence'[c] = IF fence[c] = p THEN None ELSE fence[c]
  BY DEF Released
<1>5. placesLock' # None => op'[placesLock'].phase = "appointed"
  <2>1. placesLock' # None => placesLock' = placesLock /\ placesLock # p /\ placesLock \in Processes
    BY <1>1
  <2> QED
    BY <1>2, <2>1 DEF Inv, Custody, Phase
<1>6. ASSUME NEW c \in Contracts
      PROVE  /\ lock'[c] # None => op'[lock'[c]].phase \in Holding \cup {"closing"} /\ op'[lock'[c]].contract = c
             /\ fence'[c] \notin {None, "landing"} =>
                   op'[fence'[c]].phase \in Fenced \cup {"closing"} /\ lock'[c] = fence'[c]
  <2>1. lock'[c] # None => lock'[c] = lock[c] /\ lock[c] # p /\ lock[c] \in Processes
    BY <1>1, <1>4
  <2>2. fence'[c] \notin {None, "landing"} => fence'[c] = fence[c] /\ fence[c] # p /\ fence[c] \in Processes
    BY <1>1, <1>4
  <2>3. /\ lock[c] # None => Phase(lock[c]) \in Holding \cup {"closing"} /\ Mine(lock[c]) = c
        /\ fence[c] \notin {None, "landing"} => Phase(fence[c]) \in Fenced \cup {"closing"} /\ lock[c] = fence[c]
    BY DEF Inv, Custody
  <2>4. lock'[c] # None => op'[lock'[c]].phase = Phase(lock[c]) /\ op'[lock'[c]].contract = Mine(lock[c])
    BY <2>1 DEF Phase, Mine
  <2>5. fence'[c] \notin {None, "landing"} => op'[fence'[c]].phase = Phase(fence[c]) /\ lock'[c] = lock[c]
    BY <1>4, <2>2, <2>3 DEF Phase
  <2> QED
    BY <2>1, <2>2, <2>3, <2>4, <2>5
<1>7. ASSUME NEW q \in Processes
      PROVE  /\ Phase(q)' = "appointed" => placesLock' = q /\ op'[q].topology = Occupied'
             /\ Phase(q)' \in Holding \cup {"closing"} => Mine(q)' \in Contracts /\ lock'[Mine(q)'] = q
             /\ Phase(q)' \in Fenced => fence'[Mine(q)'] = q
  <2>1. CASE q = p
    BY <2>1 DEF Fenced
  <2>2. CASE q # p
    <3>1. op'[q] = op[q] /\ Phase(q)' = Phase(q) /\ Mine(q)' = Mine(q) /\ q # None
      BY <1>1, <1>2, <2>2
    <3>2. /\ Phase(q) = "appointed" => placesLock = q /\ op[q].topology = Occupied
          /\ Phase(q) \in Holding \cup {"closing"} => Mine(q) \in Contracts /\ lock[Mine(q)] = q
          /\ Phase(q) \in Fenced => fence[Mine(q)] = q
      BY DEF Inv, Custody
    <3>3. Phase(q) \in Fenced => Phase(q) \in Holding
      BY DEF Fenced
    <3> QED
      BY <1>3, <1>4, <2>2, <3>1, <3>2, <3>3
  <2> QED
    BY <2>1, <2>2
<1>8. \A q : Phase(q)' = op'[q].phase /\ Mine(q)' = op'[q].contract
  BY DEF Phase, Mine
<1> HIDE DEF Holding, Fenced, Occupied
<1> QED
  BY <1>5, <1>6, <1>7, <1>8 DEF Custody, Phase, Mine

LEMMA OutsideMoves ==
    ASSUME Inv, NEW p \in Processes, \A q \in Processes : q # p => op'[q] = op[q],
           Phase(p)' \notin Holding, journal' = journal, PlacesMove, \A c \in Contracts : Clear(c) => Clear(c)',
           Types', Custody', Tenancy',
           op'[p].terminal \subseteq op[p].terminal,
           op'[p].queue \subseteq op'[p].batch, op'[p].terminal \subseteq op'[p].batch,
           Phase(p)' # "closing",
           Phase(p)' = "next" => op'[p].round # None,
           Phase(p)' = "dismissing" => op'[p].queue = {} /\ op'[p].round = "cleaning"
                                       /\ op'[p].terminal \cap op'[p].lag = {},
           op'[p].round = "cleaning" =>
              \A c \in op'[p].terminal \ op'[p].lag : c \in op'[p].queue \/ Clear(c)
    PROVE  Inv'
<1>1. Looks
  <2>1. ASSUME NEW r \in Processes, Phase(r)' \in Holding
        PROVE  Phase(r) \in Holding /\ Mine(r)' = Mine(r) /\ op'[r].seen = op[r].seen
    BY <2>1 DEF Phase, Mine
  <2> QED
    BY <2>1 DEF Looks
<1>2. ASSUME NEW q \in Processes, q # p PROVE Memory(q)' /\ Ends(q)' /\ Cleanup(q)'
  <2>1. EndsStay /\ ClearStays(q)
    BY DEF EndsStay, ClearStays
  <2> QED
    BY <1>1, <1>2, <2>1, BystanderKeeps
<1>3. Memory(p)'
  BY DEF Memory, Phase, Holding, Cleaning, Releasing
<1>4. Ends(p)'
  <2>1. ASSUME NEW c \in op'[p].terminal, NEW q \in Processes, Phase(q)' \in Holding, Mine(q)' = c
        PROVE  Terminal(op'[q].seen)
    BY <2>1 DEF Inv, Ends, Phase, Mine
  <2>2. \A c \in op'[p].terminal : Terminal(journal'[c])
    BY DEF Inv, Ends
  <2> QED
    BY <2>1, <2>2 DEF Ends, Phase, Mine
<1>5. Cleanup(p)'
  <2>1. \A c \in op'[p].terminal \ op'[p].lag : op'[p].round = "cleaning" => c \in op'[p].queue \/ Clear(c)'
    BY DEF Inv, Types, Ops
  <2>2. Phase(p)' \notin {"locating"} \cup Cleaning \cup Releasing
    BY DEF Holding, Cleaning, Releasing
  <2>3. \A c : Clear(c)' <=> register'[c] \notin registered'
    BY DEF Clear
  <2> QED
    BY <2>1, <2>2, <2>3 DEF Cleanup, Clear, Phase
<1> QED
  BY <1>2, <1>3, <1>4, <1>5 DEF Inv

LEMMA OutsideKeeps ==
    ASSUME Inv, NEW p \in Processes, \A q \in Processes : q # p => op'[q] = op[q],
           Phase(p)' \notin Holding, UNCHANGED <<journal, register>>, registered' \subseteq registered,
           Types', Custody', Tenancy',
           op'[p].terminal \subseteq op[p].terminal,
           op'[p].queue \subseteq op'[p].batch, op'[p].terminal \subseteq op'[p].batch,
           Phase(p)' # "closing",
           Phase(p)' = "next" => op'[p].round # None,
           Phase(p)' = "dismissing" => op'[p].queue = {} /\ op'[p].round = "cleaning"
                                       /\ op'[p].terminal \cap op'[p].lag = {},
           op'[p].round = "cleaning" =>
              \A c \in op'[p].terminal \ op'[p].lag : c \in op'[p].queue \/ Clear(c)
    PROVE  Inv'
<1>1. PlacesMove /\ \A c \in Contracts : Clear(c) => Clear(c)'
  BY DEF PlacesMove, Clear
<1> QED
  BY <1>1, OutsideMoves

LEMMA ReleasedTypes ==
    ASSUME Inv, NEW p \in Processes, Released(p)
    PROVE  lock' \in [Contracts -> Processes \cup {None}] /\ fence' \in [Contracts -> Processes \cup {None, "landing"}]
  BY DEF Inv, Types, Released

LEMMA CloseKeeps == ASSUME Inv, NEW p \in Processes, Close(p) PROVE Inv'
<1> DEFINE rest == [Idle EXCEPT !.phase = "next", !.batch = op[p].batch, !.queue = op[p].queue,
                                !.round = op[p].round, !.known = op[p].known,
                                !.terminal = op[p].terminal, !.lag = op[p].lag]
<1>1. /\ Phase(p) = "closing" /\ op[p] \in Ops /\ op \in [Processes -> Ops] /\ Released(p)
      /\ Ends(p) /\ Cleanup(p)
      /\ UNCHANGED <<journal, register, diskVars, refVars, placesLock, scene>>
      /\ op' = [op EXCEPT ![p] = rest]
  BY DEF Close, Inv, Types
<1>2. /\ rest \in Ops /\ rest.phase = "next" /\ rest.batch = op[p].batch /\ rest.queue = op[p].queue
      /\ rest.round = op[p].round /\ rest.terminal = op[p].terminal /\ rest.lag = op[p].lag
  BY <1>1 DEF Ops, Idle, Phases, Holding
<1> HIDE DEF rest
<1>3. op'[p] = rest /\ op' \in [Processes -> Ops] /\ \A q \in Processes : q # p => op'[q] = op[q]
  BY <1>1, <1>2
<1>4. Phase(p)' = "next"
  BY <1>2, <1>3 DEF Phase
<1>5. placesLock' = IF placesLock = p THEN None ELSE placesLock
  BY <1>1, WorktreesAssumption DEF Inv, Custody
<1>6. Custody'
  BY <1>1, <1>3, <1>4, <1>5, OutsideCustody DEF Holding
<1>7. Types'
  BY <1>1, <1>3, ReleasedTypes DEF Inv, Types, diskVars, refVars
<1>8. Tenancy' /\ registered' = registered
  BY <1>1 DEF Inv, Tenancy, diskVars
<1>9. op[p].round = "cleaning" => \A c \in op[p].terminal \ op[p].lag : c \in op[p].queue \/ Clear(c)
  BY <1>1 DEF Cleanup, Cleaning
<1> QED
  BY <1>1, <1>2, <1>3, <1>4, <1>6, <1>7, <1>8, <1>9, OutsideKeeps DEF Ends, Holding

LEMMA IdleIsOp == Idle \in Ops /\ Idle.phase = "idle" /\ Idle.terminal = {} /\ Idle.queue = {} /\ Idle.batch = {}
                  /\ Idle.round = None
  BY DEF Idle, Ops, Phases

LEMMA DieKeeps == ASSUME Inv, NEW p \in Processes, Die(p) PROVE Inv'
<1>1. /\ op' = [op EXCEPT ![p] = Idle] /\ op \in [Processes -> Ops] /\ Released(p)
      /\ placesLock' = IF placesLock = p THEN None ELSE placesLock
      /\ UNCHANGED <<journal, register, diskVars, refVars>> /\ scene' \in Scenes
  BY DEF Die, Inv, Types, Scenes
<1>2. op'[p] = Idle /\ op' \in [Processes -> Ops] /\ \A q \in Processes : q # p => op'[q] = op[q]
  BY <1>1, IdleIsOp
<1>3. Phase(p)' = "idle"
  BY <1>2, IdleIsOp DEF Phase
<1>4. Custody'
  BY <1>1, <1>2, <1>3, OutsideCustody DEF Holding
<1>5. Types'
  BY <1>1, <1>2, ReleasedTypes DEF Inv, Types, diskVars, refVars
<1>6. Tenancy' /\ registered' = registered
  BY <1>1 DEF Inv, Tenancy, diskVars
<1> QED
  BY <1>1, <1>2, <1>3, <1>4, <1>5, <1>6, IdleIsOp, OutsideKeeps DEF Holding

(* A process that holds nothing releases nothing. *)
LEMMA NothingReleased ==
    ASSUME Inv, NEW p \in Processes, Phase(p) \notin Holding \cup {"closing"}, UNCHANGED <<lock, fence>>
    PROVE  Released(p)
<1>1. \A c \in Contracts : lock[c] # p /\ fence[c] # p
  <2>1. p # None /\ p # "landing"
    BY WorktreesAssumption
  <2> QED
    BY <2>1 DEF Inv, Custody, Fenced
<1>2. lock \in [Contracts -> Processes \cup {None}] /\ fence \in [Contracts -> Processes \cup {None, "landing"}]
  BY DEF Inv, Types
<1> QED
  BY <1>1, <1>2 DEF Released

LEMMA OutsideCustodyStays ==
    ASSUME Inv, NEW p \in Processes, \A q \in Processes : q # p => op'[q] = op[q],
           Phase(p) \notin Holding \cup {"closing", "appointed"},
           Phase(p)' \notin Holding \cup {"closing", "appointed"}, register' = register, UNCHANGED lockVars
    PROVE  Custody'
<1>1. Released(p)
  BY NothingReleased DEF lockVars
<1>2. placesLock # p
  BY WorktreesAssumption DEF Inv, Custody
<1> QED
  BY <1>1, <1>2, OutsideCustody DEF lockVars

LEMMA BeginKeeps == ASSUME Inv, NEW p \in Processes, NEW batch \in scene.batches[p], Begin(p, batch) PROVE Inv'
<1> DEFINE present == {c \in batch : journal[c].standing # "unbound"}
           active == {c \in batch : journal[c].standing = "active"}
           new == [Idle EXCEPT !.phase = "appointing", !.batch = present, !.queue = active]
<1>1. /\ Phase(p) = "idle" /\ op \in [Processes -> Ops] /\ scene \in Scenes /\ batch \subseteq Contracts
      /\ UNCHANGED <<journal, register, diskVars, refVars, lockVars>>
      /\ op' = [op EXCEPT ![p] = new]
      /\ scene' = IF p \in scene.tireless THEN scene ELSE [scene EXCEPT !.rounds[p] = @ - 1]
      /\ p \in scene.tireless \/ scene.rounds[p] > 0
  BY DEF Begin, Inv, Types, Scenes
<1>2. present \subseteq Contracts /\ active \subseteq present
  BY <1>1
<1> HIDE DEF present, active
<1>3. new \in Ops /\ new.phase = "appointing" /\ new.batch = present /\ new.queue = active /\ new.terminal = {}
      /\ new.round = None
  BY <1>2 DEF Idle, Ops, Phases
<1> HIDE DEF new
<1>4. op'[p] = new /\ op' \in [Processes -> Ops] /\ \A q \in Processes : q # p => op'[q] = op[q]
  BY <1>1, <1>3
<1>5. Phase(p)' = "appointing"
  BY <1>3, <1>4 DEF Phase
<1>6. Custody'
  BY <1>1, <1>4, <1>5, OutsideCustodyStays DEF Holding
<1>7. scene' \in Scenes
  BY <1>1 DEF Scenes
<1>8. Types' /\ Tenancy' /\ registered' = registered
  BY <1>1, <1>4, <1>7 DEF Inv, Types, Tenancy, diskVars, refVars, lockVars
<1> QED
  BY <1>1, <1>2, <1>3, <1>4, <1>5, <1>6, <1>8, OutsideKeeps DEF Holding

LEMMA OpenRegisterKeeps == ASSUME Inv, NEW p \in Processes, OpenRegister(p) PROVE Inv'
<1>1. /\ Phase(p) = "appointing" /\ op \in [Processes -> Ops] /\ op[p] \in Ops /\ placesLock = None /\ placesLock' = p
      /\ UNCHANGED <<journal, register, diskVars, refVars, lock, fence, scene>>
      /\ Occupied \subseteq Places /\ p # None
  BY WorktreesAssumption DEF OpenRegister, Inv, Types, Occupied
<1>2. op' = [op EXCEPT ![p] = [op[p] EXCEPT !.phase = "appointed", !.topology = Occupied]]
  BY <1>1 DEF OpenRegister
<1>3. [op[p] EXCEPT !.phase = "appointed", !.topology = Occupied] \in Ops
  BY <1>1 DEF Ops, Phases
<1>4. /\ op' \in [Processes -> Ops] /\ \A q \in Processes : q # p => op'[q] = op[q]
      /\ op'[p] = [op[p] EXCEPT !.phase = "appointed", !.topology = Occupied]
  BY <1>1, <1>2, <1>3
<1>5. /\ op'[p].phase = "appointed" /\ op'[p].topology = Occupied /\ op'[p].batch = op[p].batch
      /\ op'[p].queue = op[p].queue /\ op'[p].round = op[p].round
      /\ op'[p].terminal = op[p].terminal /\ op'[p].lag = op[p].lag
  BY <1>1, <1>4 DEF Ops
<1>6. Custody'
  <2>1. Occupied' = Occupied
    BY <1>1 DEF Occupied
  <2>2. \A q \in Processes : q # p => Phase(q)' = Phase(q) /\ Mine(q)' = Mine(q) /\ Phase(q) # "appointed"
    BY <1>1, <1>4, WorktreesAssumption DEF Phase, Mine, Inv, Custody
  <2>3. \A c \in Contracts : lock[c] # p /\ fence[c] # p
    BY <1>1, WorktreesAssumption DEF Inv, Custody, Holding, Fenced
  <2>4. \A c \in Contracts : lock[c] \in Processes \cup {None} /\ fence[c] \in Processes \cup {None, "landing"}
    BY DEF Inv, Types
  <2>5. \A c \in Contracts :
          /\ lock[c] # None => op'[lock[c]].phase \in Holding \cup {"closing"} /\ op'[lock[c]].contract = c
          /\ fence[c] \notin {None, "landing"} =>
                op'[fence[c]].phase \in Fenced \cup {"closing"} /\ lock[c] = fence[c]
    BY <2>2, <2>3, <2>4 DEF Inv, Custody, Phase, Mine
  <2>6. \A q \in Processes :
          /\ Phase(q)' = "appointed" => p = q /\ op'[q].topology = Occupied
          /\ Phase(q)' \in Holding \cup {"closing"} => Mine(q)' \in Contracts /\ lock[Mine(q)'] = q
          /\ Phase(q)' \in Fenced => fence[Mine(q)'] = q
    BY <1>5, <2>2 DEF Inv, Custody, Phase, Mine, Holding, Fenced
  <2>7. \A q : Phase(q)' = op'[q].phase /\ Mine(q)' = op'[q].contract
    BY DEF Phase, Mine
  <2> HIDE DEF Holding, Fenced, Occupied
  <2> QED
    BY <1>1, <1>5, <2>1, <2>5, <2>6, <2>7 DEF Custody, Phase, Mine
<1>7. Types' /\ Tenancy' /\ registered' = registered
  BY <1>1, <1>4 DEF Inv, Types, Tenancy, diskVars, refVars
<1>8. Ends(p) /\ Cleanup(p)
  BY DEF Inv
<1> QED
  BY <1>1, <1>4, <1>5, <1>6, <1>7, <1>8, OutsideKeeps DEF Ends, Cleanup, Cleaning, Phase, Holding

LEMMA EndRoundKeeps == ASSUME Inv, NEW p \in Processes, EndRound(p) PROVE Inv'
<1> DEFINE released == (op[p].terminal \cap op[p].known) \ op[p].lag
           again == [op[p] EXCEPT !.round = "cleaning", !.queue = op[p].batch, !.lag = {}]
           dismissing == [op[p] EXCEPT !.phase = "dismissing", !.terminal = released]
<1>1. /\ Phase(p) = "next" /\ op[p].phase = "next" /\ op \in [Processes -> Ops] /\ op[p] \in Ops /\ op[p].queue = {}
      /\ UNCHANGED <<journal, register, diskVars, refVars, lockVars, scene>>
      /\ Ends(p) /\ Cleanup(p)
  BY DEF EndRound, Inv, Types, Phase
<1>2. op' = [op EXCEPT ![p] = IF op[p].round = "retaining" /\ op[p].terminal # {} THEN again
                              ELSE IF op[p].round = "cleaning" /\ released # {} THEN dismissing
                              ELSE Idle]
  BY <1>1 DEF EndRound
<1>3. /\ again \in Ops /\ again.phase = "next" /\ again.batch = op[p].batch /\ again.queue = op[p].batch
      /\ again.round = "cleaning" /\ again.terminal = op[p].terminal /\ again.lag = {}
  BY <1>1 DEF Ops
<1>4. /\ dismissing \in Ops /\ dismissing.phase = "dismissing" /\ dismissing.batch = op[p].batch
      /\ dismissing.queue = {} /\ dismissing.round = op[p].round /\ dismissing.terminal = released
      /\ dismissing.lag = op[p].lag
  BY <1>1 DEF Ops, Phases
<1> HIDE DEF again, dismissing
<1>5. /\ op' \in [Processes -> Ops] /\ \A q \in Processes : q # p => op'[q] = op[q]
      /\ \/ op'[p] = again
         \/ op'[p] = dismissing /\ op[p].round = "cleaning"
         \/ op'[p] = Idle
  BY <1>1, <1>2, <1>3, <1>4, IdleIsOp
<1>6. Phase(p)' \in {"next", "dismissing", "idle"} /\ Phase(p)' = op'[p].phase
  BY <1>3, <1>4, <1>5, IdleIsOp DEF Phase
<1>7. Custody'
  BY <1>1, <1>5, <1>6, OutsideCustodyStays DEF Holding
<1>8. Types' /\ Tenancy' /\ registered' = registered
  BY <1>1, <1>5 DEF Inv, Types, Tenancy, diskVars, refVars, lockVars
<1>9. op[p].round = "cleaning" => \A c \in op[p].terminal \ op[p].lag : Clear(c)
  BY <1>1 DEF Cleanup, Cleaning
<1>10. op[p].terminal \subseteq op[p].batch
  BY <1>1 DEF Ends
<1>11. CASE op'[p] = again
  BY <1>1, <1>3, <1>5, <1>6, <1>7, <1>8, <1>10, <1>11, OutsideKeeps, WorktreesAssumption DEF Holding
<1>12. CASE op'[p] = dismissing /\ op[p].round = "cleaning"
  BY <1>1, <1>4, <1>5, <1>6, <1>7, <1>8, <1>9, <1>10, <1>12, OutsideKeeps DEF Holding
<1>13. CASE op'[p] = Idle
  BY <1>1, <1>5, <1>6, <1>7, <1>8, <1>13, IdleIsOp, OutsideKeeps DEF Holding
<1> QED
  BY <1>5, <1>11, <1>12, <1>13

LEMMA LockFailsKeeps == ASSUME Inv, NEW p \in Processes, LockFails(p) PROVE Inv'
<1> PICK c \in op[p].queue :
      op' = [op EXCEPT ![p].queue = @ \ {c}, ![p].lag = @ \cup {c},
                       ![p].terminal = IF op[p].round = "cleaning" THEN @ ELSE @ \ {c}]
  BY DEF LockFails
<1> DEFINE new == [op[p] EXCEPT !.queue = @ \ {c}, !.lag = @ \cup {c},
                                !.terminal = IF op[p].round = "cleaning" THEN @ ELSE @ \ {c}]
<1>1. /\ Phase(p) = "next" /\ op[p].phase = "next" /\ op \in [Processes -> Ops] /\ op[p] \in Ops
      /\ UNCHANGED <<journal, register, diskVars, refVars, lockVars>> /\ scene' \in Scenes
      /\ Ends(p) /\ Cleanup(p)
  BY DEF LockFails, Inv, Types, Scenes, Phase
<1>2. /\ new \in Ops /\ new.phase = "next" /\ new.batch = op[p].batch /\ new.queue = op[p].queue \ {c}
      /\ new.round = op[p].round /\ new.lag = op[p].lag \cup {c} /\ new.terminal \subseteq op[p].terminal
  BY <1>1 DEF Ops
<1> HIDE DEF new
<1>3. op'[p] = new /\ op' \in [Processes -> Ops] /\ \A q \in Processes : q # p => op'[q] = op[q]
  BY <1>1, <1>2 DEF new
<1>4. Phase(p)' = "next"
  BY <1>2, <1>3 DEF Phase
<1>5. Custody'
  BY <1>1, <1>3, <1>4, OutsideCustodyStays DEF Holding
<1>6. Types' /\ Tenancy' /\ registered' = registered
  BY <1>1, <1>3 DEF Inv, Types, Tenancy, diskVars, refVars, lockVars
<1>7. op[p].round = "cleaning" => \A d \in op[p].terminal \ op[p].lag : d \in op[p].queue \/ Clear(d)
  BY <1>1 DEF Cleanup, Cleaning
<1> QED
  BY <1>1, <1>2, <1>3, <1>4, <1>5, <1>6, <1>7, OutsideKeeps DEF Ends, Holding

LEMMA AppointKeeps == ASSUME Inv, NEW p \in Processes, Appoint(p) PROVE Inv'
<1> DEFINE missing == {c \in op[p].queue : register[c] = None}
           free == {x \in Places : x \notin op[p].topology /\ tree[x] = None}
<1> PICK place \in Injection(missing, free) :
      register' = [c \in Contracts |-> IF c \in missing THEN place[c] ELSE register[c]]
  BY DEF Appoint
<1>1. /\ Phase(p) = "appointed" /\ op \in [Processes -> Ops] /\ op[p] \in Ops
      /\ placesLock = p /\ op[p].topology = Occupied /\ placesLock' = None
      /\ UNCHANGED <<journal, diskVars, refVars, lock, fence, scene>>
      /\ op' = [op EXCEPT ![p] = [op[p] EXCEPT !.phase = "next", !.round = "retaining", !.queue = op[p].batch,
                                               !.topology = {}, !.known = {c \in Contracts : register'[c] # None}]]
      /\ Ends(p)
  BY DEF Appoint, Inv, Types, Custody
<1>2. /\ place \in [missing -> free] /\ \A c, d \in missing : place[c] = place[d] => c = d
  BY DEF Injection, IsInjective
<1>3. ASSUME NEW c \in missing
      PROVE  /\ c \in Contracts /\ register[c] = None /\ register'[c] = place[c]
             /\ place[c] \in Places /\ place[c] # None /\ place[c] \notin Occupied
             /\ place[c] \notin registered /\ tree[place[c]] = None
  <2>1. /\ c \in Contracts /\ register[c] = None /\ register'[c] = place[c]
        /\ place[c] \in Places /\ place[c] # None /\ place[c] \notin Occupied /\ tree[place[c]] = None
    BY <1>1, <1>2, <1>3, WorktreesAssumption DEF Ops
  <2>2. place[c] \notin registered
    BY <2>1 DEF Inv, Tenancy, Occupied
  <2> QED
    BY <2>1, <2>2
<1>4. ASSUME NEW c \in Contracts \ missing PROVE register'[c] = register[c]
  OBVIOUS
<1> HIDE DEF missing, free
<1> DEFINE known == {c \in Contracts : register'[c] # None}
           new == [op[p] EXCEPT !.phase = "next", !.round = "retaining", !.queue = op[p].batch,
                                !.topology = {}, !.known = known]
<1>5. known \subseteq Contracts
  OBVIOUS
<1> HIDE DEF known
<1>6. /\ new \in Ops /\ new.phase = "next" /\ new.batch = op[p].batch /\ new.queue = op[p].batch
      /\ new.round = "retaining" /\ new.terminal = op[p].terminal
  BY <1>1, <1>5 DEF Ops, Phases
<1> HIDE DEF new
<1>7. op'[p] = new /\ op' \in [Processes -> Ops] /\ \A q \in Processes : q # p => op'[q] = op[q]
  BY <1>1, <1>6 DEF new, known
<1>8. register' \in [Contracts -> Places \cup {None}]
  <2>1. \A c \in Contracts : register'[c] \in Places \cup {None}
    BY <1>3, <1>4 DEF Inv, Types
  <2> QED
    BY <2>1
<1>9. Types'
  BY <1>1, <1>7, <1>8 DEF Inv, Types, diskVars, refVars
<1>10. PlacesMove /\ \A c \in Contracts : Clear(c) => Clear(c)'
  BY <1>1, <1>3, <1>4 DEF PlacesMove, Clear, diskVars
<1>11. Tenancy'
  <2>1. Tenancy /\ tree' = tree /\ registered' = registered
    BY <1>1 DEF Inv, diskVars
  <2>2. ASSUME NEW c \in Contracts, NEW d \in Contracts, register'[c] = register'[d], register'[c] # None
        PROVE  c = d
    <3>1. CASE c \in missing /\ d \in missing
      BY <1>2, <1>3, <2>2, <3>1
    <3>2. CASE c \notin missing /\ d \notin missing
      BY <1>4, <2>1, <2>2, <3>2 DEF Tenancy
    <3>3. CASE c \in missing /\ d \notin missing
      BY <1>3, <1>4, <2>2, <3>3 DEF Occupied
    <3>4. CASE c \notin missing /\ d \in missing
      BY <1>3, <1>4, <2>2, <3>4 DEF Occupied
    <3> QED
      BY <3>1, <3>2, <3>3, <3>4
  <2>3. ASSUME NEW c \in Contracts, register[c] # None PROVE register'[c] = register[c]
    BY <1>3, <1>4, <2>3
  <2>4. ASSUME NEW x \in Places, tree[x] \in Trees PROVE x \in registered /\ register'[tree[x].owner] = x
    <3>1. tree[x].owner \in Contracts /\ x # None
      BY <2>4, WorktreesAssumption DEF Trees
    <3> QED
      BY <2>1, <2>3, <2>4, <3>1 DEF Tenancy
  <2>5. ASSUME NEW x \in registered PROVE \E c \in Contracts : register'[c] = x
    <3>1. x # None /\ \E c \in Contracts : register[c] = x
      BY <2>1, WorktreesAssumption DEF Tenancy, Inv, Types
    <3> QED
      BY <2>3, <3>1
  <2> QED
    BY <2>1, <2>2, <2>4, <2>5 DEF Tenancy
<1>12. Phase(p)' = "next"
  BY <1>6, <1>7 DEF Phase
<1>13. Custody'
  <2>1. \A q \in Processes : q # p => Phase(q) # "appointed"
    BY <1>1 DEF Inv, Custody
  <2>2. Released(p)
    BY <1>1, NothingReleased DEF Holding
  <2> QED
    BY <1>1, <1>7, <1>12, <2>1, <2>2, OutsideCustody DEF Holding
<1> QED
  BY <1>1, <1>6, <1>7, <1>9, <1>10, <1>11, <1>12, <1>13, OutsideMoves, WorktreesAssumption DEF Ends, Holding

LEMMA DismissKeeps == ASSUME Inv, NEW p \in Processes, Dismiss(p) PROVE Inv'
<1>1. /\ Phase(p) = "dismissing" /\ op[p].phase = "dismissing" /\ op \in [Processes -> Ops] /\ op[p] \in Ops
      /\ placesLock = None
      /\ UNCHANGED <<journal, diskVars, refVars, lockVars, scene>>
      /\ Ends(p) /\ Cleanup(p) /\ Tenancy
      /\ op' = [op EXCEPT ![p] = Idle]
  BY DEF Dismiss, Inv, Types, Phase
<1>2. \A c \in Contracts : register'[c] = IF c \in op[p].terminal THEN None ELSE register[c]
  BY DEF Dismiss
<1>3. register' \in [Contracts -> Places \cup {None}]
  BY DEF Dismiss, Inv, Types
<1>4. op'[p] = Idle /\ op' \in [Processes -> Ops] /\ \A q \in Processes : q # p => op'[q] = op[q]
  BY <1>1, IdleIsOp
<1>5. Phase(p)' = "idle"
  BY <1>4, IdleIsOp DEF Phase
<1>6. ASSUME NEW c \in op[p].terminal PROVE Clear(c)
  BY <1>1, <1>6 DEF Ends, Cleanup, Cleaning
<1>7. None \notin registered /\ registered' = registered /\ tree' = tree
  BY <1>1, WorktreesAssumption DEF Inv, Types, diskVars
<1>8. PlacesMove /\ \A c \in Contracts : Clear(c) => Clear(c)'
  <2>1. \A c \in op[p].terminal : \A r \in Processes : Phase(r) \in Holding /\ Mine(r) = c => Terminal(op[r].seen)
    BY <1>1 DEF Ends
  <2> QED
    BY <1>2, <1>7, <2>1 DEF PlacesMove, Clear
<1>9. Types'
  BY <1>1, <1>3, <1>4 DEF Inv, Types, diskVars, refVars, lockVars
<1>10. Tenancy'
  <2>1. \A c \in Contracts : register[c] \in registered => register'[c] = register[c]
    BY <1>2, <1>6 DEF Clear
  <2>2. \A c, d \in Contracts : register'[c] = register'[d] /\ register'[c] # None => c = d
    BY <1>1, <1>2 DEF Tenancy
  <2>3. ASSUME NEW x \in Places, tree[x] \in Trees PROVE x \in registered /\ register'[tree[x].owner] = x
    <3>1. tree[x].owner \in Contracts
      BY <2>3 DEF Trees
    <3> QED
      BY <1>1, <2>1, <2>3, <3>1 DEF Tenancy
  <2>4. ASSUME NEW x \in registered PROVE \E c \in Contracts : register'[c] = x
    BY <1>1, <2>1 DEF Tenancy
  <2> QED
    BY <1>7, <2>2, <2>3, <2>4 DEF Tenancy
<1>11. Custody'
  <2>1. \A q \in Processes : q # p => Phase(q) # "appointed"
    BY <1>1, WorktreesAssumption DEF Inv, Custody
  <2>2. Released(p) /\ placesLock # p
    BY <1>1, NothingReleased, WorktreesAssumption DEF Holding, lockVars
  <2> QED
    BY <1>1, <1>4, <1>5, <2>1, <2>2, OutsideCustody DEF Holding, lockVars
<1> QED
  BY <1>1, <1>4, <1>5, <1>8, <1>9, <1>10, <1>11, IdleIsOp, OutsideMoves DEF Holding

-----------------------------------------------------------------------------
(* Steps in which a process looks at a contract                              *)

LEMMA Observes ==
    ASSUME NEW o \in Ops, NEW c \in Contracts, journal[c] \in Journals, NEW n, n = Observed(o, c)
    PROVE  /\ n \in Ops /\ n.phase = "fencing" /\ n.seen = journal[c]
           /\ n.batch = o.batch /\ n.queue = o.queue /\ n.round = o.round /\ n.contract = o.contract
           /\ n.lag = o.lag
           /\ o.round = "cleaning" => n.terminal = o.terminal
           /\ \A d \in n.terminal : d \in o.terminal \/ (d = c /\ Terminal(journal[c]))
<1> DEFINE ended == IF o.round = "cleaning" THEN o.terminal
                    ELSE IF Terminal(journal[c]) THEN o.terminal \cup {c} ELSE o.terminal \ {c}
<1>1. n = [o EXCEPT !.phase = "fencing", !.seen = journal[c], !.terminal = ended]
  BY DEF Observed, Ops
<1>2. ended \in SUBSET Contracts
  BY DEF Ops
<1>3. /\ o.round = "cleaning" => ended = o.terminal
      /\ \A d \in ended : d \in o.terminal \/ (d = c /\ Terminal(journal[c]))
  OBVIOUS
<1> HIDE DEF ended
<1>4. /\ n.phase = "fencing" /\ n.seen = journal[c] /\ n.terminal = ended
      /\ n.batch = o.batch /\ n.queue = o.queue /\ n.round = o.round /\ n.contract = o.contract
      /\ n.lag = o.lag
  BY <1>1 DEF Ops
<1>5. "fencing" \in Phases /\ journal[c] \in Journals \cup {None}
  BY DEF Phases, Holding
<1>6. n \in Ops
  BY <1>1, <1>2, <1>5 DEF Ops
<1> QED
  BY <1>3, <1>4, <1>6

LEMMA LookingKeeps ==
    ASSUME Inv, NEW p \in Processes, NEW c \in Contracts, \A q \in Processes : q # p => op'[q] = op[q],
           Phase(p) \in {"next", "fencing"}, Phase(p)' \in {"fencing", "surveying"},
           op'[p].contract = c, op'[p].seen = journal[c],
           op'[p].batch = op[p].batch, c \in op[p].batch, op'[p].round = op[p].round, op'[p].lag = op[p].lag,
           op'[p].queue \subseteq op[p].queue, op[p].queue \subseteq op'[p].queue \cup {c},
           op[p].round = "cleaning" => op'[p].terminal = op[p].terminal,
           \A d \in op'[p].terminal : d \in op[p].terminal \/ (d = c /\ Terminal(journal[c])),
           Phase(p) = "fencing" => Mine(p) = c,
           \A q \in Processes : q # p => ~(Phase(q) \in Holding /\ Mine(q) = c),
           UNCHANGED <<journal, register, diskVars>>, Types', Custody'
    PROVE  Inv'
<1>1. Memory(p) /\ Ends(p) /\ Cleanup(p) /\ journal[c] \in Journals /\ Mine(p)' = c /\ registered' = registered
  BY DEF Inv, Types, Mine, diskVars
<1>2. Looks
  <2>1. ASSUME NEW r \in Processes, Phase(r)' \in Holding, r # p
        PROVE  Phase(r) \in Holding /\ Mine(r)' = Mine(r) /\ op'[r].seen = op[r].seen
    BY <2>1 DEF Phase, Mine
  <2> QED
    BY <1>1, <2>1 DEF Looks
<1>3. ASSUME NEW q \in Processes, q # p PROVE Memory(q)' /\ Ends(q)' /\ Cleanup(q)'
  BY <1>1, <1>2, <1>3, QuietBystander
<1>4. Memory(p)'
  BY <1>1 DEF Memory, Phase, Cleaning, Releasing
<1>5. Ends(p)'
  <2>1. op'[p].terminal \subseteq op'[p].batch /\ op'[p].queue \subseteq op'[p].batch
    BY <1>1 DEF Ends
  <2>2. op'[p].round # None
    BY <1>1 DEF Ends, Holding
  <2>3. ASSUME NEW d \in op'[p].terminal
        PROVE  /\ Terminal(journal[d])
               /\ \A q \in Processes : Phase(q)' \in Holding /\ Mine(q)' = d => Terminal(op'[q].seen)
    <3>1. CASE d = c
      <4>1. Terminal(journal[c])
        BY <1>1, <2>3, <3>1 DEF Ends
      <4>2. \A q \in Processes : q # p => ~(Phase(q)' \in Holding /\ Mine(q)' = c)
        BY DEF Phase, Mine
      <4> QED
        BY <3>1, <4>1, <4>2
    <3>2. CASE d # c
      <4>1. d \in op[p].terminal
        BY <3>2
      <4>2. \A q \in Processes : Mine(q)' = d => q # p
        BY <1>1, <3>2
      <4> QED
        BY <1>1, <4>1, <4>2 DEF Ends, Phase, Mine
    <3> QED
      BY <3>1, <3>2
  <2> QED
    BY <1>1, <2>1, <2>2, <2>3 DEF Ends, Phase
<1>6. Cleanup(p)'
  <2>1. ASSUME op[p].round = "cleaning", NEW d \in op[p].terminal \ op[p].lag
        PROVE  d \in op'[p].queue \/ d = c \/ Clear(d)
    BY <1>1, <2>1 DEF Cleanup, Cleaning
  <2>2. \A d : Clear(d)' <=> Clear(d)
    BY <1>1 DEF Clear
  <2> HIDE DEF Clear
  <2> QED
    BY <1>1, <2>1, <2>2 DEF Cleanup, Phase, Cleaning, Releasing
<1>7. Tenancy'
  BY DEF Inv, Tenancy, diskVars
<1> QED
  BY <1>3, <1>4, <1>5, <1>6, <1>7 DEF Inv

LEMMA LockKeeps == ASSUME Inv, NEW p \in Processes, Lock(p) PROVE Inv'
<1> PICK c \in op[p].queue :
      /\ lock[c] = None
      /\ lock' = [lock EXCEPT ![c] = p]
      /\ op' = [op EXCEPT ![p] = Observed([op[p] EXCEPT !.contract = c, !.queue = @ \ {c}], c)]
  BY DEF Lock
<1> DEFINE o == [op[p] EXCEPT !.contract = c, !.queue = @ \ {c}]
<1>1. /\ Phase(p) = "next" /\ op[p].phase = "next" /\ op \in [Processes -> Ops] /\ op[p] \in Ops
      /\ UNCHANGED <<journal, register, diskVars, refVars, placesLock, fence, scene>>
      /\ Ends(p) /\ Cleanup(p) /\ c \in Contracts /\ journal[c] \in Journals
  BY DEF Lock, Inv, Types, Phase, Ops
<1>2. /\ o \in Ops /\ o.batch = op[p].batch /\ o.queue = op[p].queue \ {c} /\ o.round = op[p].round
      /\ o.contract = c /\ o.lag = op[p].lag /\ o.terminal = op[p].terminal
  BY <1>1 DEF Ops
<1> DEFINE n == Observed(o, c)
<1>3. op' = [op EXCEPT ![p] = n]
  OBVIOUS
<1> HIDE DEF o
<1>4. /\ n \in Ops /\ n.phase = "fencing" /\ n.seen = journal[c]
      /\ n.batch = o.batch /\ n.queue = o.queue /\ n.round = o.round /\ n.contract = o.contract
      /\ n.lag = o.lag
      /\ o.round = "cleaning" => n.terminal = o.terminal
      /\ \A d \in n.terminal : d \in o.terminal \/ (d = c /\ Terminal(journal[c]))
  BY <1>1, <1>2, Observes
<1> HIDE DEF n
<1>5. op'[p] = n /\ op' \in [Processes -> Ops] /\ \A q \in Processes : q # p => op'[q] = op[q]
  BY <1>1, <1>3, <1>4
<1>6. Phase(p)' = "fencing" /\ Mine(p)' = c
  BY <1>2, <1>4, <1>5 DEF Phase, Mine
<1>7. lock' \in [Contracts -> Processes \cup {None}] /\ \A d \in Contracts : lock'[d] = IF d = c THEN p ELSE lock[d]
  BY <1>1 DEF Inv, Types
<1>8. \A q \in Processes : ~(Phase(q) \in Holding /\ Mine(q) = c) /\ ~(Phase(q) \in Holding \cup {"closing"} /\ Mine(q) = c)
  BY WorktreesAssumption DEF Inv, Custody
<1>9. Custody'
  <2>1. Occupied' = Occupied
    BY <1>1 DEF Occupied
  <2>2. \A q \in Processes : q # p => Phase(q)' = Phase(q) /\ Mine(q)' = Mine(q) /\ op'[q] = op[q]
    BY <1>5 DEF Phase, Mine
  <2>3. p # None /\ \A d \in Contracts : lock[d] # p /\ fence[d] # p
    BY <1>1, WorktreesAssumption DEF Inv, Custody, Holding, Fenced
  <2>4. /\ placesLock \in Processes \cup {None} /\ placesLock # p
        /\ \A d \in Contracts : lock[d] \in Processes \cup {None} /\ fence[d] \in Processes \cup {None, "landing"}
    BY <1>1, <2>3 DEF Inv, Types, Custody
  <2>5. \A d \in Contracts :
          /\ lock'[d] # None => op'[lock'[d]].phase \in Holding \cup {"closing"} /\ op'[lock'[d]].contract = d
          /\ fence[d] \notin {None, "landing"} =>
                op'[fence[d]].phase \in Fenced \cup {"closing"} /\ lock'[d] = fence[d]
    <3> SUFFICES ASSUME NEW d \in Contracts
                 PROVE  /\ lock'[d] # None => op'[lock'[d]].phase \in Holding \cup {"closing"}
                                              /\ op'[lock'[d]].contract = d
                        /\ fence[d] \notin {None, "landing"} =>
                              op'[fence[d]].phase \in Fenced \cup {"closing"} /\ lock'[d] = fence[d]
      OBVIOUS
    <3>1. CASE d = c
      <4>1. fence[d] \in {None, "landing"}
        BY <2>4, <3>1, WorktreesAssumption DEF Inv, Custody
      <4>2. lock'[d] = p /\ op'[p].phase = "fencing" /\ op'[p].contract = c
        BY <1>2, <1>4, <1>5, <1>7, <3>1
      <4> QED
        BY <3>1, <4>1, <4>2 DEF Holding
    <3>2. CASE d # c
      <4>1. lock'[d] = lock[d]
        BY <1>7, <3>2
      <4> QED
        BY <2>2, <2>3, <2>4, <4>1 DEF Inv, Custody, Phase, Mine
    <3> QED
      BY <3>1, <3>2
  <2>6. \A q \in Processes :
          /\ Phase(q)' = "appointed" => placesLock = q /\ op'[q].topology = Occupied
          /\ Phase(q)' \in Holding \cup {"closing"} => Mine(q)' \in Contracts /\ lock'[Mine(q)'] = q
          /\ Phase(q)' \in Fenced => fence[Mine(q)'] = q
    <3> SUFFICES ASSUME NEW q \in Processes
                 PROVE  /\ Phase(q)' = "appointed" => placesLock = q /\ op'[q].topology = Occupied
                        /\ Phase(q)' \in Holding \cup {"closing"} => Mine(q)' \in Contracts /\ lock'[Mine(q)'] = q
                        /\ Phase(q)' \in Fenced => fence[Mine(q)'] = q
      OBVIOUS
    <3>1. CASE q = p
      BY <1>1, <1>6, <1>7, <3>1 DEF Fenced
    <3>2. CASE q # p
      <4>1. Phase(q)' = Phase(q) /\ Mine(q)' = Mine(q) /\ op'[q] = op[q]
        BY <2>2, <3>2
      <4> QED
        BY <1>7, <1>8, <4>1 DEF Inv, Custody
    <3> QED
      BY <3>1, <3>2
  <2>7. placesLock # None => op'[placesLock].phase = "appointed"
    BY <2>2, <2>4 DEF Inv, Custody, Phase
  <2>8. \A q : Phase(q)' = op'[q].phase /\ Mine(q)' = op'[q].contract
    BY DEF Phase, Mine
  <2> HIDE DEF Holding, Fenced, Occupied
  <2> QED
    BY <1>1, <2>1, <2>5, <2>6, <2>7, <2>8 DEF Custody, Phase, Mine
<1>10. Types'
  BY <1>1, <1>5, <1>7 DEF Inv, Types, diskVars, refVars
<1>11. c \in op[p].batch
  BY <1>1 DEF Ends
<1> QED
  BY <1>1, <1>2, <1>4, <1>5, <1>6, <1>8, <1>9, <1>10, <1>11, LookingKeeps

LEMMA FenceKeeps == ASSUME Inv, NEW p \in Processes, Fence(p) PROVE Inv'
<1> DEFINE c == Mine(p)
<1>1. /\ Phase(p) = "fencing" /\ Phase(p) \in Holding /\ op \in [Processes -> Ops] /\ op[p] \in Ops
      /\ UNCHANGED <<journal, register, diskVars, refVars, placesLock, lock, scene>>
      /\ Ends(p) /\ c \in Contracts /\ journal[c] \in Journals /\ lock[c] = p
      /\ op[p].contract = c
  BY DEF Fence, Inv, Types, Custody, Holding, Mine
<1>2. c \in op[p].batch /\ \A q \in Processes : q # p => ~(Phase(q) \in Holding /\ Mine(q) = c)
  BY <1>1 DEF Ends, Inv, Custody
<1>3. CASE Lag(p) /\ UNCHANGED fence
  BY <1>1, <1>3, LagKeeps DEF lockVars, Inv, Types
<1>4. CASE op' = [op EXCEPT ![p] = Observed(op[p], c)] /\ UNCHANGED fence
  <2> DEFINE n == Observed(op[p], c)
  <2>1. /\ n \in Ops /\ n.phase = "fencing" /\ n.seen = journal[c]
        /\ n.batch = op[p].batch /\ n.queue = op[p].queue /\ n.round = op[p].round /\ n.contract = c
        /\ n.lag = op[p].lag
        /\ op[p].round = "cleaning" => n.terminal = op[p].terminal
        /\ \A d \in n.terminal : d \in op[p].terminal \/ (d = c /\ Terminal(journal[c]))
    BY <1>1, Observes
  <2>2. op' = [op EXCEPT ![p] = n]
    BY <1>4
  <2> HIDE DEF n
  <2>3. op'[p] = n /\ op' \in [Processes -> Ops] /\ \A q \in Processes : q # p => op'[q] = op[q]
    BY <1>1, <2>1, <2>2
  <2>4. Phase(p)' = "fencing"
    BY <2>1, <2>3 DEF Phase
  <2>5. Custody'
    <3>1. Custody /\ UNCHANGED lockVars
      BY <1>1, <1>4 DEF Inv, lockVars
    <3>2. \A q \in Processes : Phase(q)' = Phase(q) /\ Mine(q)' = Mine(q)
                               /\ (Phase(q) = "appointed" => op'[q].topology = op[q].topology)
      BY <1>1, <2>1, <2>3, <2>4 DEF Phase, Mine
    <3>3. /\ placesLock \in Processes \cup {None}
          /\ \A d \in Contracts : lock[d] \in Processes \cup {None} /\ fence[d] \in Processes \cup {None, "landing"}
      BY DEF Inv, Types
    <3>4. Occupied' = Occupied
      BY <1>1 DEF Occupied
    <3>5. /\ placesLock # None => op'[placesLock].phase = "appointed"
          /\ \A d \in Contracts :
                /\ lock[d] # None => op'[lock[d]].phase \in Holding \cup {"closing"} /\ op'[lock[d]].contract = d
                /\ fence[d] \notin {None, "landing"} =>
                      op'[fence[d]].phase \in Fenced \cup {"closing"} /\ lock[d] = fence[d]
      BY <3>1, <3>2, <3>3 DEF Custody, Phase, Mine
    <3>6. \A q \in Processes :
            /\ Phase(q)' = "appointed" => placesLock = q /\ op'[q].topology = Occupied
            /\ Phase(q)' \in Holding \cup {"closing"} => Mine(q)' \in Contracts /\ lock[Mine(q)'] = q
            /\ Phase(q)' \in Fenced => fence[Mine(q)'] = q
      BY <3>1, <3>2 DEF Custody
    <3>7. \A q : Phase(q)' = op'[q].phase /\ Mine(q)' = op'[q].contract
      BY DEF Phase, Mine
    <3> HIDE DEF Holding, Fenced, Occupied
    <3> QED
      BY <3>1, <3>4, <3>5, <3>6, <3>7 DEF Custody, Phase, Mine, lockVars
  <2>6. Types'
    BY <1>1, <1>4, <2>3 DEF Inv, Types, diskVars, refVars
  <2> QED
    BY <1>1, <1>2, <2>1, <2>3, <2>4, <2>5, <2>6, LookingKeeps
<1>5. CASE /\ fence[c] = None /\ journal[c] = op[p].seen
           /\ fence' = [fence EXCEPT ![c] = p]
           /\ Goto(p, "surveying")
  <2>1. /\ op' \in [Processes -> Ops] /\ \A q \in Processes : q # p => op'[q] = op[q]
        /\ op'[p].phase = "surveying"
        /\ op'[p].batch = op[p].batch /\ op'[p].queue = op[p].queue /\ op'[p].round = op[p].round
        /\ op'[p].contract = c
        /\ op'[p].terminal = op[p].terminal /\ op'[p].lag = op[p].lag /\ op'[p].seen = journal[c]
    <3>1. "surveying" \in Phases
      BY DEF Phases, Holding
    <3> QED
      BY <1>1, <1>5, <3>1, GotoBecomes
  <2>2. Phase(p)' = "surveying" /\ Mine(p)' = c
    BY <2>1 DEF Phase, Mine
  <2>3. /\ fence' \in [Contracts -> Processes \cup {None, "landing"}]
        /\ \A d \in Contracts : fence'[d] = IF d = c THEN p ELSE fence[d]
    BY <1>1, <1>5 DEF Inv, Types
  <2>4. Custody'
    <3>1. Custody
      BY DEF Inv
    <3>2. \A q \in Processes : Mine(q)' = Mine(q) /\ (q # p => Phase(q)' = Phase(q) /\ op'[q] = op[q])
      BY <2>1, <2>2 DEF Phase, Mine
    <3>3. /\ placesLock \in Processes \cup {None} /\ placesLock # p
          /\ \A d \in Contracts : lock[d] \in Processes \cup {None} /\ fence[d] \in Processes \cup {None, "landing"}
      BY <1>1, <3>1, WorktreesAssumption DEF Inv, Types, Custody
    <3>4. Occupied' = Occupied
      BY <1>1 DEF Occupied
    <3>5. placesLock # None => op'[placesLock].phase = "appointed"
      BY <3>1, <3>2, <3>3 DEF Custody, Phase
    <3>6. \A d \in Contracts :
             lock[d] # None => op'[lock[d]].phase \in Holding \cup {"closing"} /\ op'[lock[d]].contract = d
      <4>1. Phase(p)' \in Holding
        BY <2>2 DEF Holding
      <4>2. \A q \in Processes : Phase(q) \in Holding \cup {"closing"} => Phase(q)' \in Holding \cup {"closing"}
        BY <3>2, <4>1
      <4> HIDE DEF Holding
      <4> QED
        BY <3>1, <3>2, <3>3, <4>2 DEF Custody, Phase, Mine
    <3>7. \A d \in Contracts : fence'[d] \notin {None, "landing"} =>
             op'[fence'[d]].phase \in Fenced \cup {"closing"} /\ lock[d] = fence'[d]
      <4> SUFFICES ASSUME NEW d \in Contracts, fence'[d] \notin {None, "landing"}
                   PROVE  op'[fence'[d]].phase \in Fenced \cup {"closing"} /\ lock[d] = fence'[d]
        OBVIOUS
      <4>1. CASE d = c
        BY <1>1, <2>1, <2>3, <4>1 DEF Fenced, Holding
      <4>2. CASE d # c
        <5>1. fence'[d] = fence[d] /\ fence[d] \in Processes
          BY <2>3, <3>3, <4>2
        <5>2. Phase(fence[d]) \in Fenced \cup {"closing"} /\ lock[d] = fence[d]
          BY <3>1, <5>1 DEF Custody
        <5>3. fence[d] # p
          BY <1>1, <3>1, <4>2, <5>1, <5>2 DEF Custody, Mine
        <5> QED
          BY <3>2, <5>1, <5>2, <5>3 DEF Phase
      <4> QED
        BY <4>1, <4>2
    <3>8. \A q \in Processes :
            /\ Phase(q)' = "appointed" => placesLock = q /\ op'[q].topology = Occupied
            /\ Phase(q)' \in Holding \cup {"closing"} => Mine(q)' \in Contracts /\ lock[Mine(q)'] = q
            /\ Phase(q)' \in Fenced => fence'[Mine(q)'] = q
      <4> SUFFICES ASSUME NEW q \in Processes
                   PROVE  /\ Phase(q)' = "appointed" => placesLock = q /\ op'[q].topology = Occupied
                          /\ Phase(q)' \in Holding \cup {"closing"} => Mine(q)' \in Contracts /\ lock[Mine(q)'] = q
                          /\ Phase(q)' \in Fenced => fence'[Mine(q)'] = q
        OBVIOUS
      <4>1. CASE q = p
        BY <1>1, <2>2, <2>3, <4>1
      <4>2. CASE q # p
        <5>1. Phase(q) \in Fenced => Phase(q) \in Holding
          BY DEF Fenced
        <5>2. Phase(q) \in Fenced => fence'[Mine(q)] = q
          BY <1>2, <2>3, <3>1, <4>2, <5>1 DEF Custody
        <5> QED
          BY <3>1, <3>2, <4>2, <5>2 DEF Custody
      <4> QED
        BY <4>1, <4>2
    <3>9. \A q : Phase(q)' = op'[q].phase /\ Mine(q)' = op'[q].contract
      BY DEF Phase, Mine
    <3> HIDE DEF Holding, Fenced, Occupied
    <3> QED
      BY <1>1, <3>4, <3>5, <3>6, <3>7, <3>8, <3>9 DEF Custody, Phase, Mine
  <2>5. Types'
    BY <1>1, <2>1, <2>3 DEF Inv, Types, diskVars, refVars
  <2> QED
    BY <1>1, <1>2, <2>1, <2>2, <2>4, <2>5, LookingKeeps
<1> QED
  BY <1>3, <1>4, <1>5 DEF Fence

-----------------------------------------------------------------------------
(* The world's steps                                                         *)

LEMMA WorldKeeps ==
    ASSUME Inv, UNCHANGED <<register, registered, op, placesLock, lock>>, EndsStay, Types',
           \A c \in Contracts : fence'[c] = fence[c] \/ (fence[c] \in {None, "landing"} /\ fence'[c] \in {None, "landing"}),
           \A x \in Places : tree'[x] \in Trees => tree[x] \in Trees /\ tree'[x].owner = tree[x].owner
    PROVE  Inv'
<1>1. ASSUME NEW q \in Processes PROVE Memory(q)' /\ Ends(q)' /\ Cleanup(q)'
  <2>1. PlacesMove /\ ClearStays(q) /\ Looks
    BY DEF PlacesMove, ClearStays, Looks, Clear, Phase, Mine
  <2> QED
    BY <2>1, BystanderKeeps
<1>2. Custody'
  <2>1. Custody /\ None \notin Processes /\ "landing" \notin Processes
    BY WorktreesAssumption DEF Inv
  <2>2. Occupied' = Occupied
    BY DEF Occupied
  <2>3. \A c \in Contracts : fence'[c] \notin {None, "landing"} => fence'[c] = fence[c]
    OBVIOUS
  <2>4. ASSUME NEW q \in Processes, Phase(q) \in Fenced PROVE fence'[Mine(q)] = q
    <3>1. Mine(q) \in Contracts /\ fence[Mine(q)] = q
      BY <2>1, <2>4 DEF Custody, Fenced
    <3> QED
      BY <2>1, <3>1
  <2> HIDE DEF Holding, Fenced, Occupied
  <2> QED
    BY <2>1, <2>2, <2>3, <2>4 DEF Custody, Phase, Mine
<1>3. Tenancy'
  BY TenancyStays
<1> QED
  BY <1>1, <1>2, <1>3 DEF Inv

LEMMA FatesKeep ==
    ASSUME Inv, NEW c \in Contracts, Bind(c) \/ Claim(c) \/ Abandon(c)
    PROVE  Inv'
<1>1. /\ UNCHANGED <<register, diskVars, delivery, pin, recovered, lockVars, op, scene>>
      /\ journal \in [Contracts -> Journals] /\ ~Terminal(journal[c])
      /\ \E s \in Standings : journal' = [journal EXCEPT ![c].standing = s]
  BY DEF Bind, Claim, Abandon, Inv, Types, Terminal, Standings, refVars
<1> PICK s \in Standings : journal' = [journal EXCEPT ![c].standing = s]
  BY <1>1
<1>2. /\ journal' \in [Contracts -> Journals]
      /\ \A d \in Contracts : d # c => journal'[d] = journal[d]
  <2>1. [journal[c] EXCEPT !.standing = s] \in Journals
    BY <1>1 DEF Journals
  <2> QED
    BY <1>1, <2>1
<1>3. EndsStay
  BY <1>1, <1>2 DEF EndsStay
<1>4. tip' \in SUBSET (Contracts \cup {"root"})
  BY DEF Bind, Claim, Abandon, refVars, Inv, Types
<1>5. Types'
  BY <1>1, <1>2, <1>4 DEF Inv, Types, diskVars, lockVars
<1> QED
  BY <1>1, <1>3, <1>5, WorldKeeps DEF diskVars, lockVars

LEMMA DeliverKeeps == ASSUME Inv, NEW c \in Contracts, Deliver(c) PROVE Inv'
<1> DEFINE x == register[c]
<1>1. /\ x \in Places /\ tree[x] # None /\ tree[x].owner = c /\ tree \in [Places -> {None, Foreign} \cup Trees]
      /\ journal[c].standing = "active" /\ journal \in [Contracts -> Journals]
      /\ tree' = [tree EXCEPT ![x] = Tree(c, Tender)]
      /\ journal' = [journal EXCEPT ![c].delivered = TRUE]
      /\ UNCHANGED <<register, registered, refVars, recovered, lockVars, op, scene>>
  BY DEF Deliver, Inv, Types
<1>2. Foreign.owner = None /\ c # None
  BY WorktreesAssumption DEF Foreign, Tree
<1>3. tree[x] \in Trees
  BY <1>1, <1>2
<1>4. Tree(c, Tender) \in Trees /\ Tree(c, Tender).owner = c
  BY DEF Tree, Tender, Trees, Contents
<1>5. tree' \in [Places -> {None, Foreign} \cup Trees]
  BY <1>1, <1>4
<1>6. /\ journal' \in [Contracts -> Journals]
      /\ \A d \in Contracts : d # c => journal'[d] = journal[d]
  <2>1. [journal[c] EXCEPT !.delivered = TRUE] \in Journals
    BY <1>1 DEF Journals
  <2> QED
    BY <1>1, <2>1
<1>7. EndsStay
  BY <1>1, <1>6 DEF EndsStay, Terminal
<1>8. Types'
  BY <1>1, <1>5, <1>6 DEF Inv, Types, refVars, lockVars
<1>9. \A y \in Places : tree'[y] \in Trees => tree[y] \in Trees /\ tree'[y].owner = tree[y].owner
  BY <1>1, <1>3, <1>4
<1> QED
  BY <1>1, <1>7, <1>8, <1>9, WorldKeeps DEF lockVars

LEMMA LandingKeeps == ASSUME Inv, NEW c \in Contracts, BeginLanding(c) \/ Land(c) PROVE Inv'
<1>1. /\ UNCHANGED <<journal, register, registered, refVars, placesLock, lock, op>>
      /\ scene' \in Scenes
  BY DEF BeginLanding, Land, Inv, Types, Scenes, diskVars
<1>2. /\ fence' \in [Contracts -> Processes \cup {None, "landing"}]
      /\ \A d \in Contracts : fence'[d] = fence[d] \/ (fence[d] \in {None, "landing"} /\ fence'[d] \in {None, "landing"})
  BY DEF BeginLanding, Land, Inv, Types
<1>3. /\ tree' \in [Places -> {None, Foreign} \cup Trees]
      /\ \A y \in Places : tree'[y] \in Trees => tree[y] \in Trees /\ tree'[y].owner = tree[y].owner
  <2>1. CASE tree' = tree
    BY <2>1 DEF Inv, Types
  <2>2. CASE /\ register[c] # None /\ tree[register[c]] \notin {None, Foreign}
             /\ tree' = [tree EXCEPT ![register[c]].content.base = "landed"]
    <3>1. register[c] \in Places /\ tree[register[c]].content \in Contents
      BY <2>2 DEF Inv, Types, Trees
    <3>2. [tree[register[c]].content EXCEPT !.base = "landed"] \in Contents
      BY <3>1 DEF Contents
    <3>3. tree' = [tree EXCEPT ![register[c]].content = [tree[register[c]].content EXCEPT !.base = "landed"]]
      BY <2>2, <3>1 DEF Inv, Types
    <3> QED
      BY <2>2, <3>1, <3>2, <3>3, WorkedTree
  <2> QED
    BY <2>1, <2>2 DEF BeginLanding, Land, diskVars
<1>4. EndsStay
  BY <1>1 DEF EndsStay
<1>5. Types'
  BY <1>1, <1>2, <1>3 DEF Inv, Types, refVars
<1> QED
  BY <1>1, <1>2, <1>3, <1>4, <1>5, WorldKeeps

LEMMA UsersKeep ==
    ASSUME Inv, (\E x \in Places : Edit(x) \/ Vanish(x)) \/ Rewrite
    PROVE  Inv'
<1>1. /\ UNCHANGED <<journal, register, registered, delivery, pin, lockVars, op>>
      /\ scene' \in Scenes /\ tip' \in SUBSET (Contracts \cup {"root"})
  BY DEF Edit, Vanish, Rewrite, Inv, Types, Scenes, diskVars, refVars
<1>2. /\ tree' \in [Places -> {None, Foreign} \cup Trees]
      /\ \A y \in Places : tree'[y] \in Trees => tree[y] \in Trees /\ tree'[y].owner = tree[y].owner
  <2>1. ASSUME NEW x \in Places, Edit(x)
        PROVE  /\ tree' \in [Places -> {None, Foreign} \cup Trees]
               /\ \A y \in Places : tree'[y] \in Trees => tree[y] \in Trees /\ tree'[y].owner = tree[y].owner
    BY <2>1, EditedTree DEF Edit
  <2>2. ASSUME NEW x \in Places, Vanish(x)
        PROVE  /\ tree' \in [Places -> {None, Foreign} \cup Trees]
               /\ \A y \in Places : tree'[y] \in Trees => tree[y] \in Trees /\ tree'[y].owner = tree[y].owner
    <3>1. PICK left \in {None, Foreign} : tree' = [tree EXCEPT ![x] = left]
      BY <2>2 DEF Vanish
    <3>2. left \notin Trees
      BY <3>1, WorktreesAssumption DEF Trees, Foreign, Tree
    <3> QED
      BY <3>1, <3>2 DEF Inv, Types
  <2>3. CASE Rewrite
    BY <2>3 DEF Rewrite, diskVars, Inv, Types
  <2> QED
    BY <2>1, <2>2, <2>3
<1>3. EndsStay
  BY <1>1 DEF EndsStay
<1>4. Types'
  BY <1>1, <1>2 DEF Inv, Types, lockVars
<1> QED
  BY <1>1, <1>2, <1>3, <1>4, WorldKeeps DEF lockVars

-----------------------------------------------------------------------------
(* The invariant                                                             *)

LEMMA InitInv == Init => Inv
<1> SUFFICES ASSUME Init PROVE Inv
  OBVIOUS
<1> PICK s \in Scenarios : scene = s /\ journal = [c \in Contracts |->
             [standing |-> IF c \in s.bound THEN "active" ELSE "unbound", delivered |-> FALSE]]
  BY DEF Init
<1>1. /\ \A p \in Processes : op[p] = Idle /\ Phase(p) = "idle"
      /\ register = [c \in Contracts |-> None] /\ registered = {} /\ tree = [x \in Places |-> None]
      /\ placesLock = None /\ lock = [c \in Contracts |-> None] /\ fence = [c \in Contracts |-> None]
  BY IdleIsOp DEF Init, Phase
<1>2. Types
  <2>1. journal \in [Contracts -> Journals]
    BY DEF Journals, Standings
  <2>2. op \in [Processes -> Ops]
    BY IdleIsOp DEF Init
  <2>3. scene \in Scenes
    BY WorktreesAssumption
  <2> QED
    BY <2>1, <2>2, <2>3 DEF Init, Types
<1>3. Custody
  BY <1>1 DEF Custody, Holding, Fenced
<1>4. Tenancy
  BY <1>1, WorktreesAssumption DEF Tenancy, Trees
<1>5. \A p \in Processes : Memory(p) /\ Ends(p) /\ Cleanup(p)
  BY <1>1, IdleIsOp, WorktreesAssumption DEF Memory, Ends, Cleanup, Holding, Cleaning, Releasing
<1> QED
  BY <1>2, <1>3, <1>4, <1>5 DEF Inv

LEMMA NextKeeps == ASSUME Inv, [Next]_vars PROVE Inv'
<1>1. ASSUME NEW p \in Processes, Work(p) PROVE Inv'
  <2>1. CASE \E batch \in scene.batches[p] : Begin(p, batch)
    BY <2>1, BeginKeeps
  <2>2. CASE OpenRegister(p) \/ Appoint(p) \/ EndRound(p) \/ Dismiss(p)
    BY <2>2, OpenRegisterKeeps, AppointKeeps, EndRoundKeeps, DismissKeeps
  <2>3. CASE Lock(p) \/ LockFails(p) \/ Fence(p)
    BY <2>3, LockKeeps, LockFailsKeeps, FenceKeeps
  <2>4. CASE Survey(p) \/ Locate(p) \/ Pin(p) \/ Realize(p) \/ Keep(p)
    BY <2>4, SurveyKeeps, LocateKeeps, PinKeeps, RealizeKeeps, KeepKeeps
  <2>5. CASE Seal(p) \/ Hook(p) \/ Reseal(p) \/ RemoveWorktree(p)
    BY <2>5, SealKeeps, HookKeeps, ResealKeeps, RemoveWorktreeKeeps
  <2>6. CASE Weigh(p) \/ ReleaseDelivery(p) \/ ReleasePin(p) \/ Close(p)
    BY <2>6, WeighKeeps, ReleaseDeliveryKeeps, ReleasePinKeeps, CloseKeeps
  <2> QED
    BY <1>1, <2>1, <2>2, <2>3, <2>4, <2>5, <2>6 DEF Work
<1>2. ASSUME NEW p \in Processes, Falter(p) \/ Die(p) PROVE Inv'
  BY <1>2, FalterKeeps, DieKeeps
<1>3. CASE World
  <2>1. ASSUME NEW c \in Contracts, Bind(c) \/ Deliver(c) \/ Claim(c) \/ Abandon(c) \/ BeginLanding(c) \/ Land(c)
        PROVE  Inv'
    BY <2>1, FatesKeep, DeliverKeeps, LandingKeeps
  <2> QED
    BY <1>3, <2>1, UsersKeep DEF World
<1>4. CASE UNCHANGED vars
  <2>1. Types'
    BY <1>4 DEF vars, diskVars, refVars, lockVars, Inv, Types
  <2> QED
    BY <1>4, <2>1, WorldKeeps DEF vars, diskVars, refVars, lockVars, EndsStay
<1> QED
  BY <1>1, <1>2, <1>3, <1>4 DEF Next

(* In every reachable state locks are held by the processes at work under    *)
(* them, a worktree stands and is registered only at its contract's place,   *)
(* what a process noted as ended has ended, and what it cleaned up is clear. *)
THEOREM WorktreesInvariant == Spec => []Inv
<1>1. Init => Inv
  BY InitInv
<1>2. Inv /\ [Next]_vars => Inv'
  BY NextKeeps
<1> QED
  BY <1>1, <1>2, PTL DEF Spec

(* A managed worktree stands at the place that the register appoints to its  *)
(* contract and to no other, and the types and the custody of the locks hold *)
(* (workspace-place.ts withAppointments, library/reconcile.ts                *)
(* releaseEligible).                                                         *)
THEOREM WorktreesStandAtTheirPlaces == Spec => []PlacesHeld
<1>1. Inv => PlacesHeld
  <2> SUFFICES ASSUME Inv PROVE PlacesHeld
    OBVIOUS
  <2>1. TypeOK
    <3>1. \A x \in Places : tree[x] \in {None, Foreign} \/ tree[x].owner \in Contracts
      BY DEF Inv, Types, Trees
    <3>2. \A p \in Processes : Phase(p) \in Holding => lock[Mine(p)] = p
      BY DEF Inv, Custody
    <3> QED
      BY <3>1, <3>2 DEF TypeOK, Inv, Types, Custody, Journals
  <2>2. ASSUME NEW x \in Places, tree[x] \notin {None, Foreign}
        PROVE  {c \in Contracts : register[c] = x} = {tree[x].owner}
    <3>1. tree[x] \in Trees /\ tree[x].owner \in Contracts /\ x # None
      BY <2>2, WorktreesAssumption DEF Inv, Types, Trees
    <3>2. register[tree[x].owner] = x
      BY <3>1 DEF Inv, Tenancy
    <3>3. ASSUME NEW c \in Contracts, register[c] = x PROVE c = tree[x].owner
      BY <3>1, <3>2, <3>3 DEF Inv, Tenancy
    <3> QED
      BY <3>1, <3>2, <3>3
  <2> QED
    BY <2>1, <2>2 DEF PlacesHeld
<1> QED
  BY <1>1, WorktreesInvariant, PTL

-----------------------------------------------------------------------------
(* The refs that keep a contract's objects                                   *)

Shapes == scene'.reshaped = scene.reshaped /\ scene'.rebased = scene.rebased

Keeps(c) ==
    IF journal[c].delivered
       THEN (TenderKept(c) => TenderKept(c)') /\ (IntegrationKept(c) => IntegrationKept(c)')
    ELSE ~journal'[c].delivered => (StartKept(c) => StartKept(c)')

LEMMA ShapesStay == ASSUME Inv, [Next]_vars PROVE Shapes
<1>1. scene \in Scenes
  BY DEF Inv, Types
<1>2. ASSUME NEW p \in Processes, Work(p) PROVE Shapes
  <2>1. CASE \E batch \in scene.batches[p] : Begin(p, batch)
    BY <1>1, <2>1 DEF Begin, Shapes, Scenes
  <2>2. CASE scene' = scene
    BY <2>2 DEF Shapes
  <2>3. CASE Hook(p) \/ LockFails(p)
    BY <1>1, <2>3 DEF Hook, LockFails, Shapes, Scenes
  <2>4. CASE \/ OpenRegister(p) \/ Appoint(p) \/ EndRound(p) \/ Dismiss(p) \/ Lock(p) \/ Fence(p) \/ Survey(p)
             \/ Locate(p) \/ Pin(p) \/ Realize(p) \/ Keep(p) \/ Seal(p) \/ Reseal(p) \/ RemoveWorktree(p)
             \/ Weigh(p) \/ ReleaseDelivery(p) \/ ReleasePin(p) \/ Close(p)
    BY <2>2, <2>4 DEF OpenRegister, Appoint, EndRound, Dismiss, Lock, Fence, Survey, Locate, Pin, Realize, Keep,
                      Seal, Reseal, RemoveWorktree, Weigh, ReleaseDelivery, ReleasePin, Close
  <2> QED
    BY <1>2, <2>1, <2>3, <2>4 DEF Work
<1>3. ASSUME NEW p \in Processes, Falter(p) \/ Die(p) PROVE Shapes
  BY <1>1, <1>3 DEF Falter, Die, Shapes, Scenes
<1>4. CASE World
  BY <1>1, <1>4 DEF World, Bind, Deliver, Claim, Abandon, BeginLanding, Land, Edit, Vanish, Rewrite, Shapes, Scenes
<1>5. CASE UNCHANGED vars
  BY <1>5 DEF vars, Shapes
<1> QED
  BY <1>2, <1>3, <1>4, <1>5 DEF Next

LEMMA RefsStay ==
    ASSUME NEW c \in Contracts, UNCHANGED refVars, Shapes
    PROVE  Keeps(c)
  BY DEF refVars, Shapes, Keeps, TenderKept, IntegrationKept, StartKept

(* An active contract's refs are pinned, and a terminal one's kept, as the   *)
(* journal has it.                                                           *)
LEMMA MakingKeeps ==
    ASSUME Inv, NEW p \in Processes, Pin(p) \/ Keep(p), Shapes, NEW c \in Contracts
    PROVE  Keeps(c)
<1>1. CASE UNCHANGED <<delivery, pin>>
  BY <1>1, RefsStay DEF Pin, Keep, refVars
<1>2. CASE /\ delivery' = [delivery EXCEPT ![Mine(p)] = Desired(p).base]
           /\ op[p].seen.delivered => pin' = pin \cup {Mine(p)}
           /\ pin' \cup {Mine(p)} = pin \cup {Mine(p)}
           /\ journal[Mine(p)] = op[p].seen
  <2>1. Mine(p) \in Contracts /\ delivery \in [Contracts -> {None, "start", "tender"}] /\ journal' = journal /\ tip' = tip
    BY DEF Inv, Types, Custody, Pin, Keep, Holding
  <2>2. CASE c # Mine(p)
    <3>1. delivery'[c] = delivery[c] /\ (c \in pin' <=> c \in pin)
      BY <1>2, <2>1, <2>2
    <3> QED
      BY <2>1, <3>1 DEF Keeps, TenderKept, IntegrationKept, StartKept, Shapes
  <2>3. CASE c = Mine(p) /\ journal[c].delivered
    <3>1. delivery'[c] = "tender" /\ c \in pin'
      BY <1>2, <2>1, <2>3 DEF Desired, Tender
    <3> QED
      BY <2>1, <2>3, <3>1 DEF Keeps, TenderKept, IntegrationKept
  <2>4. CASE c = Mine(p) /\ ~journal[c].delivered
    <3>1. delivery'[c] = "start"
      BY <1>2, <2>1, <2>4 DEF Desired, Start
    <3> QED
      BY <2>1, <2>4, <3>1 DEF Keeps, StartKept
  <2> QED
    BY <2>2, <2>3, <2>4
<1>3. CASE Pin(p)
  BY <1>1, <1>2, <1>3 DEF Pin
<1>4. CASE Keep(p)
  <2>1. journal[Mine(p)] = op[p].seen
    BY <1>4 DEF Keep, Inv, Memory, Holding, Cleaning
  <2> QED
    BY <1>2, <1>4, <2>1 DEF Keep
<1> QED
  BY <1>3, <1>4

(* What goes is what the custodian holds, which is where it was found, or,   *)
(* for a pin, what the delivery ref holds as well.                           *)
LEMMA ReleasingKeeps ==
    ASSUME Inv, NEW p \in Processes, ReleaseDelivery(p) \/ ReleasePin(p), Shapes, NEW c \in Contracts
    PROVE  Keeps(c)
<1>1. /\ Phase(p) \in {"releasing", "unpinning"} /\ Mine(p) \in Contracts
      /\ delivery \in [Contracts -> {None, "start", "tender"}] /\ journal' = journal /\ tip' = tip
      /\ journal[Mine(p)] = op[p].seen
      /\ op[p].custodian # None =>
            IF op[p].seen.delivered THEN Mine(p) \in op[p].custodian ELSE "root" \in op[p].custodian
  <2>1. Phase(p) \in {"releasing", "unpinning"} /\ journal' = journal /\ tip' = tip
    BY DEF ReleaseDelivery, ReleasePin
  <2>2. Memory(p) /\ Mine(p) \in Contracts /\ delivery \in [Contracts -> {None, "start", "tender"}]
    BY <2>1 DEF Inv, Types, Custody, Holding
  <2> QED
    BY <2>1, <2>2 DEF Memory, Holding, Releasing
<1>2. CASE UNCHANGED <<delivery, pin>>
  BY <1>1, <1>2, RefsStay DEF refVars
<1>3. CASE /\ op[p].custodian # None /\ tip = op[p].custodian
           /\ ~(op[p].seen.delivered /\ Mine(p) \in scene.reshaped)
           /\ delivery' = [delivery EXCEPT ![Mine(p)] = None] /\ pin' = pin
  <2>1. CASE c # Mine(p)
    BY <1>1, <1>3, <2>1 DEF Keeps, TenderKept, IntegrationKept, StartKept, Shapes
  <2>2. CASE c = Mine(p)
    BY <1>1, <1>3, <2>2 DEF Keeps, TenderKept, IntegrationKept, StartKept, Shapes
  <2> QED
    BY <2>1, <2>2
<1>4. CASE /\ delivery' = delivery /\ pin' = pin \ {Mine(p)}
           /\ \/ ~op[p].seen.delivered
              \/ Mine(p) \notin scene.rebased /\ delivery[Mine(p)] = "tender"
              \/ op[p].custodian # None /\ tip = op[p].custodian
  <2>1. CASE c # Mine(p)
    BY <1>1, <1>4, <2>1 DEF Keeps, TenderKept, IntegrationKept, StartKept, Shapes
  <2>2. CASE c = Mine(p)
    BY <1>1, <1>4, <2>2 DEF Keeps, TenderKept, IntegrationKept, StartKept, Shapes
  <2> QED
    BY <2>1, <2>2
<1>5. CASE ReleaseDelivery(p)
  BY <1>2, <1>3, <1>5 DEF ReleaseDelivery
<1>6. CASE ReleasePin(p)
  BY <1>2, <1>4, <1>6 DEF ReleasePin
<1> QED
  BY <1>5, <1>6

LEMMA StepsKeepCustody ==
    ASSUME Inv, [Next]_vars, NEW c \in Contracts, scene'.rewrites = scene.rewrites
    PROVE  Keeps(c)
<1> USE ShapesStay
<1>1. ASSUME NEW p \in Processes, Work(p) PROVE Keeps(c)
  <2>1. CASE \E batch \in scene.batches[p] : Begin(p, batch)
    BY <2>1, RefsStay DEF Begin
  <2>2. CASE \/ OpenRegister(p) \/ Appoint(p) \/ EndRound(p) \/ Dismiss(p) \/ Lock(p) \/ LockFails(p) \/ Fence(p)
             \/ Survey(p) \/ Locate(p) \/ Realize(p) \/ Seal(p) \/ Hook(p) \/ Reseal(p) \/ RemoveWorktree(p)
             \/ Weigh(p) \/ Close(p)
    BY <2>2, RefsStay DEF OpenRegister, Appoint, EndRound, Dismiss, Lock, LockFails, Fence, Survey, Locate, Realize,
                          Seal, Hook, Reseal, RemoveWorktree, Weigh, Close
  <2>3. CASE Pin(p) \/ Keep(p)
    BY <2>3, MakingKeeps
  <2>4. CASE ReleaseDelivery(p) \/ ReleasePin(p)
    BY <2>4, ReleasingKeeps
  <2> QED
    BY <1>1, <2>1, <2>2, <2>3, <2>4 DEF Work
<1>2. ASSUME NEW p \in Processes, Falter(p) \/ Die(p) PROVE Keeps(c)
  BY <1>2, RefsStay DEF Falter, Die
<1>3. ASSUME NEW d \in Contracts, Claim(d) PROVE Keeps(c)
  <2>1. delivery' = delivery /\ pin' = pin /\ tip \subseteq tip' /\ journal'[c].delivered = journal[c].delivered
    BY <1>3 DEF Claim, Inv, Types, Journals
  <2> QED
    BY <2>1 DEF Keeps, TenderKept, IntegrationKept, StartKept, Shapes
<1>4. CASE World
  <2>1. ASSUME NEW d \in Contracts, Bind(d) \/ Deliver(d) \/ Abandon(d) \/ BeginLanding(d) \/ Land(d) PROVE Keeps(c)
    BY <2>1, RefsStay DEF Bind, Deliver, Abandon, BeginLanding, Land
  <2>2. ASSUME NEW x \in Places, Edit(x) \/ Vanish(x) PROVE Keeps(c)
    BY <2>2, RefsStay DEF Edit, Vanish
  <2>3. ~Rewrite
    <3>1. scene \in Scenes
      BY DEF Inv, Types
    <3>2. scene.rewrites \in Nat /\ "rewrites" \in DOMAIN scene
      BY <3>1 DEF Scenes
    <3> QED
      BY <3>2 DEF Rewrite
  <2> QED
    BY <1>3, <1>4, <2>1, <2>2, <2>3 DEF World
<1>5. CASE UNCHANGED vars
  BY <1>5, RefsStay DEF vars
<1> QED
  BY <1>1, <1>2, <1>4, <1>5 DEF Next

(* No step of a reconciliation, of a command or of a process's death drops   *)
(* the last ref that keeps a contract's start, its tender's bytes or its     *)
(* integration in the repository; only a rewrite of the target branch can    *)
(* (git/terminal-reconcile.ts releaseTerminalCustody, removeRefWithCustody). *)
THEOREM CustodyIsKept == Spec => CustodyKept
<1>1. Inv /\ [Next]_vars =>
        \A c \in Contracts : scene'.rewrites = scene.rewrites => Keeps(c)
  BY StepsKeepCustody
<1>2. (\A c \in Contracts : scene'.rewrites = scene.rewrites => Keeps(c)) =>
         [\A c \in Contracts :
             scene'.rewrites = scene.rewrites =>
                IF journal[c].delivered
                   THEN (TenderKept(c) => TenderKept(c)') /\ (IntegrationKept(c) => IntegrationKept(c)')
                ELSE ~journal'[c].delivered => (StartKept(c) => StartKept(c)')]_vars
  BY DEF Keeps
<1> QED
  BY <1>1, <1>2, WorktreesInvariant, PTL DEF Spec, CustodyKept
=============================================================================
