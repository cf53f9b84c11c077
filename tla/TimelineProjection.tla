------------------------- MODULE TimelineProjection -------------------------
(***************************************************************************)
(* The public projection of an Akuma's timeline: the fold of its facts     *)
(* into Turn-owned rows, and the snapshot that a status shows of them.  A  *)
(* history is a page of the same rows.  It is pure: an operator takes the  *)
(* facts it reads as a function f from their sequence numbers,             *)
(*                                                                         *)
(*    [kind, turn, what, told, reached]                                    *)
(*                                                                         *)
(* where what is the event of an activity, the identity of a Tell or the   *)
(* outcome of a Turn, and reached are the deliveries <<turn, route>> of a  *)
(* Tell.  An "answer" is something said in exactly the words of the Turn's *)
(* answer, and one tool is started and finished.  Texts, times and file    *)
(* changes are left out.                                                   *)
(***************************************************************************)
EXTENDS Integers, Sequences, FiniteSetsExt, SequencesExt

Said == {"said", "answer"}

Kind(f, kind) == {s \in DOMAIN f : f[s].kind = kind}
Events(f, t, names) == {s \in Kind(f, "activity") : f[s].turn = t /\ f[s].what \in names}
Turns(f) == Kind(f, "turn-start")
Ends(f, t) == {s \in Kind(f, "turn-end") : f[s].turn = t}
Latest(S) == IF S = {} THEN 0 ELSE Max(S)

(* A Turn whose start is not there is read as over.                        *)
Open(f, t) == t \in Turns(f) /\ Ends(f, t) = {}

(* A finish belongs to the latest start that none has taken since.         *)
StartOf(f, s) ==
    LET started == Latest({r \in Events(f, f[s].turn, {"start"}) : r < s})
    IN  IF \E r \in Events(f, f[s].turn, {"finish"}) : started < r /\ r < s THEN 0 ELSE started
Finished(f, s) == \E r \in Events(f, f[s].turn, {"finish"}) : StartOf(f, r) = s

(* Mutation: the fold does not wait for an answer.                         *)
FoldedEarly(f, t) ==
    LET voice == Latest(Events(f, t, Said))
    IN  IF t \in Turns(f) /\ voice # 0 /\ f[voice].what = "answer" THEN voice ELSE 0

(* The last thing said, when it is the answer, is shown as the outcome.    *)
Answered(f, t) == \E s \in Ends(f, t) : f[s].what = "answered"
Folded(f, t) ==
    LET voice == Latest(Events(f, t, Said))
    IN  IF t \in Turns(f) /\ Answered(f, t) /\ voice # 0 /\ f[voice].what = "answer" THEN voice ELSE 0

Row(f, s, kind, state) ==
    [sequence |-> s, kind |-> kind, turn |-> f[s].turn, state |-> state, reached |-> f[s].reached]

ToolState(f, s) ==
    IF f[s].what = "finish" THEN "done" ELSE IF Open(f, f[s].turn) THEN "active" ELSE "unsettled"

ActivityRow(f, s) ==
    CASE f[s].what \in Said -> IF Folded(f, f[s].turn) = s THEN {} ELSE {Row(f, s, "said", "")}
      [] f[s].what = "thought" -> {Row(f, s, "thought", "")}
      [] f[s].what \in {"start", "finish"} ->
            IF f[s].what = "start" /\ Finished(f, s) THEN {} ELSE {Row(f, s, "tool", ToolState(f, s))}
      [] OTHER -> {}

RowOf(f, s) ==
    CASE f[s].kind = "activity" -> ActivityRow(f, s)
      [] f[s].kind = "tell" -> {Row(f, s, "tell", IF f[s].told THEN "told" ELSE "pending")}
      [] OTHER -> {Row(f, s, f[s].kind, "")}

(* The ledger.  A row is at the place of the fact it ends with, so the     *)
(* order of the rows is the order of their sequence numbers.               *)
Rows(f) == UNION {RowOf(f, s) : s \in DOMAIN f}
Ledger(f) ==
    LET frontier == Latest(Turns(f))
    IN  [rows |-> Rows(f),
         open |-> IF Open(f, frontier) THEN frontier ELSE 0,
         outcome |-> Latest(Kind(f, "turn-end")),
         unborn |-> Turns(f) = {} /\ Kind(f, "tell") = {}]

----------------------------------------------------------------------------
(* The snapshot of a status. *)

Settled(row) == row.kind = "tell" /\ row.state = "told"

Window(ledger) ==
    IF ledger.open = 0 THEN {}
    ELSE {row \in ledger.rows :
             \/ row.turn = ledger.open /\ row.kind \notin {"turn-start", "turn-end"}
             \/ Settled(row) /\ \E d \in row.reached : d[1] = ledger.open}

(* The Turn's call, or the first settled Tell it was launched with.        *)
OpeningInput(ledger) ==
    LET calls == {row \in ledger.rows : row.kind = "call" /\ row.turn = ledger.open}
        launched == {row \in ledger.rows : Settled(row) /\ <<ledger.open, "launch">> \in row.reached}
        qualified == IF calls # {} THEN calls ELSE launched
    IN  {row \in qualified : \A other \in qualified : row.sequence <= other.sequence}

(* What a status always shows: what a reader who admitted a Tell asked for *)
(* is that Tell, and what any other asked for is every pending Tell.       *)
Pins(ledger, admitted) ==
    IF admitted # 0 THEN {row \in ledger.rows : row.sequence = admitted}
    ELSE {row \in ledger.rows : row.kind = "tell" /\ row.state = "pending"}

(* Mutation: active tools compete for the tail.                            *)
PinnedIdle(ledger, admitted) ==
    Pins(ledger, admitted) \cup OpeningInput(ledger) \cup {row \in Window(ledger) : row.kind = "said"}

Pinned(ledger, admitted) ==
    Pins(ledger, admitted) \cup OpeningInput(ledger)
    \cup {row \in Window(ledger) : row.state = "active" \/ row.kind = "said"}

LastOf(S, n) == {row \in S : Cardinality({other \in S : other.sequence > row.sequence}) < n}

Selected(ledger, admitted, tail, voice) ==
    LET pinned == Pinned(ledger, admitted)
        ordinary == Window(ledger) \ pinned
        recent == LastOf(ordinary, tail)
        voices == {row \in ordinary \ recent : row.kind = "thought"}
    IN  pinned \cup recent \cup LastOf(voices, voice)

(* The entries in order: a run of hidden rows of the window is one gap.    *)
Entries(window, selected) ==
    LET sequences == {row.sequence : row \in window \cup selected}
        Gap(hidden) == IF hidden = 0 THEN <<>> ELSE <<[gap |-> hidden]>>
        Shown(row) == IF row.kind \in {"turn-start", "turn-end"} \/ row.state = "unsettled"
                      THEN <<>> ELSE <<[row |-> row]>>
        Step(acc, s) ==
            LET rows == {row \in selected : row.sequence = s}
            IN  IF rows # {}
                THEN [entries |-> acc.entries \o Gap(acc.hidden) \o Shown(CHOOSE row \in rows : TRUE), hidden |-> 0]
                ELSE IF s \in sequences THEN [acc EXCEPT !.hidden = @ + 1] ELSE acc
        all == FoldLeft(Step, [entries |-> <<>>, hidden |-> 0], [s \in 1..Latest(sequences) |-> s])
    IN  all.entries \o Gap(all.hidden)

Snapshot(ledger, admitted, tail, voice) ==
    IF ledger.unborn THEN [kind |-> "unborn", entries |-> <<>>]
    ELSE IF ledger.open = 0
    THEN [kind |-> "idle", outcome |-> ledger.outcome, entries |-> Entries({}, Pins(ledger, admitted))]
    ELSE [kind |-> "open", turn |-> ledger.open, opening |-> OpeningInput(ledger),
          entries |-> Entries(Window(ledger), Selected(ledger, admitted, tail, voice))]
=============================================================================
