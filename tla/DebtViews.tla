------------------------------ MODULE DebtViews ------------------------------
(***************************************************************************)
(* What the debt product reports about one board: readiness and blockers,  *)
(* relations in both directions, selections and queries, the descendants   *)
(* that an "under" query selects, the cycles that the doctor names and the *)
(* tree of a debt.  A board is a function from debt identities to records, *)
(* None where there is no debt; lists kept in the order of identities are  *)
(* sets here, and so are pages of rows.                                    *)
(***************************************************************************)
EXTENDS Naturals, Sequences, SequencesExt, FiniteSetsExt

CONSTANTS DebtIds, None

Held(board) == {d \in DebtIds : board[d] # None}
Terminal(state) == state \in {"done", "drop"}
Ref(board, d) == [id |-> d, state |-> IF board[d] = None THEN "missing" ELSE board[d].state]

(* A need is released by a debt that exists and is over. *)
NeedReleased(board, d) == board[d] # None /\ Terminal(board[d].state)
Unresolved(board, d) == {n \in board[d].links["needs"] : ~NeedReleased(board, n)}

Disposition(board, d) ==
    IF board[d].state # "open" THEN board[d].state
    ELSE IF Unresolved(board, d) # {} THEN "blocked" ELSE "ready"
IsBlocked(board, d) == board[d].state = "open" /\ Unresolved(board, d) # {}

(* Who names a debt in a relation (createDebtRelations). *)
Incoming(board, d, relation) == {c \in Held(board) : d \in board[c].links[relation]}
Children(board, d) == Incoming(board, d, "parent")
Blocks(board, d) == Incoming(board, d, "needs")
Related(board, d) ==
    Incoming(board, d, "relates") \cup (IF board[d] = None THEN {} ELSE board[d].links["relates"])

Detail(board, d) ==
    [blockers |-> {Ref(board, n) : n \in Unresolved(board, d)},
     blocks |-> Blocks(board, d), children |-> Children(board, d),
     supersededBy |-> Incoming(board, d, "supersedes"), related |-> Related(board, d)]

Row(board, d) ==
    [id |-> d, state |-> board[d].state, disposition |-> Disposition(board, d),
     total |-> Cardinality(Children(board, d)),
     live |-> Cardinality({c \in Children(board, d) : ~Terminal(board[c].state)})]

Selected(board, selection) ==
    {d \in Held(board) : selection = "all" \/ (selection = "closed" <=> Terminal(board[d].state))}
BlockedRows(board) ==
    {[id |-> d, blockers |-> Detail(board, d).blockers] : d \in {e \in Selected(board, "active") : IsBlocked(board, e)}}

(* The row of the recent catalogue, made without a board: from the active  *)
(* documents it knows and from reading each other need by itself.          *)
(* Mutation: a need that is not among them does not block. *)
CatalogBlockersKnown(known, board, d) ==
    IF known[d].state # "open" THEN {}
    ELSE {Ref(known, n) : n \in {m \in known[d].links["needs"] : known[m] # None /\ ~Terminal(known[m].state)}}

CatalogBlockers(known, board, d) ==
    LET need(n) == IF known[n] # None THEN known ELSE board IN
    IF known[d].state # "open" THEN {}
    ELSE {Ref(need(n), n) : n \in {m \in known[d].links["needs"] : ~NeedReleased(need(m), m)}}

CatalogRow(known, board, d) ==
    [id |-> d, blockers |-> CatalogBlockers(known, board, d),
     disposition |-> IF known[d].state # "open" THEN known[d].state
                     ELSE IF CatalogBlockers(known, board, d) # {} THEN "blocked" ELSE "ready"]

----------------------------------------------------------------------------
(* Queries. *)

RECURSIVE Descend(_, _, _)
Descend(board, pending, found) ==
    IF pending = <<>> THEN found
    ELSE LET fresh == Children(board, Head(pending)) \ found IN
         Descend(board, Tail(pending) \o SetToSeq(fresh), found \cup fresh)

Descendants(board, d) == Descend(board, <<d>>, {})

MatchesPredicate(board, d, field, value) ==
    CASE field = "state" -> board[d].state = value
      [] field = "parent" -> board[d].links["parent"] = value
      [] field = "under" -> d \in Descendants(board, value)
      [] field = "needs" -> value \in board[d].links["needs"]
      [] field = "blocks" -> value \in Blocks(board, d)
      [] field = "ready" -> (Disposition(board, d) = "ready") = value
      [] field = "blocked" -> IsBlocked(board, d) = value

RECURSIVE Matches(_, _, _)
Matches(board, d, e) ==
    CASE e.kind = "predicate" -> MatchesPredicate(board, d, e.field, e.value) <=> (e.operator = "=")
      [] e.kind = "not" -> ~Matches(board, d, e.term)
      [] e.kind = "and" -> \A i \in DOMAIN e.terms : Matches(board, d, e.terms[i])
      [] e.kind = "or" -> \E i \in DOMAIN e.terms : Matches(board, d, e.terms[i])

Query(board, e) == {d \in Held(board) : Matches(board, d, e)}

Predicate(field, operator, value) == [kind |-> "predicate", field |-> field, operator |-> operator, value |-> value]

(* Mutation: closed means done. *)
QuerySelectionDone(selection) ==
    CASE selection = "all" -> [kind |-> "or", terms |-> <<Predicate("state", "=", "done"), Predicate("state", "!=", "done")>>]
      [] selection = "closed" -> Predicate("state", "=", "done")
      [] OTHER -> [kind |-> "and", terms |-> <<Predicate("state", "!=", "done"), Predicate("state", "!=", "drop")>>]

QuerySelection(selection) ==
    CASE selection = "all" -> [kind |-> "or", terms |-> <<Predicate("state", "=", "done"), Predicate("state", "!=", "done")>>]
      [] selection = "closed" -> [kind |-> "or", terms |-> <<Predicate("state", "=", "done"), Predicate("state", "=", "drop")>>]
      [] OTHER -> [kind |-> "and", terms |-> <<Predicate("state", "!=", "done"), Predicate("state", "!=", "drop")>>]

----------------------------------------------------------------------------
(* The doctor: strongly connected components by two depth-first searches.  *)

Edges(board, relation) == [d \in Held(board) |-> board[d].links[relation] \cap Held(board)]
Reversed(edges) == [d \in DOMAIN edges |-> {c \in DOMAIN edges : d \in edges[c]}]

(* One step of the first search per frame: the search is at the last frame *)
(* of its stack, and finishes a debt when it has no target left.           *)
RECURSIVE Search(_, _, _, _)
Search(edges, stack, visited, finished) ==
    IF stack = <<>>
       THEN LET rest == DOMAIN edges \ visited IN
            IF rest = {} THEN finished
            ELSE Search(edges, <<[id |-> Min(rest), todo |-> edges[Min(rest)]]>>, visited \cup {Min(rest)}, finished)
    ELSE LET frame == Last(stack) IN
         IF frame.todo = {} THEN Search(edges, Front(stack), visited, Append(finished, frame.id))
         ELSE LET t == Min(frame.todo)
                  kept == [stack EXCEPT ![Len(stack)].todo = @ \ {t}]
              IN IF t \in visited THEN Search(edges, kept, visited, finished)
                 ELSE Search(edges, Append(kept, [id |-> t, todo |-> edges[t]]), visited \cup {t}, finished)

RECURSIVE Flood(_, _, _)
Flood(edges, stack, assigned) ==
    IF stack = <<>> THEN assigned
    ELSE LET fresh == edges[Last(stack)] \ assigned IN
         Flood(edges, Front(stack) \o SetToSeq(fresh), assigned \cup fresh)

(* The second search goes against the edges, in the reverse order of       *)
(* finishing; each flood of unassigned debts is a component.               *)
RECURSIVE Components(_, _, _)
Components(edges, roots, assigned) ==
    IF roots = <<>> THEN {}
    ELSE IF Head(roots) \in assigned THEN Components(edges, Tail(roots), assigned)
    ELSE LET reached == Flood(edges, <<Head(roots)>>, assigned \cup {Head(roots)}) IN
         {reached \ assigned} \cup Components(edges, Tail(roots), reached)

(* Mutation: the second search takes debts in the order of finishing. *)
CyclesUnreversed(board, relation) ==
    LET edges == Edges(board, relation) IN
    {c \in Components(Reversed(edges), Search(edges, <<>>, {}, <<>>), {}) : Cardinality(c) > 1}

Cycles(board, relation) ==
    LET edges == Edges(board, relation) IN
    {c \in Components(Reversed(edges), Reverse(Search(edges, <<>>, {}, <<>>)), {}) : Cardinality(c) > 1}

Issues(board) ==
    {[kind |-> IF t = d THEN "self-relation" ELSE "missing-target", id |-> d, target |-> t] :
        <<d, t>> \in {p \in Held(board) \X DebtIds :
            \E r \in DOMAIN board[p[1]].links : p[2] \in board[p[1]].links[r] /\ (p[2] = p[1] \/ board[p[2]] = None)}}
    \cup {[kind |-> "cycle", relation |-> r, debts |-> c] :
            <<r, c>> \in UNION {{r} \X Cycles(board, r) : r \in {"needs", "parent", "supersedes"}}}

(* The tree of a debt: a debt that is already on the path is marked, and   *)
(* not followed.  A tree is the set of its nodes, each named by its path.  *)
RECURSIVE Tree(_, _, _)
Tree(board, d, path) ==
    IF Contains(path, d) THEN {[path |-> Append(path, d), cycle |-> TRUE]}
    ELSE {[path |-> Append(path, d), cycle |-> FALSE]}
            \cup UNION {Tree(board, c, Append(path, d)) : c \in Children(board, d)}

----------------------------------------------------------------------------
(* Properties of one board. *)

(* The recent catalogue (catalog.ts), which reads the needs it lacks one   *)
(* by one, says of every active debt what the board projection says.       *)
CatalogAgrees(board) ==
    LET known == [d \in DebtIds |-> IF d \in Selected(board, "active") THEN board[d] ELSE None] IN
    \A d \in Selected(board, "active") :
        /\ CatalogRow(known, board, d).disposition = Disposition(board, d)
        /\ CatalogRow(known, board, d).blockers = IF IsBlocked(board, d) THEN Detail(board, d).blockers ELSE {}

(* A selection of the command line selects the rows of the board's own     *)
(* selection of that name.                                                 *)
SelectionAgrees(board) ==
    \A s \in {"active", "closed", "all"} : Query(board, QuerySelection(s)) = Selected(board, s)

(* d is in every set that holds c's targets and the targets of its members. *)
Reaches(edges, c, d) ==
    \A S \in SUBSET DOMAIN edges : edges[c] \subseteq S /\ (\A x \in S : edges[x] \subseteq S) => d \in S

(* The doctor names exactly the sets of debts that reach each other.       *)
CyclesExact(board) ==
    \A r \in {"needs", "parent", "supersedes"} :
        LET edges == Edges(board, r)
            mutual(d) == {d} \cup {c \in Held(board) : Reaches(edges, c, d) /\ Reaches(edges, d, c)}
        IN Cycles(board, r) = {c \in {mutual(d) : d \in Held(board)} : Cardinality(c) > 1}

(* What is under a debt is what reaches it through parents, itself         *)
(* included when it is its own ancestor; the tree of a debt holds the debt *)
(* and what is under it, and no more; and it marks a cycle when there is   *)
(* one among them.                                                         *)
UnderExact(board) ==
    LET edges == Edges(board, "parent") IN
    \A d \in Held(board) :
        /\ Descendants(board, d) = {c \in Held(board) : Reaches(edges, c, d)}
        /\ {Last(n.path) : n \in Tree(board, d, <<>>)} = {d} \cup Descendants(board, d)
        /\ (\E n \in Tree(board, d, <<>>) : n.cycle)
              <=> \E c \in {d} \cup Descendants(board, d) : Reaches(edges, c, c)
=============================================================================
