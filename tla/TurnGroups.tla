----------------------------- MODULE TurnGroups -----------------------------
(***************************************************************************)
(* How the rows of a session become the turns of the human view             *)
(* (turns.go): the rows are read in the order of started_at and id, and a   *)
(* row joins the turn before it or begins a new one.                        *)
(*                                                                         *)
(* A row is [request, explicit, command, compaction]: the request, its      *)
(* turn.id facet or Missing, its normalised user command or Missing, and    *)
(* whether it is a compaction.  What a turn only repeats of its last rows   *)
(* (outcome, model, key, preview) is left out.                              *)
(***************************************************************************)
EXTENDS Integers, Sequences, SequencesExt, FiniteSetsExt

\* The empty string that COALESCE yields for a column without a value.
Missing == "none"

\* The id of a turn: the client's, or derivedTurnID of the first request.
TurnID(explicit, request) ==
    IF explicit # Missing THEN [explicit |-> explicit] ELSE [derived |-> request]

\* Mutant: the ids are not compared.
MutantStartsNew(group, row) ==
    /\ row.command # Missing /\ group.command # Missing
    /\ row.command # group.command

\* startNew: two ids are compared; without two ids, two commands are; where
\* neither pair is known the row stays in the turn before it.
StartsNew(group, row) ==
    IF row.explicit # Missing /\ group.explicit # Missing
    THEN row.explicit # group.explicit
    ELSE /\ row.command # Missing /\ group.command # Missing
         /\ row.command # group.command

NewGroup(row) ==
    [turn |-> TurnID(row.explicit, row.request), explicit |-> row.explicit,
     command |-> row.command, requests |-> <<row.request>>, compaction |-> row.compaction]

\* A row that joins a turn fills the turn's id and command where they lack.
Joined(group, row) ==
    LET adopts == group.explicit = Missing /\ row.explicit # Missing
    IN  [turn       |-> IF adopts THEN TurnID(row.explicit, row.request) ELSE group.turn,
         explicit   |-> IF adopts THEN row.explicit ELSE group.explicit,
         command    |-> IF group.command = Missing THEN row.command ELSE group.command,
         requests   |-> Append(group.requests, row.request),
         compaction |-> group.compaction \/ row.compaction]

\* One row: it begins a turn or joins the last one.
Grouped(groups, row) ==
    IF groups = <<>> \/ StartsNew(Last(groups), row)
    THEN Append(groups, NewGroup(row))
    ELSE [groups EXCEPT ![Len(groups)] = Joined(@, row)]

\* sessionTurnGroups over rows in their order.  The set of one binds the groups
\* before a row, which TLC would otherwise compute at every use.
Groups(rows) ==
    LET after[n \in 0..Len(rows)] ==
            IF n = 0 THEN <<>>
            ELSE CHOOSE groups \in {Grouped(before, rows[n]) : before \in {after[n - 1]}} : TRUE
    IN  after[Len(rows)]

\* The loop of SessionTurnDetail and BuildTurnText: the first turn of that id.
HasTurn(groups, turn) == \E i \in DOMAIN groups : groups[i].turn = turn

\* Mutant: the last turn.
MutantFindTurn(groups, turn) == Last(groups)

FindTurn(groups, turn) == groups[Min({i \in DOMAIN groups : groups[i].turn = turn})]
=============================================================================
