------------------------------ MODULE Timeline ------------------------------
(***************************************************************************)
(* The human timeline of one request (timeline.go).  A stateless client     *)
(* sends its whole conversation with every request; the timeline compares   *)
(* a request with the one archived before it and shows what is new.         *)
(*                                                                         *)
(* An item of a payload is [type, role, text, call]; an entry of the        *)
(* timeline is [role, text, call].  A text is an opaque value, NoText the   *)
(* empty string.  Entries are compared by all their fields, as the digest   *)
(* of entrySignature does.  Media, untyped nesting and the 40000-byte cut   *)
(* of one long text are left out.                                           *)
(***************************************************************************)
EXTENDS Integers, Sequences, SequencesExt, FiniteSetsExt

CONSTANT HistoryLimit   \* 24: the entries a snapshot of old history keeps

ASSUME HistoryAssumption == HistoryLimit \in Nat /\ HistoryLimit > 1

NoText == "empty"

\* The elements of a sequence at the positions S, in their order.
Picked(seq, S) ==
    LET out[n \in 0..Len(seq)] == IF n = 0 THEN <<>>
                                  ELSE IF n \in S THEN Append(out[n - 1], seq[n]) ELSE out[n - 1]
    IN  out[Len(seq)]

\* The role of a message, with the roles no case names read as the user's.
MessageRole(role) ==
    CASE role = "assistant"               -> "assistant"
      [] role = "tool"                    -> "tool_result"
      [] role \in {"system", "developer"} -> "system"
      [] OTHER                            -> "user"

\* collectTimeline on one item: the role of its entry, or NoText for the
\* items that have none, reasoning and messages without text.
EntryRole(item) ==
    CASE item.type = "function_call_output"                 -> "tool_result"
      [] item.type = "function_call"                        -> "tool_call"
      [] item.type \in {"compaction", "compaction_trigger"} -> "compaction"
      [] item.type = "reasoning"                            -> NoText
      [] OTHER -> IF item.text = NoText THEN NoText ELSE MessageRole(item.role)

\* The items that have a role, in their order, as [role, text, call].
Collect(items, roles) ==
    Picked([i \in DOMAIN items |-> [role |-> roles[i], text |-> items[i].text, call |-> items[i].call]],
           {i \in DOMAIN items : roles[i] # NoText})

\* collectInputEntries and collectResponseEntries.
CollectEntries(items) == Collect(items, [i \in DOMAIN items |-> EntryRole(items[i])])

\* Mutant: only the lengths are compared.
MutantCommonEntryPrefix(left, right) == Min({Len(left), Len(right)})

CommonEntryPrefix(left, right) ==
    Max({n \in 0..Min({Len(left), Len(right)}) : \A i \in 1..n : left[i] = right[i]})

Occurrences(entry, entries) == Cardinality({i \in DOMAIN entries : entries[i] = entry})

\* Mutant: the response the client repeats stays in the delta.
MutantSubtractEntries(entries, replay) == entries

\* Each entry of the replay takes away one equal entry, from the front.
SubtractEntries(entries, replay) ==
    Picked(entries, {i \in DOMAIN entries :
                        Occurrences(entries[i], SubSeq(entries, 1, i)) > Occurrences(entries[i], replay)})

ContainsRole(entries, role) == \E i \in DOMAIN entries : entries[i].role = role

\* The kind a client states, in its metadata or its turn header.
RequestKind(stated) ==
    CASE stated = NoText    -> "turn"
      [] stated = "compact" -> "compaction"
      [] OTHER              -> stated

\* The chain of cases that names what a request was.
TimelineKind(stated, first, common, input, delta) ==
    IF stated = "compaction" \/ ContainsRole(delta, "compaction") THEN "compaction"
    ELSE IF ~first /\ input # <<>> /\ common = Len(input) THEN "retry"
    ELSE IF first /\ Len(input) > HistoryLimit THEN "history_snapshot"
    ELSE IF ~first /\ common = 0 /\ Len(input) > HistoryLimit THEN "context_rebuild"
    ELSE IF ~ContainsRole(delta, "user") /\ ContainsRole(delta, "tool_result") THEN "tool_continuation"
    ELSE stated

\* RequestTimeline of the k-th record of a session in the order of the ids;
\* its predecessor is the record archived just before it.
RequestTimeline(records, k) ==
    LET first    == k = 1
        input    == CollectEntries(records[k].input)
        response == CollectEntries(records[k].output)
        common   == IF first THEN 0
                    ELSE CommonEntryPrefix(CollectEntries(records[k - 1].input), input)
        delta    == SubtractEntries(SubSeq(input, common + 1, Len(input)),
                                    IF first THEN <<>> ELSE CollectEntries(records[k - 1].output))
        kind     == TimelineKind(RequestKind(records[k].kind), first, common, input, delta)
        cut      == IF kind \in {"history_snapshot", "context_rebuild"} /\ Len(delta) > HistoryLimit
                    THEN Len(delta) - HistoryLimit ELSE 0
    IN  [kind |-> kind, history |-> common + cut, cut |-> SubSeq(delta, 1, cut),
         entries |-> SubSeq(delta, cut + 1, Len(delta)) \o response]
=============================================================================
