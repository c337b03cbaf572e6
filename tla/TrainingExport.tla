--------------------------- MODULE TrainingExport ---------------------------
(***************************************************************************)
(* The sft export (training_export.go): of every session the newest         *)
(* successful request, written as one conversation.                         *)
(*                                                                         *)
(* Items are those of Timeline.  A message is [role, text, call].  The      *)
(* instructions, media, tool definitions and identities are copied along    *)
(* and left out; attachments are replaced by a note of their hash.          *)
(***************************************************************************)
EXTENDS Timeline

\* appendTrainingItems on one item: the role of its message, or NoText for an
\* item that gives none.  An object without role prints its role as "<nil>"
\* and falls through every case.
TrainingRole(item) ==
    IF item.type = "function_call" THEN "assistant"
    ELSE IF item.type = "function_call_output" THEN "tool"
    ELSE IF item.type \in {"reasoning", "compaction", "compaction_trigger"} THEN NoText
    ELSE IF item.role = "tool" THEN "tool"
    ELSE IF item.text = NoText THEN NoText
    ELSE IF item.role = "developer" THEN "system"
    ELSE IF item.role \in {"system", "user", "assistant"} THEN item.role
    ELSE NoText

AppendTrainingItems(items) == Collect(items, [i \in DOMAIN items |-> TrainingRole(items[i])])

\* Mutant: a message that occurred anywhere before is dropped.
MutantDedupeTrainingMessages(messages) ==
    FoldLeft(LAMBDA out, m : IF Contains(out, m) THEN out ELSE Append(out, m), <<>>, messages)

\* dedupeTrainingMessages: of equal neighbours the first stays.
Deduped(out, message) ==
    IF out # <<>> /\ Last(out) = message THEN out ELSE Append(out, message)

DedupeTrainingMessages(messages) ==
    LET out[n \in 0..Len(messages)] == IF n = 0 THEN <<>> ELSE Deduped(out[n - 1], messages[n])
    IN  out[Len(messages)]

HasRole(messages, role) == \E i \in DOMAIN messages : messages[i].role = role

Transcript(record) ==
    DedupeTrainingMessages(AppendTrainingItems(record.input) \o AppendTrainingItems(record.output))

\* trainingExample: a request without user or assistant message gives none.
IsTrainingExample(record) ==
    HasRole(Transcript(record), "user") /\ HasRole(Transcript(record), "assistant")

\* The selection: the successful request with the greatest started_at.
Selected(records) ==
    {k \in DOMAIN records : records[k].succeeded
         /\ \A j \in DOMAIN records : records[j].succeeded => records[j].started <= records[k].started}

\* ExportTrainingJSONL of one session: a line for each selected request.
TrainingLines(records) == {Transcript(records[k]) : k \in {j \in Selected(records) : IsTrainingExample(records[j])}}
=============================================================================
