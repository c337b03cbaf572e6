---------------------------- MODULE SessionViews ----------------------------
(***************************************************************************)
(* What a reader of the archive is shown of one session: the timeline of    *)
(* every request, the turns, and the training sample, computed from the     *)
(* records as they arrive.                                                  *)
(*                                                                         *)
(* The client is external: it talks to the model one request at a time and  *)
(* sends its whole conversation each time.  It gives commands, answers tool *)
(* calls, retries what failed, compacts its conversation, and names its     *)
(* turns or does not.  The plugin queues a record when its request          *)
(* completes, and a request that its client gave up may complete after its  *)
(* successors: the ids of the records need not follow started_at.           *)
(***************************************************************************)
EXTENDS TrainingExport, TurnGroups

CONSTANTS Commands,      \* what the user may ask
          Priors,        \* conversations that began before the archive
          TurnNames,     \* the ids of a client that names its turns
          MaxRequests    \* bound: requests of the client

ASSUME ViewsAssumption ==
    /\ MaxRequests \in Nat /\ {NoText, Missing} \cap Commands = {}
    /\ TurnNames \in Seq(ToSet(TurnNames)) /\ Len(TurnNames) >= MaxRequests /\ Missing \notin ToSet(TurnNames)
    /\ \A s, t \in DOMAIN TurnNames : TurnNames[s] = TurnNames[t] => s = t

PriorItems == UNION {ToSet(prior) : prior \in Priors}

\* They were not compacted before the archive began.
ASSUME PriorsAssumption ==
    /\ Priors \subseteq Seq(PriorItems)
    /\ \A item \in PriorItems : item.type \notin {"compaction", "compaction_trigger"}

VARIABLES client,   \* [named, turn, history, mode]
          made,     \* its requests, in the order of started_at
          arrived   \* indices into made, in the order of the record ids

views == <<client, made, arrived>>

Message(role, text) == [type |-> "message", role |-> role, text |-> text, call |-> 0]
ItemOf(type, call)  == [type |-> type, role |-> NoText, text |-> NoText, call |-> call]

\* What the model answers request n with: nothing when the request fails, a
\* reply, or a tool call.
Failed       == <<>>
Reply        == <<ItemOf("reasoning", 0), Message("assistant", "reply")>>
CallOf(n)    == <<Message("assistant", "reply"), ItemOf("function_call", n)>>
Compacted    == <<ItemOf("compaction", 0)>>
Answers(n)   == {Failed, Reply, CallOf(n)}

\* The client's state after an answer: whether it must answer a call or may
\* retry.
ModeAfter(answer) ==
    IF answer = Failed THEN "failed"
    ELSE IF Last(answer).type = "function_call" THEN "called" ELSE "idle"

\* The last user message of a payload: extractConversationSummary at capture,
\* extractConversationUserText when a turn's text is built.
IsUserText(item) == item.role = "user" /\ item.text # NoText
UserText(items) ==
    IF \A i \in DOMAIN items : ~IsUserText(items[i]) THEN Missing
    ELSE items[CHOOSE i \in DOMAIN items :
                   IsUserText(items[i]) /\ \A j \in DOMAIN items : j > i => ~IsUserText(items[j])].text

\* A request of turn t that adds items to the conversation, with the summary
\* that is extracted when it is captured.
Request(t, asks, added, output) ==
    [turn      |-> t,
     asks      |-> asks,
     kind      |-> IF asks = "compact" /\ client.named THEN "compact" ELSE NoText,
     input     |-> client.history \o added,
     added     |-> added,
     output    |-> output,
     command   |-> UserText(client.history \o added),
     succeeded |-> output # Failed,
     started   |-> Len(made) + 1]

Send(t, asks, added, output) ==
    /\ Len(made) < MaxRequests
    /\ made' = Append(made, Request(t, asks, added, output))
    /\ UNCHANGED arrived

Ask(t, asks, added) ==
    \E output \in Answers(Len(made) + 1) :
        /\ Send(t, asks, added, output)
        /\ client' = [client EXCEPT !.turn = t, !.history = @ \o added \o output, !.mode = ModeAfter(output)]

\* A user's command begins a turn.
Command(c) ==
    /\ client.mode # "called"
    /\ Ask(client.turn + 1, "command", <<Message("user", c)>>)

\* The result of a tool call goes back to the model.
Continue ==
    /\ client.mode = "called"
    /\ Ask(client.turn, "continue", <<ItemOf("function_call_output", Last(client.history).call)>>)

\* The conversation that failed is sent again.
Retry ==
    /\ client.mode = "failed"
    /\ Ask(client.turn, "retry", <<>>)

\* A turn goes on after its conversation was compacted.
Resume ==
    /\ client.mode = "compacted"
    /\ Ask(client.turn, "resume", <<>>)

\* The conversation is replaced by a compaction, unless that request fails.
Compact ==
    /\ client.mode \in {"idle", "failed"} /\ client.turn > 0
    /\ \E output \in {Failed, Compacted} :
          /\ Send(client.turn, "compact", <<ItemOf("compaction_trigger", 0)>>, output)
          /\ client' = IF output = Failed THEN client
                       ELSE [client EXCEPT !.history = Compacted, !.mode = "compacted"]

\* A record reaches the archive: after those that completed before its
\* request began, which all but the failed ones did.
Arrive(i) ==
    /\ i \in DOMAIN made \ ToSet(arrived)
    /\ \A j \in 1..(i - 1) : made[j].succeeded => j \in ToSet(arrived)
    /\ arrived' = Append(arrived, i)
    /\ UNCHANGED <<client, made>>

ViewsInit ==
    /\ client \in [named : BOOLEAN, turn : {0}, history : Priors, mode : {"idle"}]
    /\ made = <<>>
    /\ arrived = <<>>

Client == (\E c \in Commands : Command(c)) \/ Continue \/ Retry \/ Resume \/ Compact

ViewsNext == Client \/ \E i \in 1..MaxRequests : Arrive(i)

ViewsSpec == ViewsInit /\ [][ViewsNext]_views

-----------------------------------------------------------------------------
(* The views *)

Records == [k \in DOMAIN arrived |-> made[arrived[k]]]

\* A row of turn_records.
TurnRow(i) ==
    [request    |-> i,
     explicit   |-> IF client.named THEN TurnNames[made[i].turn] ELSE Missing,
     command    |-> made[i].command,
     compaction |-> made[i].kind = "compact"]

\* sessionTurnGroups: the rows in the order of started_at.
SessionTurns ==
    Groups(Picked([i \in DOMAIN made |-> TurnRow(i)], ToSet(arrived)))

-----------------------------------------------------------------------------
(* Properties *)

\* What the timeline of the k-th record shows, or cuts and counts.
Shown(k) ==
    LET timeline == RequestTimeline(Records, k)
    IN  ToSet(timeline.entries) \cup ToSet(timeline.cut)

\* In whatever order the requests arrive, the timelines hide nothing: when a
\* request is archived, each entry of its input is shown by its timeline or by
\* one archived before it, or was cut from a snapshot of old history
\* (timeline.go:131-171).
NothingHidden ==
    arrived # <<>> =>
        ToSet(CollectEntries(made[Last(arrived)].input)) \subseteq UNION {Shown(j) : j \in DOMAIN arrived}

ArrivedInOrder == \A k \in DOMAIN arrived : arrived[k] = k

\* A request that sends nothing its predecessor did not send.
Repeats(k) == k > 1 /\ IsPrefix(made[k].input, made[k - 1].input)

\* What a request was, as its client knows it.
TrueKind(k) ==
    IF made[k].kind = "compact" THEN "compaction"
    ELSE IF Repeats(k) THEN "retry"
    ELSE IF made[k].asks = "compact" THEN "compaction"
    ELSE IF k = 1 /\ Len(CollectEntries(made[k].input)) > HistoryLimit THEN "history_snapshot"
    ELSE IF made[k].asks = "continue" THEN "tool_continuation"
    ELSE "turn"

\* What it added: the first request all of its history, the end of it when
\* the history is long.
TrueDelta(k) ==
    LET entries == CollectEntries(IF k = 1 THEN made[k].input ELSE made[k].added)
    IN  IF Repeats(k) THEN <<>>
        ELSE IF TrueKind(k) = "history_snapshot"
             THEN SubSeq(entries, Len(entries) - HistoryLimit + 1, Len(entries))
        ELSE entries

\* While the requests arrive as they were made, the timeline of the one archived
\* last shows exactly what it added and what it was answered, and names what it
\* was (timeline.go:131-172; README.md:154).
TimelineExact ==
    ArrivedInOrder /\ arrived # <<>> =>
        LET k        == Len(arrived)
            timeline == RequestTimeline(Records, k)
        IN  /\ timeline.entries = TrueDelta(k) \o CollectEntries(made[k].output)
            /\ timeline.kind = TrueKind(k)

\* What the requests from i to j ask, as far as they say.
Asked(i, j) == {made[n].command : n \in i..j} \ {Missing}

\* Once a session is complete its cards are the client's turns: the requests
\* of one turn share a card, whatever was retried, compacted or archived late,
\* and those of two turns do not, unless nothing tells the turns apart: the
\* client names none and all from one turn to the other ask the same.  No two
\* cards have the same id, so each can be opened (turns.go:205-260).
TurnsMatch ==
    Len(arrived) = Len(made) =>
        LET cards         == SessionTurns
            oneCard(i, j) == \E g \in DOMAIN cards : {i, j} \subseteq ToSet(cards[g].requests)
        IN  /\ \A i, j \in DOMAIN made :
                  i < j => IF made[i].turn = made[j].turn THEN oneCard(i, j)
                           ELSE oneCard(i, j) => ~client.named /\ Cardinality(Asked(i, j)) = 1
            /\ \A g, h \in DOMAIN cards : cards[g].turn = cards[h].turn => g = h

\* The messages of a request and its answer, and those of them that do not
\* repeat their neighbour.
Conversation(i) == AppendTrainingItems(made[i].input \o made[i].output)
Changes(said) == {p \in DOMAIN said : p = 1 \/ said[p] # said[p - 1]}

\* The training sample of a session is never behind the archive: it is at most
\* one, and it begins with the conversation of every successful request that
\* was archived since the last compaction, without the repetitions of
\* neighbours (training_export.go:31, 75-117, 286-299; README.md:159).
SampleIsWhole ==
    LET lines == TrainingLines(Records)
    IN  \A line \in lines :
            /\ lines = {line}
            /\ \A i \in ToSet(arrived) :
                  \/ ~made[i].succeeded
                  \/ \E n \in i..Len(made) : made[n].output = Compacted
                  \/ LET said == Conversation(i)
                     IN  \A p \in Changes(said) :
                            LET n == Cardinality({q \in Changes(said) : q <= p})
                            IN  n \in DOMAIN line /\ line[n] = said[p]
=============================================================================
