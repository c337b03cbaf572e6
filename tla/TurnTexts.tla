----------------------------- MODULE TurnTexts -----------------------------
(***************************************************************************)
(* The complete command of a turn on demand: GET /v1/turn-text looks in the *)
(* cache, or starts one background job per turn and answers 202; the page   *)
(* polls until the job has filled the cache (main.go:508-549,               *)
(* turns.go:111-176).                                                       *)
(*                                                                         *)
(* A text is [full |-> command], or [compact |-> command] for the summary   *)
(* that stands in for it, which is Missing where no request tells it.       *)
(***************************************************************************)
EXTENDS SessionViews

CONSTANTS Readers,      \* open turn pages
          MaxRead,      \* bound: requests of a session that is read
          MaxFaults     \* bound: failing loads and saves, restarts

ASSUME TextsAssumption == {MaxRead, MaxFaults} \subseteq Nat

VARIABLES texts,     \* turn_texts: a partial function from turn ids to texts
          running,   \* turnTextJobs
          jobs,      \* the goroutines, [turn, step, text]
          pages,     \* reader -> [step, turn]
          faults

readings == <<texts, running, jobs, pages, faults>>

Unbuilt == [full |-> Missing]
Closed == [step |-> "closed"]
Waiting(u) == pages[u].step \in {"polls", "missed"}

\* A reader opens the page of one of the session's turns.
Open(u) ==
    /\ ~Waiting(u) /\ Len(made) <= MaxRead
    /\ \E card \in ToSet(SessionTurns) :
          pages' = [pages EXCEPT ![u] = [step |-> "polls", turn |-> card.turn]]
    /\ UNCHANGED <<texts, running, jobs, faults>>

\* turnText first asks the cache.
Lookup(u) ==
    /\ pages[u].step = "polls"
    /\ pages' = [pages EXCEPT ![u].step = IF pages[u].turn \in DOMAIN texts THEN "answered" ELSE "missed"]
    /\ UNCHANGED <<texts, running, jobs, faults>>

\* Mutant: the map is read before it is locked, and found empty.
MutantClaim(u) ==
    /\ pages[u].step = "missed"
    /\ running' = running \cup {pages[u].turn}
    /\ jobs' = Append(jobs, [turn |-> pages[u].turn, step |-> "build", text |-> Unbuilt])
    /\ pages' = [pages EXCEPT ![u].step = "polls"]
    /\ UNCHANGED <<texts, faults>>

\* Then, under turnTextMu, it claims the turn's job, starts it unless one
\* runs, and answers 202; the page polls again.
Claim(u) ==
    /\ pages[u].step = "missed"
    /\ running' = running \cup {pages[u].turn}
    /\ jobs' = IF pages[u].turn \in running THEN jobs
               ELSE Append(jobs, [turn |-> pages[u].turn, step |-> "build", text |-> Unbuilt])
    /\ pages' = [pages EXCEPT ![u].step = "polls"]
    /\ UNCHANGED <<texts, faults>>

\* fullTurnUserText: of the candidates that the payloads of a turn give, the
\* first that is the turn's command, or the first that has any text.
FullText(command, candidates) ==
    LET texted   == {i \in DOMAIN candidates : candidates[i] # Missing}
        matching == {i \in texted : command \in {Missing, candidates[i]}}
    IN  IF matching # {} THEN candidates[Min(matching)]
        ELSE IF texted # {} THEN candidates[Min(texted)] ELSE Missing

\* A payload that does not load counts as one without text.
Candidates(requests, lost) ==
    [i \in DOMAIN requests |-> IF requests[i] \in lost THEN Missing ELSE UserText(made[requests[i]].input)]

\* BuildTurnText: the full text, or the summary the turn shows.
BuiltText(command, candidates) ==
    LET full == FullText(command, candidates)
    IN  IF full # Missing THEN [full |-> full] ELSE [compact |-> command]

\* The job reads the session's turns, and ends when there is none of its id;
\* some of the turn's payloads may not load.
Build(n) ==
    /\ n \in DOMAIN jobs /\ jobs[n].step = "build"
    /\ \E cards \in {SessionTurns} :
          \/ /\ ~HasTurn(cards, jobs[n].turn)
             /\ jobs' = [jobs EXCEPT ![n].step = "end"]
             /\ UNCHANGED faults
          \/ /\ HasTurn(cards, jobs[n].turn)
             /\ \E group \in {FindTurn(cards, jobs[n].turn)} : \E lost \in SUBSET ToSet(group.requests) :
                   /\ faults' = faults + (IF lost = {} THEN 0 ELSE 1) /\ faults' <= MaxFaults
                   /\ jobs' = [jobs EXCEPT ![n].step = "save",
                                           ![n].text = BuiltText(group.command, Candidates(group.requests, lost))]
    /\ UNCHANGED <<texts, running, pages>>

\* SaveTurnText, which may fail.
Save(n) ==
    /\ n \in DOMAIN jobs /\ jobs[n].step = "save"
    /\ \/ /\ texts' = [id \in DOMAIN texts \cup {jobs[n].turn} |->
                        IF id = jobs[n].turn THEN jobs[n].text ELSE texts[id]]
          /\ UNCHANGED faults
       \/ faults < MaxFaults /\ faults' = faults + 1 /\ UNCHANGED texts
    /\ jobs' = [jobs EXCEPT ![n].step = "end"]
    /\ UNCHANGED <<running, pages>>

\* Mutant: the turn is released only after a successful save.
MutantEnd(n) ==
    /\ n \in DOMAIN jobs /\ jobs[n].step = "end"
    /\ jobs' = RemoveAt(jobs, n)
    /\ running' = IF jobs[n].turn \in DOMAIN texts THEN running \ {jobs[n].turn} ELSE running
    /\ UNCHANGED <<texts, pages, faults>>

\* The deferred function releases the turn.
End(n) ==
    /\ n \in DOMAIN jobs /\ jobs[n].step = "end"
    /\ jobs' = RemoveAt(jobs, n)
    /\ running' = running \ {jobs[n].turn}
    /\ UNCHANGED <<texts, pages, faults>>

\* A restart of the collector loses the jobs; the pages poll again.
Restart ==
    /\ jobs # <<>> \/ \E u \in Readers : Waiting(u)
    /\ faults < MaxFaults /\ faults' = faults + 1
    /\ running' = {} /\ jobs' = <<>>
    /\ pages' = [u \in Readers |-> IF Waiting(u) THEN [pages[u] EXCEPT !.step = "polls"] ELSE pages[u]]
    /\ UNCHANGED texts

Init ==
    /\ ViewsInit
    /\ texts = <<>> /\ running = {} /\ jobs = <<>> /\ faults = 0
    /\ pages = [u \in Readers |-> Closed]

Poll(u) == Lookup(u) \/ Claim(u)
Work(n) == Build(n) \/ Save(n) \/ End(n)

\* Not every session is read: the bound MaxRead keeps the sessions that are
\* short, so that no more turns than that have a job.
Next ==
    \/ /\ Client
       /\ Len(made) < MaxRead \/ \A u \in Readers : pages[u] = Closed
       /\ UNCHANGED readings
    \/ (\E i \in 1..MaxRequests : Arrive(i)) /\ UNCHANGED readings
    \/ /\ \/ \E u \in Readers : Open(u) \/ Poll(u)
          \/ \E n \in 1..MaxRead : Work(n)
          \/ Restart
       /\ UNCHANGED views

allVars == <<views, readings>>

\* A page polls until it is answered, and a goroutine runs on.  Nothing is
\* assumed of the client, of deliveries or of who opens pages.
Fairness ==
    /\ \A u \in Readers : WF_readings(Poll(u))
    /\ \A n \in 1..MaxRead : WF_readings(Work(n))

Spec == Init /\ [][Next]_allVars /\ Fairness

-----------------------------------------------------------------------------
(* Properties *)

\* One job per turn: however polls, ending jobs and restarts interleave, no
\* turn is rebuilt by two goroutines at once, and the map holds exactly the
\* turns that one rebuilds (main.go:522-535; README.md:148).
OneJobPerTurn ==
    /\ running = {jobs[n].turn : n \in DOMAIN jobs}
    /\ \A m, n \in DOMAIN jobs : jobs[m].turn = jobs[n].turn => m = n

\* The command of a turn id, as its client knows it: what was asked by the
\* requests of the named turn, or by those of the turn the request belongs to.
CommandsOf(id) ==
    LET turn == IF "explicit" \in DOMAIN id THEN CHOOSE t \in DOMAIN TurnNames : TurnNames[t] = id.explicit
                                            ELSE made[id.derived].turn
    IN  {made[i].added[1].text : i \in {j \in DOMAIN made : made[j].asks = "command" /\ made[j].turn = turn}}

\* A cached text is the command of its own turn, in full unless a payload did
\* not load, or is empty where no request of the turn had told it yet
\* (turns.go:124-176).
TextIsOwn ==
    \A id \in DOMAIN texts :
        \/ texts[id] = [compact |-> Missing]
        \/ \E c \in CommandsOf(id) : texts[id] = [full |-> c] \/ (faults > 0 /\ texts[id] = [compact |-> c])

\* No page waits for ever for its turn's text: jobs that fail or are lost are
\* started again by the next poll, until the text is there.  Only a turn that
\* the session no longer shows is looked for in vain, again and again
\* (main.go:530-544).
PagesAreAnswered ==
    \A u \in Readers :
        []<>\/ ~Waiting(u)
            \/ \E n \in DOMAIN jobs : jobs[n] = [turn |-> pages[u].turn, step |-> "end", text |-> Unbuilt]
=============================================================================
