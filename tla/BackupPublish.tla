---------------------------- MODULE BackupPublish ----------------------------
(***************************************************************************)
(* cpa-session-archive-backup (cmd/cpa-session-archive-backup/backup.go):   *)
(* runs of the tool that copy the live database page by page into a         *)
(* temporary file, check, sync and hash it, and publish it under the        *)
(* destination's name, while the collector writes, the database is busy,    *)
(* deadlines pass, another process uses the same name and the machine       *)
(* crashes.                                                                 *)
(*                                                                         *)
(* A page holds the number of the commit that last wrote it.  Page 1 holds  *)
(* archive_ingest_clock, which ingest writes and other commits leave alone: *)
(* page 1 of a database is its ingest fence, which several versions may     *)
(* share.  A hash of a file is the file's contents.                         *)
(***************************************************************************)
EXTENDS Integers, Sequences, FiniteSets

CONSTANTS Backups,       \* runs of the tool, all with the same destination
          Pages,         \* pages of the database
          PagesPerStep,  \* -pages-per-step
          MaxCommits,    \* bound: commits of the collector
          MaxFaults      \* bound: failing calls, kills, crashes and strangers

ASSUME BackupAssumption ==
    /\ IsFiniteSet(Backups)
    /\ Pages \in Nat \ {0} /\ PagesPerStep \in Nat \ {0}
    /\ MaxCommits \in Nat /\ MaxFaults \in Nat

NoFile == "no file"
Stranger == "a file of another process"
ASSUME NamesAssumption == NoFile \notin Backups /\ Stranger \notin Backups

VARIABLES versions,  \* versions[i]: the database after i - 1 commits
          locked,    \* another connection holds a lock the backup needs
          run,       \* the state of each run of the tool
          dest,      \* whose file the destination's name is in the directory
          durable,   \* ... and in the directory a crash leaves
          temps,     \* runs whose temporary name is in the directory
          stale,     \* runs whose name was removed since it was synced
          removed,   \* history: another process has removed the name
          faults     \* failures so far

nameVars == <<dest, durable, temps, stale>>
vars == <<versions, locked, run, nameVars, removed, faults>>

PageNumbers == 1..Pages
Clock == 1
Files == [PageNumbers -> -1..MaxCommits]      \* -1: a page not yet written
Now == versions[Len(versions)]

Idle == [pc |-> "idle", expired |-> FALSE, base |-> 0, copied |-> 0, remaining |-> 0,
         file |-> [p \in PageNumbers |-> -1], synced |-> FALSE,
         intact |-> TRUE, fence |-> -1, hash |-> [p \in PageNumbers |-> -1],
         outcome |-> "none"]

Waits == {"connectWait", "initWait", "copyWait"}
Running == {"connect", "init", "copy", "inspect", "sync", "hash", "link",
            "syncLink", "remove", "syncRemove"} \cup Waits
Outcomes == {"none", "ok", "unsafe destination", "failed", "timeout",
             "integrity", "verification"}

-----------------------------------------------------------------------------
Active(b) == run[b].pc \in Running

Ends(b, outcome) == run' = [run EXCEPT ![b].pc = "done", ![b].outcome = outcome]

Unlink(b) == temps' = temps \ {b} /\ stale' = stale \cup (temps \cap {b})

\* The function returns with an error: its deferred call removes the temporary
\* name and ignores that the removal fails.
Return(b, outcome) ==
    /\ Ends(b, outcome)
    /\ Unlink(b) \/ UNCHANGED <<temps, stale>>
    /\ UNCHANGED <<dest, durable>>

\* The function goes on.
Goto(b, pc) == run' = [run EXCEPT ![b].pc = pc] /\ UNCHANGED nameVars

Fault == faults < MaxFaults /\ faults' = faults + 1

\* The destination is looked up and a temporary file made beside it.
Start(b) ==
    /\ run[b].pc = "idle"
    /\ IF dest # NoFile
       THEN Ends(b, "unsafe destination") /\ UNCHANGED temps
       ELSE run' = [run EXCEPT ![b].pc = "connect"] /\ temps' = temps \cup {b}
    /\ UNCHANGED <<versions, locked, dest, durable, stale, removed, faults>>

\* acquireSQLiteConnection: db.Conn fails at once when the context has ended,
\* and a busy database is tried again.
Connect(b) ==
    /\ run[b].pc = "connect"
    /\ IF run[b].expired THEN Return(b, "timeout")
       ELSE Goto(b, IF locked THEN "connectWait" ELSE "init")
    /\ UNCHANGED <<versions, locked, removed, faults>>

\* The loop around Backup(): only waitForRetry looks at the context.
BackupInit(b) ==
    /\ run[b].pc = "init"
    /\ Goto(b, IF locked THEN "initWait" ELSE "copy")
    /\ UNCHANGED <<versions, locked, removed, faults>>

\* Mutant: a retry loop that sleeps without looking at the context.
MutantWaitForRetry(b) ==
    /\ run[b].pc \in Waits
    /\ Goto(b, CASE run[b].pc = "connectWait" -> "connect"
                 [] run[b].pc = "initWait" -> "init"
                 [] run[b].pc = "copyWait" -> "copy")
    /\ UNCHANGED <<versions, locked, removed, faults>>

\* waitForRetry: the timer or the end of the context, whichever comes first.
WaitForRetry(b) ==
    /\ run[b].pc \in Waits
    /\ IF run[b].expired THEN Return(b, "timeout")
       ELSE Goto(b, CASE run[b].pc = "connectWait" -> "connect"
                      [] run[b].pc = "initWait" -> "init"
                      [] run[b].pc = "copyWait" -> "copy")
    /\ UNCHANGED <<versions, locked, removed, faults>>

\* sqlite3_backup_step copies the next pages of the source, and starts again
\* from the first when another connection has written since the last step.
FirstPage(b) == IF run[b].base = Len(versions) THEN run[b].copied ELSE 0

CopiedTo(b) ==
    IF FirstPage(b) + PagesPerStep < Pages THEN FirstPage(b) + PagesPerStep ELSE Pages

Copied(b) ==
    [p \in PageNumbers |->
        IF p \in (FirstPage(b) + 1)..CopiedTo(b) THEN Now[p] ELSE run[b].file[p]]

\* stepSQLiteBackup: one turn of the loop.
MadeProgress(b) ==
    \/ Pages - CopiedTo(b) < run[b].remaining
    \/ run[b].remaining = 0 /\ Pages - CopiedTo(b) < Pages

StepBackup(b) ==
    /\ run[b].pc = "copy"
    /\ IF run[b].expired THEN Return(b, "timeout")
       ELSE IF locked THEN Goto(b, "copyWait")
       ELSE /\ run' = [run EXCEPT
                  ![b].base = Len(versions),
                  ![b].copied = CopiedTo(b),
                  ![b].remaining = Pages - CopiedTo(b),
                  ![b].file = Copied(b),
                  ![b].pc = IF CopiedTo(b) = Pages THEN "inspect"
                            ELSE IF MadeProgress(b) THEN "copy" ELSE "copyWait"]
            /\ UNCHANGED nameVars
    /\ UNCHANGED <<versions, locked, removed, faults>>

-----------------------------------------------------------------------------
\* inspectBackup: integrity_check, then the counts and the ingest fence of the
\* copy.  A context that ends meanwhile fails the query it is in.
Inspect(b) ==
    /\ run[b].pc = "inspect"
    /\ IF run[b].expired
       THEN \E outcome \in {"integrity", "verification"} : Return(b, outcome)
       ELSE /\ run' = [run EXCEPT ![b].fence = run[b].file[Clock], ![b].pc = "sync"]
            /\ UNCHANGED nameVars
    /\ UNCHANGED <<versions, locked, removed, faults>>

\* Mutant: the file is hashed and linked without fsync.
MutantSyncFile(b) ==
    /\ run[b].pc = "sync"
    /\ Goto(b, "hash")
    /\ UNCHANGED <<versions, locked, removed, faults>>

SyncFile(b) ==
    /\ run[b].pc = "sync"
    /\ run' = [run EXCEPT ![b].synced = TRUE, ![b].pc = "hash"]
    /\ UNCHANGED <<versions, locked, nameVars, removed, faults>>

HashFile(b) ==
    /\ run[b].pc = "hash"
    /\ run' = [run EXCEPT ![b].hash = run[b].file, ![b].pc = "link"]
    /\ UNCHANGED <<versions, locked, nameVars, removed, faults>>

\* Mutant: publication by rename, which replaces what has the name.
MutantLink(b) ==
    /\ run[b].pc = "link"
    /\ dest' = b
    /\ run' = [run EXCEPT ![b].pc = "syncLink"]
    /\ UNCHANGED <<versions, locked, durable, temps, stale, removed, faults>>

\* os.Link fails when the name exists.
Link(b) ==
    /\ run[b].pc = "link"
    /\ IF dest = NoFile
       THEN /\ dest' = b /\ run' = [run EXCEPT ![b].pc = "syncLink"]
            /\ UNCHANGED <<durable, temps, stale>>
       ELSE Return(b, "unsafe destination")
    /\ UNCHANGED <<versions, locked, removed, faults>>

\* Mutant: the directory is opened and closed but not synced.
MutantSyncDirectory == UNCHANGED nameVars

SyncDirectory == durable' = dest /\ stale' = {} /\ UNCHANGED <<dest, temps>>

SyncLinked(b) ==
    /\ run[b].pc = "syncLink"
    /\ SyncDirectory
    /\ run' = [run EXCEPT ![b].pc = "remove"]
    /\ UNCHANGED <<versions, locked, removed, faults>>

RemoveTemporary(b) ==
    /\ run[b].pc = "remove"
    /\ Unlink(b)
    /\ run' = [run EXCEPT ![b].pc = "syncRemove"]
    /\ UNCHANGED <<versions, locked, dest, durable, removed, faults>>

\* Mutant: success is reported as soon as the temporary name is removed.
MutantSyncRemoved(b) ==
    /\ run[b].pc = "syncRemove"
    /\ Ends(b, "ok")
    /\ UNCHANGED <<versions, locked, nameVars, removed, faults>>

\* cleanupTemporary is FALSE now: the deferred call removes nothing.
SyncRemoved(b) ==
    /\ run[b].pc = "syncRemove"
    /\ SyncDirectory
    /\ Ends(b, "ok")
    /\ UNCHANGED <<versions, locked, removed, faults>>

\* What createOnlineBackup reports when a call of this phase fails; chmod and
\* close of the temporary file come before the first connection.
FailureOf(b) ==
    LET copying == {IF run[b].expired THEN "timeout" ELSE "failed"}
    IN  CASE run[b].pc = "connect" -> copying \cup {"unsafe destination"}
          [] run[b].pc \in {"init", "copy"} -> copying
          [] run[b].pc = "inspect" -> {"integrity", "verification"}
          [] run[b].pc = "link" -> {"unsafe destination"}
          [] OTHER -> {"verification"}

\* A call fails.
Fail(b) ==
    /\ run[b].pc \in Running \ Waits
    /\ Fault
    /\ \E outcome \in FailureOf(b) : Return(b, outcome)
    /\ UNCHANGED <<versions, locked, removed>>

-----------------------------------------------------------------------------
\* The surroundings: the collector, other connections, the clock, another
\* process that uses the destination's name and syncs what it does, a kill of
\* the tool, and a crash of the machine, which may undo what the directory has
\* not been synced for, an unlinked name included, and tears files that have
\* not been synced.
CollectorCommits ==
    /\ Len(versions) <= MaxCommits
    /\ \E written \in SUBSET PageNumbers \ {{}} :
          versions' = Append(versions,
              [p \in PageNumbers |-> IF p \in written THEN Len(versions) ELSE Now[p]])
    /\ UNCHANGED <<locked, run, nameVars, removed, faults>>

LockChanges ==
    /\ locked' = ~locked
    /\ UNCHANGED <<versions, run, nameVars, removed, faults>>

Deadline(b) ==
    /\ Active(b) /\ ~run[b].expired
    /\ run' = [run EXCEPT ![b].expired = TRUE]
    /\ UNCHANGED <<versions, locked, nameVars, removed, faults>>

StrangerCreates ==
    /\ dest = NoFile /\ Fault
    /\ dest' = Stranger /\ durable' = Stranger
    /\ UNCHANGED <<versions, locked, run, temps, stale, removed>>

StrangerRemoves ==
    /\ dest # NoFile /\ Fault
    /\ dest' = NoFile /\ durable' = NoFile
    /\ removed' = TRUE
    /\ UNCHANGED <<versions, locked, run, temps, stale>>

Killed(b) ==
    /\ Active(b) /\ Fault
    /\ Goto(b, "dead")
    /\ UNCHANGED <<versions, locked, removed>>

Crash ==
    /\ Fault
    /\ dest' \in {dest, durable}
    /\ durable' = dest'
    /\ \E back \in SUBSET stale : temps' = temps \cup back
    /\ stale' = {}
    /\ run' = [b \in Backups |->
          IF run[b].pc = "idle" THEN run[b]
          ELSE [run[b] EXCEPT !.pc = IF Active(b) THEN "dead" ELSE run[b].pc,
                              !.intact = run[b].intact /\ run[b].synced]]
    /\ locked' = FALSE
    /\ UNCHANGED <<versions, removed>>

-----------------------------------------------------------------------------
Init ==
    /\ versions = <<[p \in PageNumbers |-> 0]>>
    /\ locked = FALSE
    /\ run = [b \in Backups |-> Idle]
    /\ dest = NoFile /\ durable = NoFile /\ temps = {} /\ stale = {}
    /\ removed = FALSE
    /\ faults = 0

Steps(b) ==
    \/ Connect(b) \/ BackupInit(b) \/ WaitForRetry(b) \/ StepBackup(b)
    \/ Inspect(b) \/ SyncFile(b) \/ HashFile(b) \/ Link(b)
    \/ SyncLinked(b) \/ RemoveTemporary(b) \/ SyncRemoved(b)

Next ==
    \/ \E b \in Backups :
          Start(b) \/ Steps(b) \/ Fail(b) \/ Deadline(b) \/ Killed(b)
    \/ CollectorCommits \/ LockChanges \/ StrangerCreates \/ StrangerRemoves \/ Crash

Spec == Init /\ [][Next]_vars

\* A run that is scheduled goes on, and its timer fires.  Nothing is assumed of
\* the collector, of locks or of other processes.
FairSpec == Spec /\ \A b \in Backups : WF_vars(Steps(b)) /\ WF_vars(Deadline(b))

-----------------------------------------------------------------------------
TypeOK ==
    /\ versions \in Seq([PageNumbers -> 0..MaxCommits])
    /\ Len(versions) \in 1..(MaxCommits + 1)
    /\ run \in [Backups ->
          [pc : Running \cup {"idle", "done", "dead"},
           expired : BOOLEAN, base : 0..(MaxCommits + 1), copied : 0..Pages,
           remaining : 0..Pages, file : Files, synced : BOOLEAN,
           intact : BOOLEAN, fence : -1..MaxCommits, hash : Files, outcome : Outcomes]]
    /\ dest \in {NoFile, Stranger} \cup Backups
    /\ durable \in {NoFile, Stranger} \cup Backups
    /\ temps \subseteq Backups /\ stale \subseteq Backups
    /\ locked \in BOOLEAN /\ removed \in BOOLEAN
    /\ faults \in 0..MaxFaults

\* Whatever the collector wrote during the copy, and whenever the machine
\* crashed, a backup that has the destination's name is the database as of one
\* commit, with the fence and the hash that the tool reports
\* (createOnlineBackup checks, syncs and hashes the file before os.Link).
PublishedIsOneVersion ==
    /\ TypeOK
    /\ \A b \in Backups : dest = b =>
          /\ run[b].intact
          /\ \E i \in DOMAIN versions :
                run[b].file = versions[i] /\ run[b].fence = versions[i][Clock]
          /\ run[b].hash = run[b].file

\* A backup that was reported as done keeps its name through crashes, unless
\* another process removes it (the two calls of syncDirectory).
SuccessIsDurable ==
    \A b \in Backups : run[b].outcome = "ok" /\ ~removed => dest = b

\* Two runs that both found the destination free, and strangers that create
\* it during the copy, never lose their file to a backup: "unlike rename, it
\* atomically fails when another process creates the destination".
NeverReplaces ==
    [][\A b \in Backups : dest' = b /\ dest # b => dest = NoFile]_vars

\* A backup that was reported as done has left no temporary name beside it, and
\* no later crash brings the name back, whichever other runs work in the
\* directory (os.Remove and the second syncDirectory before the report).  After
\* an error, a kill or a crash the name may stay.
NoTemporaryLeft == \A b \in Backups : run[b].outcome = "ok" => b \notin temps

\* A run ends, even if the source stays locked or changes for ever: the
\* deadline reaches every retry loop.
Terminates == \A b \in Backups : Active(b) ~> ~Active(b)
=============================================================================
