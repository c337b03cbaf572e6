------------------------ MODULE BackupPublishProofs ------------------------
(***************************************************************************)
(* BackupPublish for any number of runs, pages and commits and any step     *)
(* size: what has the destination's name is a whole version of the          *)
(* database, and what was reported as done stays.                           *)
(***************************************************************************)
EXTENDS BackupPublish, TLAPS

Runs == [pc : Running \cup {"idle", "done", "dead"},
         expired : BOOLEAN, base : 0..(MaxCommits + 1), copied : 0..Pages,
         remaining : 0..Pages, file : Files, synced : BOOLEAN,
         intact : BOOLEAN, fence : -1..MaxCommits, hash : Files, outcome : Outcomes]

CopyEnded == {"inspect", "sync", "hash", "link"}
Linked == {"syncLink", "remove", "syncRemove"}
Ended == {"done", "dead"}

\* What run r has copied are pages of one version, and what it has established
\* when it stands before os.Link.
Sound(r) ==
    /\ r.base <= Len(versions)
    /\ r.base = 0 => r.copied = 0
    /\ \A p \in 1..r.copied : r.file[p] = versions[r.base][p]
    /\ r.pc \in CopyEnded => r.copied = Pages
    /\ r.pc \in {"sync", "hash", "link"} => r.fence = r.file[Clock]
    /\ r.pc \in {"hash", "link"} => r.synced
    /\ r.pc = "link" => r.hash = r.file
    /\ r.pc \in Running \cup {"idle"} => r.intact
    /\ r.outcome = "ok" => r.pc = "done"

\* What a file under the destination's name is, before and after a crash.
Whole(r) ==
    /\ r.pc \in Linked \cup Ended
    /\ r.intact /\ r.synced
    /\ \E i \in 1..Len(versions) : r.file = versions[i] /\ r.fence = versions[i][Clock]
    /\ r.hash = r.file

\* The directory on disk has the name's file or does not have the name yet.
DurableLags == durable \in {dest, NoFile}

BackupInv ==
    /\ TypeOK /\ DurableLags
    /\ \A b \in Backups :
          /\ Sound(run[b])
          /\ dest = b \/ durable = b => Whole(run[b])
          /\ run[b].pc \in Linked /\ ~removed => dest = b
          /\ run[b].outcome = "ok" /\ ~removed => dest = b /\ durable = b

LEMMA VersionTyped ==
  ASSUME TypeOK, NEW i \in 1..Len(versions)
  PROVE  versions[i] \in [PageNumbers -> 0..MaxCommits]
<1>1. versions \in Seq([PageNumbers -> 0..MaxCommits])
  BY DEF TypeOK
<1>. QED BY <1>1

\* A step of one run.
LEMMA StepOfRun ==
  ASSUME BackupInv, NEW b \in Backups, NEW r \in Runs, run' = [run EXCEPT ![b] = r],
         versions' = versions, dest' = dest, removed' = removed,
         durable' \in {durable, dest}, locked' \in BOOLEAN, faults' \in 0..MaxFaults,
         temps' \subseteq Backups, stale' \subseteq Backups,
         Sound(r),
         dest = b \/ durable = b => Whole(r),
         r.pc \in Linked /\ ~removed => dest = b,
         r.outcome = "ok" /\ ~removed => dest = b /\ durable' = b
  PROVE  BackupInv'
<1>1. run \in [Backups -> Runs] /\ TypeOK /\ DurableLags
  BY DEF BackupInv, TypeOK, Runs
<1>2. run' \in [Backups -> Runs] /\ run'[b] = r /\ \A d \in Backups \ {b} : run'[d] = run[d]
  BY <1>1
<1>3. TypeOK'
  BY <1>1, <1>2 DEF TypeOK, Runs
<1>4. DurableLags'
  BY <1>1 DEF BackupInv, DurableLags
<1>5. ASSUME NEW d \in Backups
      PROVE  /\ Sound(run[d])'
             /\ dest' = d \/ durable' = d => Whole(run[d])'
             /\ run'[d].pc \in Linked /\ ~removed' => dest' = d
             /\ run'[d].outcome = "ok" /\ ~removed' => dest' = d /\ durable' = d
  <2>1. /\ Sound(run[d])
        /\ dest = d \/ durable = d => Whole(run[d])
        /\ run[d].pc \in Linked /\ ~removed => dest = d
        /\ run[d].outcome = "ok" /\ ~removed => dest = d /\ durable = d
    BY DEF BackupInv
  <2>2. CASE d = b
    BY <1>2, <2>2 DEF Sound, Whole
  <2>3. CASE d # b
    BY <1>2, <2>1, <2>3 DEF Sound, Whole
  <2>. QED BY <2>2, <2>3
<1>. QED BY <1>3, <1>4, <1>5 DEF BackupInv

\* A run that only changes its point, its deadline, its outcome or its name
\* keeps what it has copied.
Kept(r, q) ==
    /\ r.base = q.base /\ r.copied = q.copied /\ r.file = q.file /\ r.synced = q.synced
    /\ r.intact = q.intact /\ r.fence = q.fence /\ r.hash = q.hash

\* What BackupInv says of run b.
LEMMA RunFacts ==
  ASSUME BackupInv, NEW b \in Backups
  PROVE  /\ run \in [Backups -> Runs] /\ run[b] \in Runs
         /\ Sound(run[b])
         /\ dest = b \/ durable = b => Whole(run[b])
         /\ run[b].pc \in Linked /\ ~removed => dest = b
         /\ run[b].outcome = "ok" /\ ~removed => dest = b /\ durable = b
         /\ locked \in BOOLEAN /\ faults \in 0..MaxFaults
         /\ temps \subseteq Backups /\ stale \subseteq Backups
BY DEF BackupInv, TypeOK, Runs

\* A run that ends without success.
LEMMA EndsKeeps ==
  ASSUME BackupInv, NEW b \in Backups, NEW outcome \in Outcomes \ {"ok"}, Ends(b, outcome),
         UNCHANGED <<versions, dest, removed, durable>>, locked' \in BOOLEAN, faults' \in 0..MaxFaults,
         temps' \subseteq Backups, stale' \subseteq Backups
  PROVE  BackupInv'
<1> DEFINE r == [run[b] EXCEPT !.pc = "done", !.outcome = outcome]
<1>1. run[b] \in Runs /\ run \in [Backups -> Runs]
  BY RunFacts
<1>2. r \in Runs /\ Kept(r, run[b]) /\ r.pc = "done" /\ r.outcome # "ok"
  BY <1>1 DEF Runs, Kept
<1>3. run' = [run EXCEPT ![b] = r]
  BY <1>1 DEF Ends
<1> HIDE DEF r
<1>4. Sound(r) /\ (dest = b \/ durable = b => Whole(r)) /\ r.pc \notin Linked
  <2>1. Sound(run[b]) /\ (dest = b \/ durable = b => Whole(run[b]))
    BY RunFacts
  <2>2. Sound(r)
    BY <1>2, <2>1 DEF Sound, Kept, CopyEnded, Running, Waits
  <2>. QED BY <1>2, <2>1, <2>2 DEF Whole, Kept, Linked, Ended
<1>. QED BY <1>2, <1>3, <1>4, StepOfRun

\* The error paths, with the deferred removal.
LEMMA ReturnKeeps ==
  ASSUME BackupInv, NEW b \in Backups, NEW outcome \in Outcomes \ {"ok"}, Return(b, outcome),
         UNCHANGED <<versions, removed>>, locked' \in BOOLEAN, faults' \in 0..MaxFaults
  PROVE  BackupInv'
<1>1. Ends(b, outcome) /\ UNCHANGED <<dest, durable>>
  BY DEF Return
<1>2. temps' \subseteq Backups /\ stale' \subseteq Backups
  BY RunFacts DEF Return, Unlink
<1>. QED BY <1>1, <1>2, EndsKeeps

\* A run that only moves, before its copy has ended, or is killed.
LEMMA GotoKeeps ==
  ASSUME BackupInv, NEW b \in Backups, NEW pc, Goto(b, pc), run[b].pc \in Running,
         \/ pc \in Running \ (CopyEnded \cup Linked) /\ run[b].pc \notin Linked
         \/ pc = "dead",
         UNCHANGED <<versions, removed>>, locked' \in BOOLEAN, faults' \in 0..MaxFaults
  PROVE  BackupInv'
<1> DEFINE r == [run[b] EXCEPT !.pc = pc]
<1>1. run[b] \in Runs /\ run \in [Backups -> Runs]
  BY RunFacts
<1>2. r \in Runs /\ Kept(r, run[b]) /\ r.pc = pc /\ r.outcome = run[b].outcome
  BY <1>1 DEF Runs, Kept
<1>3. /\ run' = [run EXCEPT ![b] = r] /\ dest' = dest /\ durable' = durable
      /\ temps' \subseteq Backups /\ stale' \subseteq Backups
  BY <1>1, RunFacts DEF Goto, nameVars
<1> HIDE DEF r
<1>4. run[b].outcome # "ok"
  BY RunFacts DEF Sound, Running, Waits
<1>5. Sound(r) /\ (dest = b \/ durable = b => Whole(r)) /\ r.pc \notin Linked
  <2>1. Sound(run[b]) /\ (dest = b \/ durable = b => Whole(run[b]))
    BY RunFacts
  <2>2. Sound(r)
    BY <1>2, <1>4, <2>1 DEF Sound, Kept, CopyEnded, Running, Waits
  <2>. QED BY <1>2, <2>1, <2>2 DEF Whole, Kept, Linked, Ended, Running, Waits
<1>. QED BY <1>2, <1>3, <1>4, <1>5, StepOfRun

\* Start, the retry loops and the failing calls.
LEMMA EarlyKeeps ==
  ASSUME BackupInv, NEW b \in Backups,
         Start(b) \/ Connect(b) \/ BackupInit(b) \/ WaitForRetry(b) \/ Fail(b) \/ Killed(b)
  PROVE  BackupInv'
<1>1. /\ run[b] \in Runs /\ run \in [Backups -> Runs]
      /\ locked \in BOOLEAN /\ faults \in 0..MaxFaults /\ MaxFaults \in Nat
      /\ temps \subseteq Backups /\ stale \subseteq Backups
  BY RunFacts, BackupAssumption
<1>2. CASE Start(b)
  <2>0. /\ UNCHANGED <<versions, locked, dest, durable, removed, faults>>
        /\ temps' \subseteq Backups /\ stale' \subseteq Backups
    BY <1>1, <1>2 DEF Start
  <2>1. CASE Ends(b, "unsafe destination")
    BY <1>1, <2>0, <2>1, EndsKeeps DEF Outcomes
  <2>2. CASE run' = [run EXCEPT ![b].pc = "connect"]
    <3> DEFINE r == [run[b] EXCEPT !.pc = "connect"]
    <3>1. r \in Runs /\ Kept(r, run[b]) /\ r.pc = "connect" /\ r.outcome = run[b].outcome
      BY <1>1 DEF Runs, Kept, Running
    <3>2. run' = [run EXCEPT ![b] = r]
      BY <1>1, <2>2
    <3> HIDE DEF r
    <3>3. Sound(run[b]) /\ (dest = b \/ durable = b => Whole(run[b])) /\ run[b].pc = "idle"
      BY <1>2, RunFacts DEF Start
    <3>4. run[b].outcome # "ok"
      BY <3>3 DEF Sound
    <3>5. Sound(r)
      BY <3>1, <3>3, <3>4 DEF Sound, Kept, CopyEnded
    <3>6. ~(dest = b \/ durable = b) /\ r.pc \notin Linked
      BY <3>1, <3>3 DEF Whole, Linked, Ended
    <3>. QED BY <1>1, <2>0, <3>1, <3>2, <3>4, <3>5, <3>6, StepOfRun
  <2>. QED BY <1>2, <2>1, <2>2 DEF Start
<1>3. CASE Connect(b) \/ BackupInit(b) \/ WaitForRetry(b)
  <2>1. UNCHANGED <<versions, locked, removed, faults>>
    BY <1>3 DEF Connect, BackupInit, WaitForRetry
  <2>2. run[b].pc \in {"connect", "init"} \cup Waits
    BY <1>3 DEF Connect, BackupInit, WaitForRetry
  <2>3. \/ Return(b, "timeout")
        \/ \E pc \in {"connect", "init", "copy"} \cup Waits : Goto(b, pc)
    BY <1>3, <2>2 DEF Connect, BackupInit, WaitForRetry, Waits
  <2>4. CASE Return(b, "timeout")
    BY <1>1, <2>1, <2>4, ReturnKeeps DEF Outcomes
  <2>5. CASE \E pc \in {"connect", "init", "copy"} \cup Waits : Goto(b, pc)
    <3>1. PICK pc \in {"connect", "init", "copy"} \cup Waits : Goto(b, pc)
      BY <2>5
    <3>2. pc \in Running \ (CopyEnded \cup Linked) /\ run[b].pc \in Running /\ run[b].pc \notin Linked
      BY <2>2 DEF Running, Waits, CopyEnded, Linked
    <3>. QED BY <1>1, <2>1, <3>1, <3>2, GotoKeeps
  <2>. QED BY <2>3, <2>4, <2>5
<1>4. CASE Fail(b)
  <2>1. PICK outcome \in FailureOf(b) : Return(b, outcome)
    BY <1>4 DEF Fail
  <2>2. outcome \in Outcomes \ {"ok"}
    BY DEF FailureOf, Outcomes
  <2>3. UNCHANGED <<versions, locked, removed>> /\ faults' \in 0..MaxFaults
    BY <1>1, <1>4 DEF Fail, Fault
  <2>. QED BY <1>1, <2>1, <2>2, <2>3, ReturnKeeps
<1>5. CASE Killed(b)
  <2>1. UNCHANGED <<versions, locked, removed>> /\ faults' \in 0..MaxFaults
    BY <1>1, <1>5 DEF Killed, Fault
  <2>. QED BY <1>1, <1>5, <2>1, GotoKeeps DEF Killed, Active
<1>. QED BY <1>2, <1>3, <1>4, <1>5

\* A step of the copy: it goes on in the version it started with, or starts
\* again in the present one.
LEMMA StepBackupKeeps ==
  ASSUME BackupInv, NEW b \in Backups, StepBackup(b)
  PROVE  BackupInv'
<1>1. /\ run[b] \in Runs /\ run \in [Backups -> Runs] /\ run[b].pc = "copy"
      /\ locked \in BOOLEAN /\ faults \in 0..MaxFaults
      /\ UNCHANGED <<versions, locked, removed, faults>>
  BY RunFacts DEF StepBackup
<1>2. CASE Return(b, "timeout")
  BY <1>1, <1>2, ReturnKeeps DEF Outcomes
<1>3. CASE Goto(b, "copyWait")
  <2>1. /\ "copyWait" \in Running \ (CopyEnded \cup Linked)
        /\ "copy" \in Running /\ "copy" \notin Linked
    BY DEF Running, Waits, CopyEnded, Linked
  <2>. QED BY <1>1, <1>3, <2>1, GotoKeeps
<1>4. CASE ~run[b].expired /\ ~locked
  <2>0. UNCHANGED <<dest, durable, temps, stale>> /\ temps \subseteq Backups /\ stale \subseteq Backups
    BY <1>4, RunFacts DEF StepBackup, nameVars
  <2> DEFINE f == FirstPage(b)
             t == CopiedTo(b)
             n == Len(versions)
             pc == IF t = Pages THEN "inspect" ELSE IF MadeProgress(b) THEN "copy" ELSE "copyWait"
             r == [run[b] EXCEPT !.base = n, !.copied = t, !.remaining = Pages - t,
                                 !.file = Copied(b), !.pc = pc]
  <2>1. /\ n \in 1..(MaxCommits + 1) /\ TypeOK
        /\ versions[n] \in [PageNumbers -> 0..MaxCommits]
    <3>1. n \in 1..(MaxCommits + 1) /\ TypeOK
      BY DEF BackupInv, TypeOK
    <3>2. n \in 1..Len(versions)
      BY <3>1
    <3>. QED BY <3>1, <3>2, VersionTyped
  <2>2. Sound(run[b])
    BY RunFacts
  <2>3. f \in 0..Pages /\ t \in 0..Pages /\ f <= t
    <3>1. run[b].copied \in 0..Pages
      BY <1>1 DEF Runs
    <3>2. f \in 0..Pages
      BY <3>1, BackupAssumption DEF FirstPage
    <3>. QED BY <3>2, BackupAssumption DEF CopiedTo
  <2>4. Copied(b) \in Files /\ \A p \in 1..t : Copied(b)[p] = versions[n][p]
    <3>1. Copied(b) = [p \in PageNumbers |-> IF p \in (f + 1)..t THEN versions[n][p] ELSE run[b].file[p]]
      BY DEF Copied, Now
    <3>2. run[b].file \in [PageNumbers -> -1..MaxCommits]
      BY <1>1 DEF Runs, Files
    <3>3. ASSUME NEW p \in 1..f PROVE run[b].file[p] = versions[n][p]
      BY <1>1, <2>2, <2>3, <3>3 DEF FirstPage, Sound
    <3>4. Copied(b) \in Files
      BY <2>1, <3>1, <3>2, BackupAssumption DEF Files
    <3>. QED BY <2>3, <3>1, <3>3, <3>4, BackupAssumption DEF PageNumbers
  <2>5. pc \in {"inspect", "copy", "copyWait"} /\ (pc = "inspect" => t = Pages)
    OBVIOUS
  <2>6. run' = [run EXCEPT ![b] = r]
    <3>1. run' = [run EXCEPT
                ![b].base = n, ![b].copied = t, ![b].remaining = Pages - t,
                ![b].file = Copied(b), ![b].pc = pc]
      BY <1>4 DEF StepBackup
    <3> HIDE DEF n, t, pc
    <3>. QED BY <1>1, <3>1
  <2> HIDE DEF f, t, n, pc
  <2>7. /\ r \in Runs /\ r.base = n /\ r.copied = t /\ r.file = Copied(b) /\ r.pc = pc
        /\ r.intact = run[b].intact /\ r.outcome = run[b].outcome
    <3>1. pc \in Running /\ Pages - t \in 0..Pages
      BY <2>3, <2>5, BackupAssumption DEF Running, Waits
    <3>2. n \in 0..(MaxCommits + 1)
      BY <2>1
    <3>. QED BY <1>1, <2>3, <2>4, <3>1, <3>2 DEF Runs
  <2> HIDE DEF r
  <2>8. run[b].intact /\ run[b].outcome # "ok"
    BY <1>1, <2>2 DEF Sound, Running
  <2>9. Sound(r)
    BY <2>1, <2>4, <2>5, <2>7, <2>8 DEF Sound, CopyEnded, n
  <2>10. ~(dest = b \/ durable = b) /\ r.pc \notin Linked
    <3>1. dest = b \/ durable = b => Whole(run[b])
      BY RunFacts
    <3>. QED BY <1>1, <2>5, <2>7, <3>1 DEF Whole, Linked, Ended
  <2>. QED BY <1>1, <2>0, <2>6, <2>7, <2>8, <2>9, <2>10, StepOfRun
<1>. QED BY <1>2, <1>3, <1>4 DEF StepBackup

\* From the copy to os.Link.
LEMMA PrepareKeeps ==
  ASSUME BackupInv, NEW b \in Backups, Inspect(b) \/ SyncFile(b) \/ HashFile(b)
  PROVE  BackupInv'
<1>1. /\ run[b] \in Runs /\ run \in [Backups -> Runs]
      /\ locked \in BOOLEAN /\ faults \in 0..MaxFaults
      /\ UNCHANGED <<versions, locked, removed, faults>>
      /\ Sound(run[b])
  BY RunFacts DEF Inspect, SyncFile, HashFile
<1>2. ASSUME NEW r \in Runs, run' = [run EXCEPT ![b] = r], Sound(r), UNCHANGED nameVars,
             run[b].pc \in CopyEnded, r.pc \in CopyEnded, r.outcome = run[b].outcome
      PROVE  BackupInv'
  <2>1. run[b].outcome # "ok"
    BY <1>1, <1>2 DEF Sound, CopyEnded
  <2>2. ~(dest = b \/ durable = b) /\ r.pc \notin Linked
    BY <1>2, RunFacts DEF Whole, Linked, Ended, CopyEnded
  <2>3. UNCHANGED <<dest, durable>> /\ temps' \subseteq Backups /\ stale' \subseteq Backups
    BY <1>2, RunFacts DEF nameVars
  <2>. QED BY <1>1, <1>2, <2>1, <2>2, <2>3, StepOfRun
<1>3. CASE Inspect(b)
  <2>1. CASE \E outcome \in {"integrity", "verification"} : Return(b, outcome)
    BY <1>1, <2>1, ReturnKeeps DEF Outcomes
  <2>2. CASE /\ run' = [run EXCEPT ![b].fence = run[b].file[Clock], ![b].pc = "sync"]
             /\ UNCHANGED nameVars
    <3> DEFINE r == [run[b] EXCEPT !.fence = run[b].file[Clock], !.pc = "sync"]
    <3>1. run[b].file[Clock] \in -1..MaxCommits
      <4>1. run[b].file \in [1..Pages -> -1..MaxCommits]
        BY <1>1 DEF Runs, Files, PageNumbers
      <4>. QED BY <4>1, BackupAssumption DEF Clock
    <3>2. /\ r \in Runs /\ r.fence = r.file[Clock] /\ r.file = run[b].file /\ r.base = run[b].base
          /\ r.copied = run[b].copied /\ r.pc = "sync" /\ r.outcome = run[b].outcome /\ r.intact = run[b].intact
      BY <1>1, <3>1 DEF Runs, Running
    <3>3. run' = [run EXCEPT ![b] = r]
      BY <1>1, <2>2
    <3> HIDE DEF r
    <3>4. run[b].pc = "inspect"
      BY <1>3 DEF Inspect
    <3>5. Sound(r)
      <4>1. /\ run[b].base <= Len(versions) /\ (run[b].base = 0 => run[b].copied = 0)
            /\ \A p \in 1..run[b].copied : run[b].file[p] = versions[run[b].base][p]
            /\ run[b].copied = Pages /\ run[b].intact /\ run[b].outcome # "ok"
        BY <1>1, <3>4 DEF Sound, CopyEnded, Running
      <4>. QED BY <3>2, <4>1 DEF Sound
    <3>. QED BY <1>2, <2>2, <3>2, <3>3, <3>4, <3>5 DEF CopyEnded
  <2>. QED BY <1>3, <2>1, <2>2 DEF Inspect
<1>4. CASE SyncFile(b)
  <2> DEFINE r == [run[b] EXCEPT !.synced = TRUE, !.pc = "hash"]
  <2>1. /\ r \in Runs /\ r.fence = run[b].fence /\ r.file = run[b].file /\ r.base = run[b].base /\ r.synced
        /\ r.copied = run[b].copied /\ r.pc = "hash" /\ r.outcome = run[b].outcome /\ r.intact = run[b].intact
    BY <1>1 DEF Runs, Running
  <2>2. run' = [run EXCEPT ![b] = r] /\ UNCHANGED nameVars
    BY <1>1, <1>4 DEF SyncFile
  <2> HIDE DEF r
  <2>3. run[b].pc = "sync"
    BY <1>4 DEF SyncFile
  <2>4. Sound(r)
    BY <1>1, <2>1, <2>3 DEF Sound, CopyEnded, Running
  <2>. QED BY <1>2, <2>1, <2>2, <2>3, <2>4 DEF CopyEnded
<1>5. CASE HashFile(b)
  <2> DEFINE r == [run[b] EXCEPT !.hash = run[b].file, !.pc = "link"]
  <2>1. /\ r \in Runs /\ r.fence = run[b].fence /\ r.file = run[b].file /\ r.base = run[b].base
        /\ r.hash = r.file /\ r.synced = run[b].synced
        /\ r.copied = run[b].copied /\ r.pc = "link" /\ r.outcome = run[b].outcome /\ r.intact = run[b].intact
    BY <1>1 DEF Runs, Running
  <2>2. run' = [run EXCEPT ![b] = r] /\ UNCHANGED nameVars
    BY <1>1, <1>5 DEF HashFile
  <2> HIDE DEF r
  <2>3. run[b].pc = "hash"
    BY <1>5 DEF HashFile
  <2>4. Sound(r)
    BY <1>1, <2>1, <2>3 DEF Sound, CopyEnded, Running
  <2>. QED BY <1>2, <2>1, <2>2, <2>3, <2>4 DEF CopyEnded
<1>. QED BY <1>3, <1>4, <1>5

\* A run before os.Link with every check behind it has a whole version.
LEMMA LinkIsWhole ==
  ASSUME BackupInv, NEW b \in Backups, run[b].pc = "link", NEW r,
         Kept(r, run[b]), r.pc \in Linked
  PROVE  Whole(r)
<1>1. /\ run[b] \in Runs /\ Sound(run[b]) /\ TypeOK
  BY RunFacts DEF BackupInv
<1>2. /\ run[b].copied = Pages /\ run[b].fence = run[b].file[Clock] /\ run[b].synced
      /\ run[b].hash = run[b].file /\ run[b].intact
  BY <1>1 DEF Sound, CopyEnded, Running
<1>3. /\ run[b].base \in 1..Len(versions)
      /\ \A p \in 1..Pages : run[b].file[p] = versions[run[b].base][p]
  <2>1. run[b].base \in Nat /\ Len(versions) \in Nat
    <3>1. run[b].base \in 0..(MaxCommits + 1)
      BY <1>1 DEF Runs
    <3>2. Len(versions) \in 1..(MaxCommits + 1)
      BY <1>1 DEF TypeOK
    <3>. QED BY <3>1, <3>2
  <2>2. run[b].base # 0
    BY <1>1, <1>2, BackupAssumption DEF Sound
  <2>. QED BY <1>1, <1>2, <2>1, <2>2 DEF Sound
<1>4. versions[run[b].base] \in [PageNumbers -> 0..MaxCommits]
  BY <1>1, <1>3, VersionTyped
<1>5. run[b].file \in [PageNumbers -> -1..MaxCommits]
  BY <1>1 DEF Runs, Files
<1>6. run[b].file = versions[run[b].base]
  <2> DEFINE v == versions[run[b].base]
             f == run[b].file
  <2>1. v \in [1..Pages -> 0..MaxCommits] /\ f \in [1..Pages -> -1..MaxCommits]
    BY <1>4, <1>5 DEF PageNumbers
  <2>2. \A p \in 1..Pages : f[p] = v[p]
    BY <1>3
  <2> HIDE DEF v, f
  <2>3. f = [p \in 1..Pages |-> f[p]] /\ v = [p \in 1..Pages |-> v[p]]
    BY <2>1
  <2>4. [p \in 1..Pages |-> f[p]] = [p \in 1..Pages |-> v[p]]
    BY <2>2
  <2>. QED BY <2>3, <2>4 DEF v, f
<1>7. run[b].fence = versions[run[b].base][Clock]
  BY <1>2, <1>6
<1>. QED BY <1>2, <1>3, <1>6, <1>7 DEF Whole, Kept

LEMMA LinkKeeps ==
  ASSUME BackupInv, NEW b \in Backups, Link(b)
  PROVE  BackupInv'
<1>1. /\ run[b] \in Runs /\ run \in [Backups -> Runs] /\ run[b].pc = "link" /\ Sound(run[b])
      /\ locked \in BOOLEAN /\ faults \in 0..MaxFaults
      /\ UNCHANGED <<versions, locked, removed, faults>>
  BY RunFacts DEF Link
<1>2. CASE Return(b, "unsafe destination")
  BY <1>1, <1>2, ReturnKeeps DEF Outcomes
<1>3. CASE /\ dest = NoFile /\ dest' = b /\ run' = [run EXCEPT ![b].pc = "syncLink"]
           /\ UNCHANGED <<durable, temps, stale>>
  <2> DEFINE r == [run[b] EXCEPT !.pc = "syncLink"]
  <2>1. r \in Runs /\ Kept(r, run[b]) /\ r.pc = "syncLink" /\ r.outcome = run[b].outcome
    BY <1>1 DEF Runs, Kept, Running
  <2>2. run' = [run EXCEPT ![b] = r]
    BY <1>1, <1>3
  <2> HIDE DEF r
  <2>3. run' \in [Backups -> Runs] /\ run'[b] = r /\ \A d \in Backups \ {b} : run'[d] = run[d]
    BY <1>1, <2>1, <2>2
  <2>4. durable = NoFile
    BY <1>3 DEF BackupInv, DurableLags
  <2>5. TypeOK' /\ DurableLags'
    <3>1. TypeOK'
      BY <1>1, <1>3, <2>3 DEF BackupInv, TypeOK, Runs
    <3>. QED BY <1>1, <1>3, <2>4, <3>1 DEF BackupInv, DurableLags
  <2>6. Whole(r) /\ r.outcome # "ok"
    BY <1>1, <2>1, LinkIsWhole DEF Linked, Sound
  <2>7. Sound(r)
    BY <1>1, <2>1, <2>6 DEF Sound, Kept, CopyEnded, Running
  <2>8. ASSUME NEW d \in Backups
        PROVE  /\ Sound(run[d])'
               /\ dest' = d \/ durable' = d => Whole(run[d])'
               /\ run'[d].pc \in Linked /\ ~removed' => dest' = d
               /\ run'[d].outcome = "ok" /\ ~removed' => dest' = d /\ durable' = d
    <3>1. CASE d = b
      <4>1. run'[d] = r /\ versions' = versions /\ dest' = d
        BY <1>1, <1>3, <2>3, <3>1
      <4>2. Sound(run[d])' /\ Whole(run[d])'
        BY <2>6, <2>7, <4>1 DEF Sound, Whole
      <4>. QED BY <2>6, <4>1, <4>2
    <3>2. CASE d # b
      <4>1. /\ Sound(run[d]) /\ run'[d] = run[d]
            /\ run[d].pc \in Linked /\ ~removed => dest = d
            /\ run[d].outcome = "ok" /\ ~removed => dest = d
        BY <2>3, <3>2, RunFacts
      <4>2. dest # d /\ dest' # d /\ durable' # d
        BY <1>1, <1>3, <2>4, <3>2, NamesAssumption
      <4>. QED BY <1>1, <4>1, <4>2 DEF Sound
    <3>. QED BY <3>1, <3>2
  <2>. QED BY <2>5, <2>8 DEF BackupInv
<1>. QED BY <1>2, <1>3 DEF Link

\* After os.Link the file does not change.
LEMMA AfterLinkKeeps ==
  ASSUME BackupInv, NEW b \in Backups, SyncLinked(b) \/ RemoveTemporary(b) \/ SyncRemoved(b)
  PROVE  BackupInv'
<1>1. /\ run[b] \in Runs /\ run \in [Backups -> Runs] /\ Sound(run[b])
      /\ dest = b \/ durable = b => Whole(run[b])
      /\ locked \in BOOLEAN /\ faults \in 0..MaxFaults
      /\ temps \subseteq Backups /\ stale \subseteq Backups
  BY RunFacts
<1>2. /\ run[b].pc \in Linked
      /\ UNCHANGED <<versions, locked, dest, removed, faults>>
      /\ durable' \in {durable, dest} /\ temps' \subseteq Backups /\ stale' \subseteq Backups
  BY <1>1 DEF SyncLinked, SyncRemoved, SyncDirectory, RemoveTemporary, Unlink, Linked
<1>3. ~removed => dest = b
  BY <1>2, RunFacts
<1>4. ASSUME NEW pc \in {"remove", "syncRemove", "done"},
             NEW outcome \in {run[b].outcome, "ok"}, NEW r,
             r = [run[b] EXCEPT !.pc = pc, !.outcome = outcome],
             run' = [run EXCEPT ![b] = r],
             outcome = "ok" => pc = "done" /\ durable' = dest
      PROVE  BackupInv'
  <2>1. r \in Runs /\ Kept(r, run[b]) /\ r.pc = pc /\ r.outcome = outcome
    BY <1>1, <1>4 DEF Runs, Kept, Running, Outcomes
  <2>2. Sound(r)
    <3>1. /\ run[b].base <= Len(versions) /\ (run[b].base = 0 => run[b].copied = 0)
          /\ \A p \in 1..run[b].copied : run[b].file[p] = versions[run[b].base][p]
      BY <1>1 DEF Sound
    <3>2. run[b].intact
      BY <1>1, <1>2 DEF Sound, Linked, Running
    <3>. QED BY <1>4, <2>1, <3>1, <3>2 DEF Sound, Kept, CopyEnded
  <2>3. dest = b \/ durable = b => Whole(r)
    BY <1>1, <1>4, <2>1 DEF Whole, Kept, Linked, Ended
  <2>. QED BY <1>1, <1>2, <1>3, <1>4, <2>1, <2>2, <2>3, StepOfRun
<1>5. run[b].outcome # "ok"
  BY <1>1, <1>2 DEF Sound, Linked
<1>6. CASE SyncLinked(b)
  <2>1. run' = [run EXCEPT ![b] = [run[b] EXCEPT !.pc = "remove"]]
    BY <1>1, <1>6 DEF SyncLinked
  <2>2. [run[b] EXCEPT !.pc = "remove"] = [run[b] EXCEPT !.pc = "remove", !.outcome = run[b].outcome]
    BY <1>1 DEF Runs
  <2>. QED BY <1>4, <1>5, <2>1, <2>2
<1>7. CASE RemoveTemporary(b)
  <2>1. run' = [run EXCEPT ![b] = [run[b] EXCEPT !.pc = "syncRemove"]]
    BY <1>1, <1>7 DEF RemoveTemporary
  <2>2. [run[b] EXCEPT !.pc = "syncRemove"]
          = [run[b] EXCEPT !.pc = "syncRemove", !.outcome = run[b].outcome]
    BY <1>1 DEF Runs
  <2>. QED BY <1>4, <1>5, <2>1, <2>2
<1>8. CASE SyncRemoved(b)
  <2>1. /\ run' = [run EXCEPT ![b] = [run[b] EXCEPT !.pc = "done", !.outcome = "ok"]]
        /\ durable' = dest
    BY <1>1, <1>8 DEF SyncRemoved, Ends, SyncDirectory
  <2>. QED BY <1>4, <2>1
<1>. QED BY <1>6, <1>7, <1>8

LEMMA DeadlineKeeps ==
  ASSUME BackupInv, NEW b \in Backups, Deadline(b)
  PROVE  BackupInv'
<1> DEFINE r == [run[b] EXCEPT !.expired = TRUE]
<1>1. /\ run[b] \in Runs /\ run \in [Backups -> Runs] /\ Sound(run[b])
      /\ dest = b \/ durable = b => Whole(run[b])
      /\ run[b].pc \in Linked /\ ~removed => dest = b
      /\ run[b].outcome = "ok" /\ ~removed => dest = b /\ durable = b
      /\ locked \in BOOLEAN /\ faults \in 0..MaxFaults
      /\ temps \subseteq Backups /\ stale \subseteq Backups
      /\ UNCHANGED <<versions, locked, dest, durable, temps, stale, removed, faults>>
  BY RunFacts DEF Deadline, nameVars
<1>2. /\ r \in Runs /\ Kept(r, run[b]) /\ r.pc = run[b].pc /\ r.outcome = run[b].outcome
  BY <1>1 DEF Runs, Kept
<1>3. run' = [run EXCEPT ![b] = r]
  BY <1>1 DEF Deadline
<1> HIDE DEF r
<1>4. Sound(r)
  BY <1>1, <1>2 DEF Sound, Kept
<1>5. dest = b \/ durable = b => Whole(r)
  BY <1>1, <1>2 DEF Whole, Kept
<1>. QED BY <1>1, <1>2, <1>3, <1>4, <1>5, StepOfRun

\* A commit adds a version and leaves the earlier ones as they are.
LEMMA CommitKeeps ==
  ASSUME BackupInv, CollectorCommits
  PROVE  BackupInv'
<1>1. /\ versions \in Seq([PageNumbers -> 0..MaxCommits])
      /\ Len(versions) \in 1..(MaxCommits + 1) /\ Len(versions) <= MaxCommits
      /\ TypeOK /\ UNCHANGED <<locked, run, dest, durable, temps, stale, removed, faults>>
  BY DEF BackupInv, TypeOK, CollectorCommits, nameVars
<1> DEFINE n == Len(versions)
<1>2. PICK written \in SUBSET PageNumbers :
        versions' = Append(versions, [p \in PageNumbers |-> IF p \in written THEN n ELSE Now[p]])
  BY DEF CollectorCommits
<1> DEFINE v == [p \in PageNumbers |-> IF p \in written THEN n ELSE Now[p]]
<1>3. v \in [PageNumbers -> 0..MaxCommits]
  <2>1. Now \in [PageNumbers -> 0..MaxCommits]
    BY <1>1 DEF Now
  <2>. QED BY <1>1, <2>1
<1> HIDE DEF v
<1>4. /\ versions' \in Seq([PageNumbers -> 0..MaxCommits]) /\ Len(versions') = n + 1
      /\ \A i \in 1..n : versions'[i] = versions[i]
  BY <1>1, <1>2, <1>3 DEF v
<1>5. TypeOK'
  <2>1. Len(versions') \in 1..(MaxCommits + 1)
    BY <1>1, <1>4, BackupAssumption
  <2>. QED BY <1>1, <1>4, <2>1 DEF TypeOK
<1>6. DurableLags'
  BY <1>1 DEF BackupInv, DurableLags
<1>7. ASSUME NEW b \in Backups
      PROVE  /\ Sound(run[b])'
             /\ dest' = b \/ durable' = b => Whole(run[b])'
             /\ run'[b].pc \in Linked /\ ~removed' => dest' = b
             /\ run'[b].outcome = "ok" /\ ~removed' => dest' = b /\ durable' = b
  <2>1. /\ Sound(run[b]) /\ run[b] \in Runs
        /\ dest = b \/ durable = b => Whole(run[b])
        /\ run[b].pc \in Linked /\ ~removed => dest = b
        /\ run[b].outcome = "ok" /\ ~removed => dest = b /\ durable = b
    BY RunFacts
  <2>2. run[b].base \in Nat /\ run[b].copied \in Nat /\ run[b].fence \in Int
    <3>1. run[b].base \in 0..(MaxCommits + 1) /\ run[b].copied \in 0..Pages /\ run[b].fence \in -1..MaxCommits
      BY <2>1 DEF Runs
    <3>. QED BY <3>1, BackupAssumption
  <2>3. \A p \in 1..run[b].copied : run[b].file[p] = versions'[run[b].base][p]
    <3>1. /\ run[b].base <= n /\ (run[b].base = 0 => run[b].copied = 0)
          /\ \A p \in 1..run[b].copied : run[b].file[p] = versions[run[b].base][p]
      BY <2>1 DEF Sound
    <3>2. CASE run[b].base = 0
      BY <3>1, <3>2
    <3>3. CASE run[b].base \in 1..n
      BY <1>4, <3>1, <3>3
    <3>. QED BY <1>1, <2>2, <3>1, <3>2, <3>3
  <2>4. run[b].base <= Len(versions')
    BY <1>1, <1>4, <2>1, <2>2 DEF Sound
  <2>5. Sound(run[b])'
    <3>1. run'[b] = run[b]
      BY <1>1
    <3>. QED BY <2>1, <2>3, <2>4, <3>1 DEF Sound
  <2>6. Whole(run[b]) => Whole(run[b])'
    <3> SUFFICES ASSUME Whole(run[b]) PROVE Whole(run[b])'
      OBVIOUS
    <3>1. PICK i \in 1..n : run[b].file = versions[i] /\ run[b].fence = versions[i][Clock]
      BY DEF Whole
    <3>2. i \in 1..Len(versions') /\ versions'[i] = versions[i]
      BY <1>1, <1>4, <3>1
    <3>. QED BY <1>1, <3>1, <3>2 DEF Whole
  <2>. QED BY <1>1, <2>1, <2>5, <2>6
<1>. QED BY <1>5, <1>6, <1>7 DEF BackupInv

LEMMA OthersKeep ==
  ASSUME BackupInv, LockChanges \/ StrangerCreates \/ StrangerRemoves \/ UNCHANGED vars
  PROVE  BackupInv'
<1>1. versions' = versions /\ run' = run /\ run \in [Backups -> Runs] /\ temps' = temps /\ stale' = stale
  BY DEF BackupInv, TypeOK, Runs, LockChanges, StrangerCreates, StrangerRemoves, vars, nameVars
<1>2. \/ UNCHANGED <<dest, durable, removed>>
      \/ dest = NoFile /\ dest' = Stranger /\ durable' = Stranger /\ removed' = removed
      \/ dest' = NoFile /\ durable' = NoFile /\ removed' = TRUE
  BY DEF LockChanges, StrangerCreates, StrangerRemoves, vars, nameVars
<1>3. locked' \in BOOLEAN /\ faults' \in 0..MaxFaults
  <2>1. locked \in BOOLEAN /\ faults \in 0..MaxFaults
    BY DEF BackupInv, TypeOK
  <2>2. faults' = faults \/ Fault
    BY DEF LockChanges, StrangerCreates, StrangerRemoves, vars, nameVars
  <2>3. locked' = locked \/ locked' = ~locked
    BY DEF LockChanges, StrangerCreates, StrangerRemoves, vars, nameVars
  <2>4. faults' \in 0..MaxFaults
    BY <2>1, <2>2, BackupAssumption DEF Fault
  <2>. QED BY <2>1, <2>3, <2>4, Zenon
<1>4. TypeOK'
  BY <1>1, <1>2, <1>3 DEF BackupInv, TypeOK
<1>5. DurableLags'
  BY <1>1, <1>2 DEF BackupInv, DurableLags
<1>6. ASSUME NEW b \in Backups
      PROVE  /\ Sound(run[b])'
             /\ dest' = b \/ durable' = b => Whole(run[b])'
             /\ run'[b].pc \in Linked /\ ~removed' => dest' = b
             /\ run'[b].outcome = "ok" /\ ~removed' => dest' = b /\ durable' = b
  <2>1. /\ Sound(run[b])
        /\ dest = b \/ durable = b => Whole(run[b])
        /\ run[b].pc \in Linked /\ ~removed => dest = b
        /\ run[b].outcome = "ok" /\ ~removed => dest = b /\ durable = b
    BY RunFacts
  <2>2. Sound(run[b])' /\ (Whole(run[b]) => Whole(run[b])')
    BY <1>1, <2>1 DEF Sound, Whole
  <2>3. b # NoFile /\ b # Stranger
    BY NamesAssumption
  <2>. QED BY <1>1, <1>2, <2>1, <2>2, <2>3
<1>. QED BY <1>4, <1>5, <1>6 DEF BackupInv

\* A crash ends every run; a file under the destination's name had been synced
\* before it got the name, and is not torn.
LEMMA CrashKeeps ==
  ASSUME BackupInv, Crash
  PROVE  BackupInv'
<1>1. /\ run \in [Backups -> Runs] /\ versions' = versions /\ removed' = removed /\ locked' = FALSE
      /\ dest' \in {dest, durable} /\ durable' = dest' /\ faults' \in 0..MaxFaults
      /\ temps' \subseteq Backups /\ stale' \subseteq Backups
  <2>1. run \in [Backups -> Runs] /\ faults \in 0..MaxFaults
    BY DEF BackupInv, TypeOK, Runs
  <2>2. /\ Fault /\ versions' = versions /\ removed' = removed /\ locked' = FALSE
        /\ dest' \in {dest, durable} /\ durable' = dest'
    BY DEF Crash
  <2>3. faults' \in 0..MaxFaults
    BY <2>1, <2>2, BackupAssumption DEF Fault
  <2>4. temps' \subseteq Backups /\ stale' \subseteq Backups
    BY DEF BackupInv, TypeOK, Crash
  <2>. QED BY <2>1, <2>2, <2>3, <2>4
<1>2. ASSUME NEW b \in Backups
      PROVE  /\ run'[b] \in Runs
             /\ Sound(run'[b])
             /\ dest = b \/ durable = b => Whole(run'[b])
             /\ run'[b].pc \notin Linked
             /\ run'[b].outcome = run[b].outcome
  <2> DEFINE pc == IF Active(b) THEN "dead" ELSE run[b].pc
             intact == run[b].intact /\ run[b].synced
             r == [run[b] EXCEPT !.pc = pc, !.intact = intact]
  <2>1. /\ Sound(run[b]) /\ run[b] \in Runs
        /\ dest = b \/ durable = b => Whole(run[b])
    BY RunFacts
  <2>2. run'[b] = IF run[b].pc = "idle" THEN run[b] ELSE r
    BY DEF Crash
  <2>3. CASE run[b].pc = "idle"
    BY <2>1, <2>2, <2>3 DEF Whole, Linked, Ended
  <2>4. CASE run[b].pc # "idle"
    <3>1. pc \in Ended /\ intact \in BOOLEAN /\ (run[b].outcome = "ok" => pc = "done")
             /\ (pc = "done" => run[b].pc = "done")
      <4>1. run[b].pc \in Running \cup {"idle", "done", "dead"}
        BY <2>1 DEF Runs
      <4>2. run[b].outcome = "ok" => run[b].pc = "done"
        BY <2>1 DEF Sound
      <4>. QED BY <2>4, <4>1, <4>2 DEF Active, Ended, Running, Waits
    <3> HIDE DEF pc, intact
    <3>2. /\ r \in Runs /\ r.pc = pc /\ r.intact = intact /\ r.base = run[b].base /\ r.copied = run[b].copied
          /\ r.file = run[b].file /\ r.fence = run[b].fence /\ r.hash = run[b].hash
          /\ r.synced = run[b].synced /\ r.outcome = run[b].outcome
      BY <2>1, <3>1 DEF Runs, Ended
    <3> HIDE DEF r
    <3>3. Sound(r)
      <4>1. /\ run[b].base <= Len(versions) /\ (run[b].base = 0 => run[b].copied = 0)
            /\ \A p \in 1..run[b].copied : run[b].file[p] = versions[run[b].base][p]
        BY <2>1 DEF Sound
      <4>2. r.pc \notin CopyEnded \cup Running \cup {"idle"}
        BY <3>1, <3>2 DEF Ended, CopyEnded, Running, Waits
      <4>. QED BY <3>1, <3>2, <4>1, <4>2 DEF Sound, CopyEnded
    <3>4. dest = b \/ durable = b => Whole(r)
      BY <2>1, <3>1, <3>2 DEF Whole, intact
    <3>. QED BY <2>2, <2>4, <3>1, <3>2, <3>3, <3>4 DEF Ended, Linked
  <2>. QED BY <2>3, <2>4
<1>3. TypeOK'
  <2>1. run' \in [Backups -> Runs]
    <3>1. run' = [b \in Backups |-> run'[b]]
      BY DEF Crash
    <3>. QED BY <1>2, <3>1
  <2>. QED BY <1>1, <2>1 DEF BackupInv, TypeOK, Runs
<1>4. DurableLags'
  BY <1>1 DEF BackupInv, DurableLags
<1>5. ASSUME NEW b \in Backups
      PROVE  /\ Sound(run[b])'
             /\ dest' = b \/ durable' = b => Whole(run[b])'
             /\ run'[b].pc \in Linked /\ ~removed' => dest' = b
             /\ run'[b].outcome = "ok" /\ ~removed' => dest' = b /\ durable' = b
  <2>1. Sound(run[b])' /\ (Whole(run'[b]) => Whole(run[b])')
    BY <1>1, <1>2 DEF Sound, Whole
  <2>2. run[b].outcome = "ok" /\ ~removed => dest = b /\ durable = b
    BY RunFacts
  <2>. QED BY <1>1, <1>2, <2>1, <2>2
<1>. QED BY <1>3, <1>4, <1>5 DEF BackupInv

\* BackupInv is inductive.
LEMMA BackupInvInductive ==
  /\ Init => BackupInv
  /\ BackupInv /\ [Next]_vars => BackupInv'
<1>1. ASSUME Init PROVE BackupInv
  <2> DEFINE zero == [p \in PageNumbers |-> 0]
             none == [p \in PageNumbers |-> -1]
  <2>1. zero \in [PageNumbers -> 0..MaxCommits] /\ none \in Files
    BY BackupAssumption DEF Files
  <2>2. /\ versions = <<zero>> /\ Len(versions) = 1 /\ versions[1] = zero
        /\ versions \in Seq([PageNumbers -> 0..MaxCommits])
    BY <1>1, <2>1 DEF Init
  <2>3. /\ Idle \in Runs /\ Idle.pc = "idle" /\ Idle.base = 0 /\ Idle.copied = 0 /\ Idle.intact = TRUE
        /\ Idle.outcome = "none"
    BY <2>1, BackupAssumption DEF Idle, Runs, Outcomes
  <2>4. run \in [Backups -> Runs] /\ \A b \in Backups : run[b] = Idle
    BY <1>1, <2>3 DEF Init
  <2>5. TypeOK
    <3>1. Len(versions) \in 1..(MaxCommits + 1) /\ faults \in 0..MaxFaults
      BY <1>1, <2>2, BackupAssumption DEF Init
    <3>. QED BY <1>1, <2>2, <2>4, <3>1 DEF Init, TypeOK, Runs
  <2>6. \A b \in Backups : Sound(run[b]) /\ dest # b /\ durable # b
    BY <1>1, <2>2, <2>3, <2>4, NamesAssumption DEF Init, Sound, CopyEnded
  <2>. QED BY <1>1, <2>3, <2>4, <2>5, <2>6 DEF Init, BackupInv, DurableLags, Linked
<1>2. ASSUME BackupInv, [Next]_vars PROVE BackupInv'
  <2>1. ASSUME NEW b \in Backups,
               Start(b) \/ Steps(b) \/ Fail(b) \/ Deadline(b) \/ Killed(b)
        PROVE  BackupInv'
    BY <1>2, <2>1, EarlyKeeps, StepBackupKeeps, PrepareKeeps, LinkKeeps, AfterLinkKeeps, DeadlineKeeps
       DEF Steps
  <2>. QED BY <1>2, <2>1, CommitKeeps, OthersKeep, CrashKeeps DEF Next
<1>. QED BY <1>1, <1>2

LEMMA BackupInvHolds == Spec => []BackupInv
BY BackupInvInductive, PTL DEF Spec

-----------------------------------------------------------------------------
\* createOnlineBackup gives a file the destination's name after the copy has
\* ended in one version, was checked, synced and hashed: for any number of
\* pages and commits, what has the name is one version of the database, with the
\* fence and the hash that are reported, after a crash too.
THEOREM PublishedIsWhole == Spec => []PublishedIsOneVersion
<1>1. ASSUME BackupInv PROVE PublishedIsOneVersion
  <2>1. versions \in Seq([PageNumbers -> 0..MaxCommits]) /\ TypeOK
    BY <1>1 DEF BackupInv, TypeOK
  <2>2. DOMAIN versions = 1..Len(versions)
    BY <2>1
  <2>3. \A b \in Backups : dest = b => Whole(run[b])
    BY <1>1 DEF BackupInv
  <2>. QED BY <2>1, <2>2, <2>3 DEF PublishedIsOneVersion, Whole
<1>. QED BY <1>1, BackupInvHolds, PTL

\* A backup that the tool reported as done has the destination's name until
\* another process removes it, whatever crashes follow (syncDirectory after the
\* link and after the removal of the temporary name).
THEOREM SuccessStays == Spec => []SuccessIsDurable
<1>1. BackupInv => SuccessIsDurable
  BY DEF BackupInv, SuccessIsDurable
<1>. QED BY <1>1, BackupInvHolds, PTL

\* The temporary name of a run that is past its removal is gone, and past the
\* second syncDirectory no crash brings it back.
Clean ==
    \A b \in Backups :
       /\ run[b].pc = "syncRemove" => b \notin temps
       /\ run[b].outcome = "ok" => run[b].pc = "done" /\ b \notin temps \cup stale

\* What a step of run c does to the names in the directory.
Names(c) ==
    /\ \A b \in Backups : b # c => run'[b] = run[b]
    /\ temps' \subseteq temps \cup {c} /\ stale' \subseteq stale \cup {c}
    /\ run[c].pc # "done"
    /\ run'[c].pc = "syncRemove" => c \notin temps'
    /\ run'[c].outcome = "ok" =>
          \/ run[c].outcome = "ok"
          \/ run'[c].pc = "done" /\ c \notin temps' \cup stale'

\* A step that leaves the names alone.
LEMMA QuietStep ==
  ASSUME BackupInv, NEW c \in Backups, NEW r \in Runs, run' = [run EXCEPT ![c] = r],
         run[c].pc # "done", r.pc # "syncRemove", r.outcome = run[c].outcome \/ r.outcome # "ok",
         temps' \subseteq temps \cup {c}, stale' \subseteq stale \cup {c}
  PROVE  Names(c)
<1>1. run \in [Backups -> Runs]
  BY RunFacts
<1>2. run'[c] = r /\ \A b \in Backups : b # c => run'[b] = run[b]
  BY <1>1
<1>. QED BY <1>2 DEF Names

LEMMA ReturnNames ==
  ASSUME BackupInv, NEW c \in Backups, NEW outcome \in Outcomes \ {"ok"}, Return(c, outcome),
         run[c].pc # "done"
  PROVE  Names(c)
<1> DEFINE r == [run[c] EXCEPT !.pc = "done", !.outcome = outcome]
<1>1. run[c] \in Runs /\ run \in [Backups -> Runs]
  BY RunFacts
<1>2. r \in Runs /\ r.pc = "done" /\ r.outcome # "ok"
  BY <1>1 DEF Runs
<1>3. run' = [run EXCEPT ![c] = r]
  BY <1>1 DEF Return, Ends
<1>4. temps' \subseteq temps \cup {c} /\ stale' \subseteq stale \cup {c}
  BY DEF Return, Unlink
<1> HIDE DEF r
<1>. QED BY <1>2, <1>3, <1>4, QuietStep

LEMMA GotoNames ==
  ASSUME BackupInv, NEW c \in Backups, NEW pc \in Running \cup {"idle", "done", "dead"}, Goto(c, pc),
         run[c].pc # "done", pc # "syncRemove"
  PROVE  Names(c)
<1> DEFINE r == [run[c] EXCEPT !.pc = pc]
<1>1. run[c] \in Runs /\ run \in [Backups -> Runs]
  BY RunFacts
<1>2. r \in Runs /\ r.pc = pc /\ r.outcome = run[c].outcome
  BY <1>1 DEF Runs
<1>3. run' = [run EXCEPT ![c] = r] /\ temps' = temps /\ stale' = stale
  BY <1>1 DEF Goto, nameVars
<1> HIDE DEF r
<1>. QED BY <1>2, <1>3, QuietStep

\* The steps of a run leave the names of the others alone, but for a sync of
\* the directory they share.
LEMMA NamesOfOthers ==
  ASSUME BackupInv, NEW c \in Backups, Clean,
         Start(c) \/ Steps(c) \/ Fail(c) \/ Deadline(c) \/ Killed(c)
  PROVE  Names(c)
<1>1. run[c] \in Runs /\ run \in [Backups -> Runs]
  BY RunFacts
<1>2. CASE Connect(c) \/ BackupInit(c) \/ WaitForRetry(c) \/ Fail(c) \/ Killed(c)
  <2>1. run[c].pc # "done"
    BY <1>2 DEF Connect, BackupInit, WaitForRetry, Fail, Killed, Active, Running, Waits
  <2>2. \/ \E outcome \in Outcomes \ {"ok"} : Return(c, outcome)
        \/ \E pc \in Running \cup {"dead"} : pc # "syncRemove" /\ Goto(c, pc)
    <3>1. CASE Connect(c) \/ BackupInit(c)
      BY <3>1 DEF Connect, BackupInit, Outcomes, Running, Waits
    <3>2. CASE WaitForRetry(c)
      <4>1. CASE run[c].expired
        BY <3>2, <4>1 DEF WaitForRetry, Outcomes
      <4>2. CASE ~run[c].expired
        <5>1. \/ Goto(c, "connect") \/ Goto(c, "init") \/ Goto(c, "copy")
          BY <3>2, <4>2 DEF WaitForRetry, Waits
        <5>. QED BY <5>1 DEF Running
      <4>. QED BY <4>1, <4>2
    <3>3. CASE Fail(c)
      <4>1. FailureOf(c) \subseteq Outcomes \ {"ok"}
        BY DEF FailureOf, Outcomes
      <4>. QED BY <3>3, <4>1 DEF Fail
    <3>4. CASE Killed(c)
      BY <3>4 DEF Killed
    <3>. QED BY <1>2, <3>1, <3>2, <3>3, <3>4
  <2>. QED BY <2>1, <2>2, ReturnNames, GotoNames
<1>3. CASE Start(c)
  <2>1. run[c].pc = "idle" /\ stale' = stale /\ temps' \subseteq temps \cup {c}
    BY <1>3 DEF Start
  <2>2. CASE run' = [run EXCEPT ![c].pc = "connect"]
    <3> DEFINE r == [run[c] EXCEPT !.pc = "connect"]
    <3>1. r \in Runs /\ r.pc = "connect" /\ r.outcome = run[c].outcome /\ run' = [run EXCEPT ![c] = r]
      BY <1>1, <2>2 DEF Runs, Running
    <3> HIDE DEF r
    <3>. QED BY <2>1, <3>1, QuietStep
  <2>3. CASE Ends(c, "unsafe destination")
    <3> DEFINE r == [run[c] EXCEPT !.pc = "done", !.outcome = "unsafe destination"]
    <3>1. r \in Runs /\ r.pc = "done" /\ r.outcome # "ok" /\ run' = [run EXCEPT ![c] = r]
      BY <1>1, <2>3 DEF Ends, Runs, Outcomes
    <3> HIDE DEF r
    <3>. QED BY <2>1, <3>1, QuietStep
  <2>. QED BY <1>3, <2>2, <2>3 DEF Start
<1>4. CASE StepBackup(c)
  <2>0. run[c].pc = "copy"
    BY <1>4 DEF StepBackup
  <2>1. CASE Return(c, "timeout") \/ Goto(c, "copyWait")
    BY <2>0, <2>1, ReturnNames, GotoNames DEF Outcomes, Running, Waits
  <2>2. CASE run' = [run EXCEPT
                  ![c].base = Len(versions),
                  ![c].copied = CopiedTo(c),
                  ![c].remaining = Pages - CopiedTo(c),
                  ![c].file = Copied(c),
                  ![c].pc = IF CopiedTo(c) = Pages THEN "inspect"
                            ELSE IF MadeProgress(c) THEN "copy" ELSE "copyWait"]
             /\ UNCHANGED nameVars
    <3>1. /\ \A b \in Backups : b # c => run'[b] = run[b]
          /\ run'[c].pc \in {"inspect", "copy", "copyWait"} /\ run'[c].outcome = run[c].outcome
      BY <1>1, <2>2 DEF Runs
    <3>. QED BY <2>0, <2>2, <3>1 DEF Names, nameVars
  <2>. QED BY <1>4, <2>1, <2>2 DEF StepBackup
<1>5. CASE Inspect(c)
  <2>0. run[c].pc = "inspect"
    BY <1>5 DEF Inspect
  <2>1. CASE \E outcome \in {"integrity", "verification"} : Return(c, outcome)
    BY <2>0, <2>1, ReturnNames DEF Outcomes
  <2>2. CASE run' = [run EXCEPT ![c].fence = run[c].file[Clock], ![c].pc = "sync"] /\ UNCHANGED nameVars
    <3>1. /\ \A b \in Backups : b # c => run'[b] = run[b]
          /\ run'[c].pc = "sync" /\ run'[c].outcome = run[c].outcome
      BY <1>1, <2>2 DEF Runs
    <3>. QED BY <2>0, <2>2, <3>1 DEF Names, nameVars
  <2>. QED BY <1>5, <2>1, <2>2 DEF Inspect
<1>6. CASE SyncFile(c) \/ HashFile(c) \/ SyncLinked(c)
  <2>1. run[c].pc # "done" /\ temps' = temps /\ stale' \subseteq stale
    BY <1>6 DEF SyncFile, HashFile, SyncLinked, SyncDirectory, nameVars
  <2>2. /\ \A b \in Backups : b # c => run'[b] = run[b]
        /\ run'[c].pc \in {"hash", "link", "remove"} /\ run'[c].outcome = run[c].outcome
    BY <1>1, <1>6 DEF SyncFile, HashFile, SyncLinked, Runs
  <2>. QED BY <2>1, <2>2 DEF Names
<1>7. CASE Link(c)
  <2>0. run[c].pc = "link"
    BY <1>7 DEF Link
  <2>1. CASE Return(c, "unsafe destination")
    BY <2>0, <2>1, ReturnNames DEF Outcomes
  <2>2. CASE run' = [run EXCEPT ![c].pc = "syncLink"] /\ UNCHANGED <<durable, temps, stale>>
    <3>1. /\ \A b \in Backups : b # c => run'[b] = run[b]
          /\ run'[c].pc = "syncLink" /\ run'[c].outcome = run[c].outcome
      BY <1>1, <2>2 DEF Runs
    <3>. QED BY <2>0, <2>2, <3>1 DEF Names
  <2>. QED BY <1>7, <2>1, <2>2 DEF Link
<1>8. CASE RemoveTemporary(c)
  <2>1. run[c].pc = "remove" /\ temps' = temps \ {c} /\ stale' \subseteq stale \cup {c}
    BY <1>8 DEF RemoveTemporary, Unlink
  <2>2. /\ \A b \in Backups : b # c => run'[b] = run[b]
        /\ run'[c].outcome = run[c].outcome
    BY <1>1, <1>8 DEF RemoveTemporary, Runs
  <2>. QED BY <2>1, <2>2 DEF Names
<1>9. CASE SyncRemoved(c)
  <2>1. run[c].pc = "syncRemove" /\ temps' = temps /\ stale' = {} /\ c \notin temps
    BY <1>9 DEF SyncRemoved, SyncDirectory, Clean
  <2>2. /\ \A b \in Backups : b # c => run'[b] = run[b]
        /\ run'[c].pc = "done"
    BY <1>1, <1>9 DEF SyncRemoved, Ends, Runs
  <2>. QED BY <2>1, <2>2 DEF Names
<1>10. CASE Deadline(c)
  <2>1. run[c].pc # "done" /\ temps' = temps /\ stale' = stale
    BY <1>10 DEF Deadline, Active, Running, Waits, nameVars
  <2>2. /\ \A b \in Backups : b # c => run'[b] = run[b]
        /\ run'[c].pc = run[c].pc /\ run'[c].outcome = run[c].outcome
    BY <1>1, <1>10 DEF Deadline, Runs
  <2>. QED BY <2>1, <2>2 DEF Names, Clean
<1>. QED BY <1>2, <1>3, <1>4, <1>5, <1>6, <1>7, <1>8, <1>9, <1>10 DEF Steps

\* A backup that createOnlineBackup reported as done leaves no temporary name,
\* whatever crashes follow and whatever other runs do in the directory: the
\* name is gone from the directory on disk too before the report.
THEOREM TemporaryRemoved == Spec => []NoTemporaryLeft
<1>1. Init => Clean
  BY DEF Init, Clean, Idle
<1>2. ASSUME BackupInv, Clean, [Next]_vars PROVE Clean'
  <2>1. ASSUME NEW c \in Backups,
               Start(c) \/ Steps(c) \/ Fail(c) \/ Deadline(c) \/ Killed(c)
        PROVE  Clean'
    <3>1. Names(c)
      BY <1>2, <2>1, NamesOfOthers
    <3>2. ASSUME NEW b \in Backups, b # c
          PROVE  /\ run'[b].pc = "syncRemove" => b \notin temps'
                 /\ run'[b].outcome = "ok" => run'[b].pc = "done" /\ b \notin temps' \cup stale'
      BY <1>2, <3>1, <3>2 DEF Clean, Names
    <3>3. /\ run'[c].pc = "syncRemove" => c \notin temps'
          /\ run'[c].outcome = "ok" => run'[c].pc = "done" /\ c \notin temps' \cup stale'
      <4>1. run[c].outcome # "ok"
        BY <1>2, <3>1 DEF Clean, Names
      <4>. QED BY <3>1, <4>1 DEF Names
    <3>. QED BY <3>2, <3>3 DEF Clean
  <2>2. CASE CollectorCommits \/ LockChanges \/ StrangerCreates \/ StrangerRemoves \/ UNCHANGED vars
    <3>1. run' = run /\ temps' = temps /\ stale' = stale
      BY <2>2 DEF CollectorCommits, LockChanges, StrangerCreates, StrangerRemoves, vars, nameVars
    <3>. QED BY <1>2, <3>1 DEF Clean
  <2>3. CASE Crash
    <3>1. stale' = {} /\ temps' \subseteq temps \cup stale
      BY <2>3 DEF Crash
    <3>2. ASSUME NEW b \in Backups
          PROVE  /\ run'[b].pc # "syncRemove" /\ run'[b].outcome = run[b].outcome
                 /\ run[b].pc = "done" => run'[b].pc = "done"
      <4>1. run[b] \in Runs
        BY <1>2, RunFacts
      <4>2. run'[b] = IF run[b].pc = "idle" THEN run[b]
                      ELSE [run[b] EXCEPT !.pc = IF Active(b) THEN "dead" ELSE run[b].pc,
                                          !.intact = run[b].intact /\ run[b].synced]
        BY <2>3 DEF Crash
      <4>3. CASE Active(b)
        BY <4>1, <4>2, <4>3 DEF Runs, Active, Running, Waits
      <4>4. CASE ~Active(b)
        BY <4>1, <4>2, <4>4 DEF Runs, Active, Running
      <4>. QED BY <4>3, <4>4
    <3>. QED BY <1>2, <3>1, <3>2 DEF Clean
  <2>. QED BY <1>2, <2>1, <2>2, <2>3 DEF Next
<1>3. Clean => NoTemporaryLeft
  BY DEF Clean, NoTemporaryLeft
<1>. QED BY <1>1, <1>2, <1>3, BackupInvHolds, PTL DEF Spec

\* os.Link, and a crash that brings back an older directory, give a backup the
\* destination's name only where the name was free.
THEOREM NothingReplaced == Spec => NeverReplaces
<1>1. ASSUME BackupInv, [Next]_vars, NEW b \in Backups, dest' = b, dest # b PROVE dest = NoFile
  <2>1. b # NoFile /\ b # Stranger /\ durable \in {dest, NoFile}
    BY <1>1, NamesAssumption DEF BackupInv, DurableLags
  <2>2. CASE Crash
    BY <1>1, <2>1, <2>2 DEF Crash
  <2>3. CASE \E c \in Backups : Link(c)
    BY <1>1, <2>3 DEF Link, Return
  <2>4. CASE dest' = dest \/ StrangerCreates \/ StrangerRemoves
    BY <1>1, <2>1, <2>4 DEF StrangerCreates, StrangerRemoves
  <2>5. ASSUME NEW c \in Backups,
               Start(c) \/ Connect(c) \/ BackupInit(c) \/ WaitForRetry(c) \/ StepBackup(c) \/ Inspect(c)
               \/ SyncFile(c) \/ HashFile(c) \/ SyncLinked(c) \/ RemoveTemporary(c) \/ SyncRemoved(c)
               \/ Fail(c) \/ Deadline(c) \/ Killed(c)
        PROVE  dest' = dest
    BY <2>5, Zenon DEF Start, Connect, BackupInit, WaitForRetry, StepBackup, Inspect, SyncFile, HashFile,
       SyncLinked, RemoveTemporary, SyncRemoved, Fail, Deadline, Killed, Return, Goto, SyncDirectory,
       nameVars
  <2>6. CollectorCommits \/ LockChanges \/ UNCHANGED vars => dest' = dest
    BY DEF CollectorCommits, LockChanges, vars, nameVars
  <2>. QED BY <1>1, <2>2, <2>3, <2>4, <2>5, <2>6 DEF Next, Steps
<1>2. BackupInv /\ [Next]_vars => [\A b \in Backups : dest' = b /\ dest # b => dest = NoFile]_vars
  BY <1>1
<1>. QED BY <1>2, BackupInvHolds, PTL DEF Spec, NeverReplaces
=============================================================================
