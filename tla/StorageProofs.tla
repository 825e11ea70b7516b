---------------------------- MODULE StorageProofs -----------------------------
(***************************************************************************)
(* For any number of runs, sessions, requests, timestamps and lives of the *)
(* process: what is interrupted is reported and nothing else is, a trial   *)
(* that was acknowledged is kept, a prune keeps the newest rows and a      *)
(* deleted benchmark stays deleted.                                        *)
(*                                                                         *)
(* A commit makes durable whatever anybody has executed, and a crash takes *)
(* back what nobody has committed.  An invariant about the table therefore *)
(* says the same of the two databases, the one on disk and the one the     *)
(* connection sees: the first becomes the second at a commit of anybody,   *)
(* the second the first at a crash.                                        *)
(***************************************************************************)
EXTENDS Storage, FiniteSetTheorems, TLAPS

-----------------------------------------------------------------------------
(* Types: where an actor can be, and when.                                 *)

RunPlaces ==
  {"idle", "marking", "running", "clearing", "recording", "done", "killed", "unclear"}
StartPlaces ==
  {"idle", "reading", "archiving", "wiping", "starting", "trying", "evaluating", "saving",
   "done"}

\* Where an actor awaits a write.
Writing ==
  {"marking", "clearing", "recording", "archiving", "wiping", "saving",
   "reporting", "inserting", "updating", "deleting", "pruning"}

\* An actor is where its kind of work is, and awaits a call only where it
\* writes.
Shape ==
  /\ \A r \in Runs : pc[r] \in RunPlaces
  /\ \A s \in Starts : pc[s] \in StartPlaces
  /\ \A g \in Clearers : pc[g] \in {"idle", "reporting", "done"}
  /\ \A b \in Saves : pc[b] \in {"idle", "inserting", "done"}
  /\ \A p \in Patches : pc[p] \in {"idle", "merged", "updating", "done"}
  /\ \A d \in Deletes : pc[d] \in {"idle", "deleting", "done"}
  /\ pc[Monitor] \in {"idle", "pruning"}
  /\ \A a \in Actors : stage[a] # "none" => pc[a] \in Writing

\* A session begins at the first number, and a trial is saved under one that is
\* left; a clearer that reports has a row to report.
Bounds ==
  /\ \A s \in Starts : pc[s] \in {"evaluating", "saving"} => number[s] < MaxTrials
  /\ \A s \in Starts :
       pc[s] \in {"idle", "reading", "archiving", "wiping", "starting"} => number[s] = 0
  /\ \A g \in Clearers : pc[g] = "reporting" => taken[g] # {}

\* Nobody works before the process serves, and nothing is uncommitted.
Asleep ==
  life \in {"down", "opening", "detecting"} =>
    /\ seen = disk
    /\ \A a \in Actors :
         pc[a] \in {"idle", "done", "killed", "unclear"} /\ stage[a] = "none"

TypeInv == TypeOK /\ Shape /\ Bounds /\ Asleep

-----------------------------------------------------------------------------
(* The rows of running_state                                               *)

Marked(r) == r \in seen.open \/ r \in given

\* Neither a commit nor a crash makes this run forgotten.
Known(r) ==
  (r \in seen.open /\ r \in disk.open) \/ r \in aside.open \/ r \in given

\* A run that got its id has its row in both databases until it clears it or
\* a client is told of it; a row that is open is of a run that has not cleared
\* it, or that the storage has failed; a clearer clears rows it has handed out.
RunsInv ==
  /\ \A r \in Runs : pc[r] \in {"idle", "marking"} => r \notin hasId
  /\ \A r \in Runs : pc[r] = "marking" /\ stage[r] = "commit" => Marked(r)
  /\ \A r \in hasId : pc[r] \in {"running", "killed"} => Known(r)
  /\ \A r \in Runs : pc[r] \in {"running", "clearing"} => r \in hasId \cup failed
  /\ \A r \in hasId :
       pc[r] = "clearing" /\ stage[r] = "commit" => r \notin seen.open
  /\ \A r \in seen.open \cup disk.open :
       \/ pc[r] \in {"marking", "running", "clearing", "killed", "unclear"}
       \/ r \in failed
  /\ \A g \in Clearers : taken[g] \subseteq given

RowsInv == RunsInv /\ NoFalseAlarm

-----------------------------------------------------------------------------
(* The trials                                                              *)

InArchive(t, db) == \E x \in db.archive : t \in x.trials

\* Neither a commit nor a crash loses this trial.
Kept(t) ==
  \/ /\ t \in disk.trials \/ InArchive(t, disk)
     /\ t \in seen.trials \/ InArchive(t, seen)
  \/ t \in aside.trials \/ InArchive(t, aside)

\* A trial of this session that it has saved, under a number it does not use
\* again.
OwnTrial(s, t) ==
  /\ t[1] = s
  /\ \/ t[2] < number[s]
     \/ pc[s] = "saving" /\ stage[s] = "commit" /\ t[2] = number[s]

\* A start that archives has read all that is in the table and not exposed,
Copied ==
  \A u \in Starts : pc[u] = "archiving" => seen.trials \ exposed \subseteq copy[u]

\* and from then on all of it is archived but for what the session itself has
\* saved: what anybody else saves is exposed.
Covered ==
  \A u \in Starts : PastLook(u) /\ (pc[u] = "archiving" => stage[u] = "commit") =>
    \A t \in seen.trials \ exposed : InArchive(t, seen) \/ OwnTrial(u, t)

\* A trial whose save is about to be acknowledged has not been lost meanwhile.
Latest ==
  \A s \in Starts : pc[s] = "saving" /\ stage[s] = "commit" =>
    \/ <<s, number[s]>> \in exposed \cup seen.trials
    \/ InArchive(<<s, number[s]>>, seen)

TrialsInv == Copied /\ Covered /\ Latest /\ \A t \in saved \ exposed : Kept(t)

-----------------------------------------------------------------------------
(* The history                                                             *)

Newest(db, t) == {h \in db.history : h[2] >= t}

\* The rows a prune spares are at least keep_count, whatever is recorded before
\* its delete; a row that is pruned and not yet committed has that many newer.
HistoryInv ==
  /\ IsFiniteSet(seen.history) /\ IsFiniteSet(disk.history)
  /\ pc[Monitor] = "pruning" => Cardinality(Newest(seen, threshold)) >= Keep
  /\ \A h \in disk.history \ seen.history :
       Cardinality(Newer(h, seen.history)) >= Keep

-----------------------------------------------------------------------------
StorageInv ==
  TypeInv /\ RowsInv /\ TrialsInv /\ HistoryInv

\* No actor has two kinds of work.
LEMMA Distinct ==
  /\ \A r \in Runs : r \notin Starts \cup Handlers \cup {Monitor, Shutdown}
  /\ \A s \in Starts : s \notin Handlers \cup {Monitor, Shutdown}
  /\ \A g \in Readers : g \notin Saves \cup Patches \cup Deletes \cup {Monitor, Shutdown}
  /\ \A b \in Saves : b \notin Patches \cup Deletes \cup {Monitor, Shutdown}
  /\ \A p \in Patches : p \notin Deletes \cup {Monitor, Shutdown}
  /\ \A d \in Deletes : d \notin {Monitor, Shutdown}
  /\ Monitor # Shutdown
<1> DEFINE K == Kinds
<1>1. \A i, j \in 1 .. 8 : i # j => K[i] \cap K[j] = {}
  BY StorageAssumption
<1>2. /\ K[1] = Runs /\ K[2] = Starts /\ K[3] = Readers /\ K[4] = Saves
      /\ K[5] = Patches /\ K[6] = Deletes /\ K[7] = {Monitor} /\ K[8] = {Shutdown}
  BY DEF Kinds
<1> HIDE DEF K
<1> QED BY <1>1, <1>2 DEF Handlers

-----------------------------------------------------------------------------
(* The steps, one kind of work and one write at a time                     *)

RunMoves(r) == RunBegins(r) \/ RunOver(r) \/ MarkingCancelled(r)

StartMoves(s) ==
  \/ StartRequested(s) \/ TrialsRead(s) \/ StartRejected(s)
  \/ SessionBegins(s) \/ TrialBegins(s) \/ TrialEnds(s) \/ TrialUnsaved(s)
  \/ SessionEnds(s) \/ SavingCancelled(s)

PatchMoves(p) == BenchmarkRead(p) \/ BenchmarkFound(p)

Same == UNCHANGED <<hasId, taken, number, saved, clock, stamp>>

MarkAnswered(r, ok) ==
  /\ r \in Runs /\ pc[r] = "marking" /\ Goes(r, "running")
  /\ hasId' = IF ok THEN hasId \cup {r} ELSE hasId
  /\ UNCHANGED <<taken, number, saved, clock, stamp>>

ClearAnswered(r) ==
  /\ r \in Runs /\ pc[r] = "clearing" /\ Writes(r, "recording")
  /\ \E t \in 0 .. MaxClock : clock' = t /\ stamp' = [stamp EXCEPT ![r] = t]
  /\ UNCHANGED <<hasId, taken, number, saved>>

RecordAnswered(r) ==
  r \in Runs /\ pc[r] = "recording" /\ Goes(r, "done") /\ Same

ArchiveAnswered(s) ==
  s \in Starts /\ pc[s] = "archiving" /\ Writes(s, "wiping") /\ Same

WipeAnswered(s) ==
  s \in Starts /\ pc[s] = "wiping" /\ Goes(s, "starting") /\ Same

SaveAnswered(s, ok) ==
  /\ s \in Starts /\ pc[s] = "saving" /\ Goes(s, "trying")
  /\ number' = [number EXCEPT ![s] = @ + 1]
  /\ saved' = IF ok THEN saved \cup {<<s, number[s]>>} ELSE saved
  /\ UNCHANGED <<hasId, taken, clock, stamp>>

ReportAnswered(g) ==
  g \in Clearers /\ pc[g] = "reporting" /\ ClearerAnswered(g)

OtherAnswered(a) ==
  /\ \/ a \in Saves /\ pc[a] = "inserting" /\ Goes(a, "done")
     \/ a \in Patches /\ pc[a] = "updating" /\ Goes(a, "done")
     \/ a \in Deletes /\ pc[a] = "deleting" /\ Goes(a, "done")
     \/ a = Monitor /\ pc[a] = "pruning" /\ Goes(a, "idle")
  /\ Same

Answers(a, ok) ==
  \/ MarkAnswered(a, ok) \/ ClearAnswered(a) \/ RecordAnswered(a)
  \/ ArchiveAnswered(a) \/ WipeAnswered(a) \/ SaveAnswered(a, ok)
  \/ ReportAnswered(a) \/ OtherAnswered(a)

\* What the answer to a write does.
LEMMA AnswerCases ==
  ASSUME TypeInv, NEW a \in Actors, NEW ok \in BOOLEAN, stage[a] # "none",
         Answered(a, ok)
  PROVE  /\ Answers(a, ok)
         /\ failed' = IF ok THEN failed ELSE failed \cup {a}
         /\ exposed' = exposed \cup (IF pc[a] = "archiving" /\ ~ok THEN Unarchived ELSE {})
         /\ UNCHANGED <<present, lifeVars, interrupted, copy, meta, threshold, tunerVars, given>>
<1> USE Distinct DEF TypeInv, Shape, Writing, Answers
<1>0. pc[a] \in Writing
  OBVIOUS
<1>1. CASE a \in Runs /\ RunAnswered(a, ok)
  <2>1. pc[a] \in {"marking", "clearing", "recording"}
    BY <1>0, <1>1 DEF RunPlaces
  <2> QED BY <1>1, <2>1 DEF RunAnswered, MarkAnswered, ClearAnswered,
      RecordAnswered, Same, Answered
<1>2. CASE a \in Starts /\ StartAnswered(a, ok)
  <2>1. pc[a] \in {"archiving", "wiping", "saving"}
    BY <1>0, <1>2 DEF StartPlaces
  <2> QED BY <1>2, <2>1 DEF StartAnswered, ArchiveAnswered, WipeAnswered,
      SaveAnswered, Same, Answered
<1>3. CASE a \in Clearers /\ ClearerAnswered(a)
  BY <1>0, <1>3 DEF ReportAnswered, Answered
<1>4. CASE a \in Saves \cup Patches \cup Deletes /\ Goes(a, "done") /\ Same
  BY <1>0, <1>4 DEF OtherAnswered, Answered
<1>5. CASE a = Monitor /\ Goes(a, "idle") /\ Same
  BY <1>0, <1>5 DEF OtherAnswered, Answered
<1> QED BY <1>1, <1>2, <1>3, <1>4, <1>5 DEF Answered, Same

Executes(a) ==
  \/ a \in Runs /\ pc[a] = "marking" /\ seen' = SetRunning(a, seen)
  \/ /\ a \in Runs /\ pc[a] = "clearing"
     /\ seen' = IF a \in hasId THEN ClearRunning(a, seen) ELSE seen
  \/ a \in Runs /\ pc[a] = "recording" /\ seen' = SaveLoadTest(a, seen)
  \/ a \in Starts /\ pc[a] = "archiving" /\ seen' = SaveTuningSession(a, seen)
  \/ a \in Starts /\ pc[a] = "wiping" /\ seen' = ClearTrials(seen)
  \/ a \in Starts /\ pc[a] = "saving" /\ seen' = SaveTrial(a, seen)
  \/ a \in Clearers /\ pc[a] = "reporting" /\ seen' = ClearRunning(Row(a), seen)
  \/ a \in Saves /\ pc[a] = "inserting" /\ seen' = SaveBenchmark(seen)
  \/ a \in Patches /\ pc[a] = "updating" /\ seen' = UpdateBenchmarkMetadata(a, seen)
  \/ a \in Deletes /\ pc[a] = "deleting" /\ seen' = DeleteBenchmark(seen)
  \/ a = Monitor /\ pc[a] = "pruning" /\ seen' = Prune(seen)

\* What executing a write does.
LEMMA ExecuteCases ==
  ASSUME TypeInv, NEW a \in Actors, Executed(a)
  PROVE  /\ Executes(a)
         /\ stage[a] = "execute" /\ stage' = [stage EXCEPT ![a] = "commit"]
         /\ life \notin {"down", "opening", "detecting"}
         /\ exposed' = exposed \cup (IF pc[a] = "saving" THEN Crowded(a) ELSE {})
         /\ UNCHANGED <<present, disk, lifeVars, interrupted, pc, localVars, tunerVars,
                        failed, given, saved>>
<1> USE Distinct DEF TypeInv, Shape, Writing, Executed
<1>1. pc[a] \in Writing /\ seen' = Statement(a, seen)
  OBVIOUS
<1>2. CASE a \in Runs
  <2>1. pc[a] \in {"marking", "clearing", "recording"}
    BY <1>1, <1>2 DEF RunPlaces
  <2>2. Executes(a)
    BY <1>1, <1>2, <2>1 DEF Statement, Executes
  <2> QED BY <2>2 DEF Asleep
<1>3. CASE a \in Starts
  <2>1. pc[a] \in {"archiving", "wiping", "saving"}
    BY <1>1, <1>3 DEF StartPlaces
  <2>2. Executes(a)
    BY <1>1, <1>3, <2>1 DEF Statement, Executes
  <2> QED BY <2>2 DEF Asleep
<1>4. CASE a \in Clearers
  <2>1. pc[a] = "reporting"
    BY <1>1, <1>4
  <2>2. Executes(a)
    BY <1>1, <1>4, <2>1 DEF Statement, Executes
  <2> QED BY <2>2 DEF Asleep
<1>5. CASE a \in Saves \cup Patches \cup Deletes \cup {Monitor}
  <2>1. a \in Saves => pc[a] = "inserting"
    BY <1>1
  <2>2. a \in Patches => pc[a] = "updating"
    BY <1>1
  <2>3. a \in Deletes => pc[a] = "deleting"
    BY <1>1
  <2>4. a = Monitor => pc[a] = "pruning"
    BY <1>1
  <2>5. Executes(a)
    BY <1>1, <1>5, <2>1, <2>2, <2>3, <2>4 DEF Statement, Executes
  <2> QED BY <2>5 DEF Asleep
<1> QED BY <1>2, <1>3, <1>4, <1>5 DEF Actors, Handlers, Clearers

-----------------------------------------------------------------------------
(* The types' steps *)

LEMMA ShapeStep ==
  ASSUME TypeInv, Next
  PROVE  Shape'
<1> USE Distinct DEF TypeInv, TypeOK, Shape, Actors, Clearers, Handlers,
    Writing, RunPlaces, StartPlaces, Writes, Goes, lifeVars, dbVars, localVars,
    tunerVars, ghostVars
<1>0. ASSUME NEW a \in Actors, NEW ok \in BOOLEAN, stage[a] # "none", Answers(a, ok)
      PROVE Shape'
  BY <1>0 DEF Answers, MarkAnswered, ClearAnswered, RecordAnswered,
      ArchiveAnswered, WipeAnswered,
           SaveAnswered, ReportAnswered, ClearerAnswered, OtherAnswered
<1>1. CASE Boot
  BY <1>1 DEF Boot
<1>2. CASE Initialize
  BY <1>2 DEF Initialize
<1>3. CASE DetectInterrupted
  BY <1>3 DEF DetectInterrupted
<1>4. CASE Crash \/ Close
  BY <1>4 DEF Crash, Close, Dies, Fate
<1>5. CASE ShutdownBegins
  BY <1>5 DEF ShutdownBegins
<1>6. CASE PruneBegins
  BY <1>6 DEF PruneBegins
<1>7. ASSUME NEW a \in Actors, Executed(a) PROVE Shape'
  BY <1>7 DEF Executed
<1>8. ASSUME NEW a \in Actors, Committed(a) PROVE Shape'
  BY <1>0, <1>8, AnswerCases DEF Committed
<1>9. ASSUME NEW a \in Actors, WriteFailed(a) PROVE Shape'
  BY <1>0, <1>9, AnswerCases DEF WriteFailed
<1>10. ASSUME NEW r \in Runs, RunMoves(r) PROVE Shape'
  BY <1>10 DEF RunMoves, RunBegins, RunOver, MarkingCancelled
<1>11. ASSUME NEW s \in Starts, StartMoves(s) PROVE Shape'
  BY <1>11 DEF StartMoves, StartRequested, TrialsRead, StartRejected,
      SessionBegins,
      TrialBegins, TrialEnds, TrialUnsaved, SessionEnds, SavingCancelled
<1>12. ASSUME NEW g \in Readers, InterruptedRead(g) PROVE Shape'
  BY <1>12 DEF InterruptedRead
<1>13. ASSUME NEW b \in Saves, SaveRequested(b) PROVE Shape'
  BY <1>13 DEF SaveRequested
<1>14. ASSUME NEW p \in Patches, PatchMoves(p) PROVE Shape'
  BY <1>14 DEF PatchMoves, BenchmarkRead, BenchmarkFound
<1>15. ASSUME NEW d \in Deletes, DeleteRequested(d) PROVE Shape'
  BY <1>15 DEF DeleteRequested
<1>16. CASE TunerStopped
  BY <1>16 DEF TunerStopped
<1> QED
  BY <1>1, <1>2, <1>3, <1>4, <1>5, <1>6, <1>7, <1>8, <1>9, <1>10, <1>11, <1>12,
      <1>13, <1>14, <1>15, <1>16
     DEF Next, Lifespan, Write, RunMoves, StartMoves, PatchMoves

LEMMA BoundsStep ==
  ASSUME TypeInv, Next
  PROVE  Bounds'
<1> USE Distinct DEF TypeInv, TypeOK, Shape, Actors, Clearers, Handlers,
    Writing, RunPlaces, StartPlaces, Writes, Goes, lifeVars, dbVars, localVars,
    tunerVars, ghostVars, Bounds, Same
<1>0. ASSUME NEW a \in Actors, NEW ok \in BOOLEAN, stage[a] # "none", Answers(a, ok)
      PROVE Bounds'
  BY <1>0 DEF Answers, MarkAnswered, ClearAnswered, RecordAnswered,
      ArchiveAnswered, WipeAnswered,
           SaveAnswered, ReportAnswered, ClearerAnswered, OtherAnswered
<1>1. CASE Boot
  BY <1>1 DEF Boot
<1>2. CASE Initialize
  BY <1>2 DEF Initialize
<1>3. CASE DetectInterrupted
  BY <1>3 DEF DetectInterrupted
<1>4. CASE Crash \/ Close
  BY <1>4 DEF Crash, Close, Dies, Fate
<1>5. CASE ShutdownBegins
  BY <1>5 DEF ShutdownBegins
<1>6. CASE PruneBegins
  BY <1>6 DEF PruneBegins
<1>7. ASSUME NEW a \in Actors, Executed(a) PROVE Bounds'
  BY <1>7 DEF Executed
<1>8. ASSUME NEW a \in Actors, Committed(a) PROVE Bounds'
  BY <1>0, <1>8, AnswerCases DEF Committed
<1>9. ASSUME NEW a \in Actors, WriteFailed(a) PROVE Bounds'
  BY <1>0, <1>9, AnswerCases DEF WriteFailed
<1>10. ASSUME NEW r \in Runs, RunMoves(r) PROVE Bounds'
  BY <1>10 DEF RunMoves, RunBegins, RunOver, MarkingCancelled
<1>11. ASSUME NEW s \in Starts, StartMoves(s) PROVE Bounds'
  <2>1. CASE StartRequested(s)
    BY <2>1 DEF StartRequested, Serving
  <2>2. CASE TrialsRead(s)
    <3>1. /\ pc[s] = "reading" /\ pc'[s] \in {"wiping", "archiving"}
          /\ pc' = [pc EXCEPT ![s] = pc'[s]]
          /\ UNCHANGED <<number, taken>>
      BY <2>2 DEF TrialsRead
    <3> QED BY <3>1
  <2>3. CASE StartRejected(s) \/ SessionBegins(s)
    BY <2>3 DEF StartRejected, SessionBegins
  <2>4. CASE TrialBegins(s) \/ TrialEnds(s) \/ TrialUnsaved(s)
    BY <2>4 DEF TrialBegins, TrialEnds, TrialUnsaved
  <2>5. CASE SessionEnds(s) \/ SavingCancelled(s)
    BY <2>5 DEF SessionEnds, SavingCancelled
  <2> QED BY <1>11, <2>1, <2>2, <2>3, <2>4, <2>5 DEF StartMoves
<1>12. ASSUME NEW g \in Readers, InterruptedRead(g) PROVE Bounds'
  BY <1>12 DEF InterruptedRead
<1>13. ASSUME NEW b \in Saves, SaveRequested(b) PROVE Bounds'
  BY <1>13 DEF SaveRequested
<1>14. ASSUME NEW p \in Patches, PatchMoves(p) PROVE Bounds'
  BY <1>14 DEF PatchMoves, BenchmarkRead, BenchmarkFound
<1>15. ASSUME NEW d \in Deletes, DeleteRequested(d) PROVE Bounds'
  BY <1>15 DEF DeleteRequested
<1>16. CASE TunerStopped
  BY <1>16 DEF TunerStopped
<1> QED
  BY <1>1, <1>2, <1>3, <1>4, <1>5, <1>6, <1>7, <1>8, <1>9, <1>10, <1>11, <1>12,
      <1>13, <1>14, <1>15, <1>16
     DEF Next, Lifespan, Write, RunMoves, StartMoves, PatchMoves

LEMMA AsleepStep ==
  ASSUME TypeInv, Next
  PROVE  Asleep'
<1> USE Distinct DEF TypeInv, TypeOK, Shape, Actors, Clearers, Handlers,
    Writing, RunPlaces, StartPlaces, Writes, Goes, lifeVars, dbVars, localVars,
    tunerVars, ghostVars, Asleep, Serving, Tuning
<1>1. CASE Boot
  BY <1>1 DEF Boot
<1>2. CASE Initialize
  BY <1>2 DEF Initialize
<1>3. CASE DetectInterrupted
  BY <1>3 DEF DetectInterrupted
<1>4. CASE Crash \/ Close
  BY <1>4 DEF Crash, Close, Dies, Fate
<1>5. CASE ShutdownBegins
  BY <1>5 DEF ShutdownBegins
<1>6. CASE PruneBegins
  BY <1>6 DEF PruneBegins
<1>7. ASSUME NEW a \in Actors, Executed(a) PROVE Asleep'
  BY <1>7 DEF Executed
<1>8. ASSUME NEW a \in Actors, Committed(a) PROVE Asleep'
  BY <1>8, AnswerCases DEF Committed
<1>9. ASSUME NEW a \in Actors, WriteFailed(a) PROVE Asleep'
  BY <1>9, AnswerCases DEF WriteFailed
<1>10. ASSUME NEW r \in Runs, RunMoves(r) PROVE Asleep'
  BY <1>10 DEF RunMoves, RunBegins, RunOver, MarkingCancelled
<1>11. ASSUME NEW s \in Starts, StartMoves(s) PROVE Asleep'
  BY <1>11 DEF StartMoves, StartRequested, TrialsRead, StartRejected,
      SessionBegins,
      TrialBegins, TrialEnds, TrialUnsaved, SessionEnds, SavingCancelled
<1>12. ASSUME NEW g \in Readers, InterruptedRead(g) PROVE Asleep'
  BY <1>12 DEF InterruptedRead
<1>13. ASSUME NEW b \in Saves, SaveRequested(b) PROVE Asleep'
  BY <1>13 DEF SaveRequested
<1>14. ASSUME NEW p \in Patches, PatchMoves(p) PROVE Asleep'
  BY <1>14 DEF PatchMoves, BenchmarkRead, BenchmarkFound
<1>15. ASSUME NEW d \in Deletes, DeleteRequested(d) PROVE Asleep'
  BY <1>15 DEF DeleteRequested
<1>16. CASE TunerStopped
  BY <1>16 DEF TunerStopped
<1> QED
  BY <1>1, <1>2, <1>3, <1>4, <1>5, <1>6, <1>7, <1>8, <1>9, <1>10, <1>11, <1>12,
      <1>13, <1>14, <1>15, <1>16
     DEF Next, Lifespan, Write, RunMoves, StartMoves, PatchMoves

\* What a database is made of.
LEMMA Fields ==
  ASSUME NEW db \in Databases
  PROVE  /\ db = [open |-> db.open, trials |-> db.trials, archive |-> db.archive,
                  history |-> db.history, bench |-> db.bench]
         /\ db.open \subseteq Runs /\ db.trials \subseteq Trials
         /\ \A h \in db.history : h[2] \in 0 .. MaxClock
         /\ \A m \in db.bench : m \subseteq Patches
BY DEF Databases

\* What was moved away is a database, a corrupted file added to it.
LEMMA MergedTypes ==
  ASSUME NEW x \in Databases, NEW y \in Databases
  PROVE  Merged(x, y) \in Databases
<1>1. DOMAIN x = {"open", "trials", "archive", "history", "bench"}
  BY DEF Databases
<1>2. Merged(x, y) = [f \in {"open", "trials", "archive", "history", "bench"} |-> x[f] \cup y[f]]
  BY <1>1 DEF Merged
<1>3. Merged(x, y) = [open |-> x.open \cup y.open, trials |-> x.trials \cup y.trials,
                      archive |-> x.archive \cup y.archive,
                      history |-> x.history \cup y.history, bench |-> x.bench \cup y.bench]
  BY <1>2
<1> QED BY <1>3 DEF Databases

LEMMA StatementTypes ==
  ASSUME TypeInv, NEW a \in Actors, Executes(a)
  PROVE  seen' \in Databases
<1> USE DEF Databases
<1>1. seen \in Databases
  BY DEF TypeInv, TypeOK
<1>2. CASE a \in Runs
  BY <1>1, <1>2, Distinct DEF TypeInv, TypeOK, Executes, SetRunning,
      ClearRunning, SaveLoadTest, Clearers, Handlers
<1>3. CASE a \in Starts
  <2>1. /\ number[a] \in 0 .. MaxTrials
        /\ (pc[a] = "saving" => number[a] < MaxTrials)
        /\ MaxTrials \in Nat
    BY <1>3, StorageAssumption DEF TypeInv, TypeOK, Bounds
  <2>2. pc[a] = "saving" => <<a, number[a]>> \in Trials
    BY <1>3, <2>1 DEF Trials
  <2>3. copy[a] \subseteq Trials
    BY <1>3 DEF TypeInv, TypeOK
  <2> QED BY <1>1, <1>3, <2>2, <2>3, Distinct DEF Executes, SaveTuningSession,
      ClearTrials, SaveTrial, Clearers, Handlers
<1>4. CASE a \notin Runs \cup Starts
  <2>1. a \in Patches => meta[a] \subseteq Patches
    BY DEF TypeInv, TypeOK
  <2> QED BY <1>1, <1>4, <2>1 DEF Executes, ClearRunning, SaveBenchmark,
      UpdateBenchmarkMetadata, DeleteBenchmark, Prune
<1> QED BY <1>2, <1>3, <1>4

LEMMA DiesTypes == ASSUME TypeInv, Dies PROVE TypeOK'
<1>1. \A a \in Actors : Fate(a) \in Locations
  BY DEF TypeInv, TypeOK, Fate, Locations
<1> QED BY <1>1, StorageAssumption DEF TypeInv, TypeOK, Dies, lifeVars,
    ghostVars

LEMMA TypeStep ==
  ASSUME TypeInv, Next
  PROVE  TypeOK'
<1> USE StorageAssumption, Distinct DEF TypeInv, TypeOK, Shape, Actors,
    Clearers, Handlers, Writing, RunPlaces, StartPlaces, Writes, Goes,
    lifeVars, dbVars, localVars, tunerVars, ghostVars, Same, Locations, Bounds
<1>0. ASSUME NEW a \in Actors, NEW ok \in BOOLEAN, stage[a] # "none",
             Answers(a, ok), disk' \in Databases, UNCHANGED seen,
             failed' = IF ok THEN failed ELSE failed \cup {a}, exposed' \subseteq Trials,
             UNCHANGED <<present, lifeVars, interrupted, copy, meta, threshold, tunerVars, given>>
      PROVE TypeOK'
  <2>1. CASE MarkAnswered(a, ok)
    BY <1>0, <2>1 DEF MarkAnswered
  <2>2. CASE ClearAnswered(a)
    BY <1>0, <2>2 DEF ClearAnswered
  <2>3. CASE RecordAnswered(a)
    BY <1>0, <2>3 DEF RecordAnswered
  <2>4. CASE ArchiveAnswered(a)
    BY <1>0, <2>4 DEF ArchiveAnswered
  <2>5. CASE WipeAnswered(a)
    BY <1>0, <2>5 DEF WipeAnswered
  <2>6. CASE SaveAnswered(a, ok)
    <3>1. number[a] + 1 \in 0 .. MaxTrials /\ <<a, number[a]>> \in Trials
      BY <2>6 DEF SaveAnswered, Trials
    <3> QED BY <1>0, <2>6, <3>1 DEF SaveAnswered
  <2>7. CASE ReportAnswered(a)
    BY <1>0, <2>7 DEF ReportAnswered, ClearerAnswered
  <2>8. CASE OtherAnswered(a)
    BY <1>0, <2>8 DEF OtherAnswered
  <2> QED BY <1>0, <2>1, <2>2, <2>3, <2>4, <2>5, <2>6, <2>7, <2>8 DEF Answers
<1>1. CASE Boot
  BY <1>1 DEF Boot
<1>2. CASE Initialize
  <2>1. EmptyDatabase \in Databases
    BY DEF Databases, EmptyDatabase
  <2>2. aside \in Databases /\ disk \in Databases
    OBVIOUS
  <2>3. Merged(aside, disk) \in Databases
    BY <2>2, MergedTypes
  <2>4. disk' \in Databases /\ seen' \in Databases /\ aside' \in Databases
    BY <1>2, <2>1, <2>2, <2>3 DEF Initialize
  <2>5. /\ life' = "detecting" /\ connected' \in BOOLEAN
        /\ UNCHANGED <<present, lives, interrupted, pc, stage, localVars, tunerVars, ghostVars>>
    BY <1>2 DEF Initialize
  <2> QED BY <2>4, <2>5
<1>3. CASE DetectInterrupted
  BY <1>3, Fields DEF DetectInterrupted
<1>4. CASE Crash \/ Close
  BY <1>4, DiesTypes DEF Crash, Close
<1>5. CASE ShutdownBegins
  <2>1. Prune(seen) \in Databases
    BY DEF Prune, Databases
  <2>2. taken'[Shutdown] \subseteq Runs
    BY <1>5, Fields DEF ShutdownBegins
  <2>3. taken' \in [Clearers -> SUBSET Runs] /\ given' \subseteq Runs
    BY <1>5, <2>2 DEF ShutdownBegins
  <2>4. seen' \in Databases /\ disk' \in Databases
    BY <1>5, <2>1 DEF ShutdownBegins
  <2> QED BY <1>5, <2>3, <2>4 DEF ShutdownBegins
<1>6. CASE PruneBegins
  <2>1. \A t \in Thresholds(seen.history) : t \in 0 .. MaxClock
    <3>1. \A h \in seen.history : h[2] \in 0 .. MaxClock
      <4>1. seen.history \subseteq Runs \X (0 .. MaxClock)
        BY DEF Databases
      <4> QED BY <4>1
    <3> DEFINE G == {g \in seen.history :
                       /\ Cardinality(Newer(g, seen.history)) < Keep
                       /\ Cardinality({f \in seen.history : f[2] >= g[2]}) >= Keep}
    <3>2. Thresholds(seen.history) = {h[2] : h \in G} /\ G \subseteq seen.history
      BY Zenon DEF Thresholds
    <3> HIDE DEF G
    <3> QED BY <3>1, <3>2
  <2> QED BY <1>6, <2>1 DEF PruneBegins
<1>a. ASSUME NEW s \in Starts, pc[s] = "saving" PROVE Crowded(s) \subseteq Trials
  BY <1>a DEF Crowded, Trials
<1>b. Unarchived \subseteq Trials
  BY Fields DEF Unarchived
<1>7. ASSUME NEW a \in Actors, Executed(a) PROVE TypeOK'
  <2>1. exposed' \subseteq Trials
    BY <1>7, <1>a, ExecuteCases DEF Executes
  <2> QED BY <1>7, <2>1, ExecuteCases, StatementTypes
<1>8. ASSUME NEW a \in Actors, Committed(a) PROVE TypeOK'
  <2>1. /\ stage[a] # "none" /\ Answered(a, TRUE)
        /\ disk' \in Databases /\ seen' \in Databases
    BY <1>8 DEF Committed
  <2>2. /\ Answers(a, TRUE)
        /\ failed' = IF TRUE THEN failed ELSE failed \cup {a}
        /\ exposed' = exposed \cup
             (IF pc[a] = "archiving" /\ ~TRUE THEN Unarchived ELSE {})
        /\ UNCHANGED <<present, lifeVars, interrupted, copy, meta, threshold, tunerVars,
                       given>>
    BY <2>1, AnswerCases
  <2>3. exposed' \subseteq Trials
    BY <2>2, <1>b
  <2>4. UNCHANGED seen
    BY <1>8 DEF Committed
  <2> QED BY <1>0, <2>1, <2>2, <2>3, <2>4
<1>9. ASSUME NEW a \in Actors, WriteFailed(a) PROVE TypeOK'
  <2>1. /\ stage[a] # "none" /\ Answered(a, FALSE)
        /\ disk' \in Databases /\ seen' \in Databases
    BY <1>9 DEF WriteFailed
  <2>2. /\ Answers(a, FALSE)
        /\ failed' = IF FALSE THEN failed ELSE failed \cup {a}
        /\ exposed' = exposed \cup
             (IF pc[a] = "archiving" /\ ~FALSE THEN Unarchived ELSE {})
        /\ UNCHANGED <<present, lifeVars, interrupted, copy, meta, threshold, tunerVars,
                       given>>
    BY <2>1, AnswerCases
  <2>3. exposed' \subseteq Trials
    BY <2>2, <1>b
  <2>4. UNCHANGED seen
    BY <1>9 DEF WriteFailed
  <2> QED BY <1>0, <2>1, <2>2, <2>3, <2>4
<1>10. ASSUME NEW r \in Runs, RunMoves(r) PROVE TypeOK'
  BY <1>10, Fields DEF RunMoves, RunBegins, RunOver, MarkingCancelled,
      SetRunning, Databases
<1>11. ASSUME NEW s \in Starts, StartMoves(s) PROVE TypeOK'
  <2>1. CASE StartRequested(s)
    BY <2>1 DEF StartRequested
  <2>2. CASE TrialsRead(s)
    BY <2>2, <1>b, Fields DEF TrialsRead
  <2>3. CASE StartRejected(s)
    BY <2>3 DEF StartRejected
  <2>4. CASE SessionBegins(s)
    BY <2>4 DEF SessionBegins
  <2>5. CASE TrialEnds(s)
    BY <2>5 DEF TrialEnds
  <2>6. CASE SessionEnds(s)
    BY <2>6 DEF SessionEnds
  <2>7. CASE TrialBegins(s)
    BY <2>7 DEF TrialBegins
  <2>8. CASE TrialUnsaved(s)
    <3>1. number[s] + 1 \in 0 .. MaxTrials
      BY <2>8 DEF TrialUnsaved
    <3> QED BY <2>8, <3>1 DEF TrialUnsaved
  <2>9. CASE SavingCancelled(s)
    <3>1. <<s, number[s]>> \in Trials
      BY <2>9 DEF SavingCancelled, Trials
    <3>2. SaveTrial(s, seen) \in Databases
      BY <3>1 DEF SaveTrial, Databases
    <3>3. seen' \in Databases /\ disk' \in Databases /\ exposed' \subseteq Trials
      BY <2>9, <3>2, <1>a DEF SavingCancelled
    <3> QED BY <2>9, <3>3 DEF SavingCancelled
  <2> QED BY <1>11, <2>1, <2>2, <2>3, <2>4, <2>5, <2>6, <2>7, <2>8, <2>9 DEF StartMoves
<1>12. ASSUME NEW g \in Readers, InterruptedRead(g) PROVE TypeOK'
  BY <1>12 DEF InterruptedRead
<1>13. ASSUME NEW b \in Saves, SaveRequested(b) PROVE TypeOK'
  BY <1>13 DEF SaveRequested
<1>14. ASSUME NEW p \in Patches, PatchMoves(p) PROVE TypeOK'
  BY <1>14, Fields DEF PatchMoves, BenchmarkRead, BenchmarkFound
<1>15. ASSUME NEW d \in Deletes, DeleteRequested(d) PROVE TypeOK'
  BY <1>15 DEF DeleteRequested
<1>16. CASE TunerStopped
  BY <1>16 DEF TunerStopped
<1> QED
  BY <1>1, <1>2, <1>3, <1>4, <1>5, <1>6, <1>7, <1>8, <1>9, <1>10, <1>11, <1>12,
      <1>13, <1>14, <1>15, <1>16
     DEF Next, Lifespan, Write, RunMoves, StartMoves, PatchMoves

LEMMA TypeInvStep == ASSUME TypeInv, Next PROVE TypeInv'
BY TypeStep, ShapeStep, BoundsStep, AsleepStep DEF TypeInv

-----------------------------------------------------------------------------
(* The rows' steps *)

\* A step that leaves the runs, their rows and what is said of them alone, but
\* for a commit and for a clearer that is through with a row.
LEMMA RowsQuiet ==
  ASSUME TypeInv, RowsInv, UNCHANGED <<hasId, interrupted, given, aside>>,
         failed \subseteq failed', seen'.open = seen.open,
         disk'.open = disk.open \/ disk'.open = seen.open,
         \A g \in Clearers : taken'[g] \subseteq taken[g],
         \A r \in Runs : pc'[r] = pc[r] /\ (stage'[r] = stage[r] \/ pc[r] = "recording")
  PROVE  RowsInv'
<1> USE DEF RowsInv, Known, Marked
<1>1. RunsInv'
  BY DEF RunsInv, TypeInv, TypeOK, Databases
<1>2. NoFalseAlarm'
  BY DEF NoFalseAlarm, TypeInv, TypeOK
<1> QED BY <1>1, <1>2

LEMMA RowsDies == ASSUME TypeInv, RowsInv, Dies PROVE RowsInv'
<1>1. RunsInv'
  <2>1. \A r \in Runs :
          pc'[r] \in {"idle", "killed", "unclear", "done"} /\ stage'[r] = "none"
    BY DEF Dies, Fate, TypeInv, Shape, RunPlaces, Actors, TypeOK
  <2>2. \A r \in Runs : pc'[r] = "killed" => pc[r] \in {"marking", "running", "killed"}
    BY DEF Dies, Fate, TypeInv, Shape, RunPlaces, Actors, TypeOK
  <2>3. \A r \in Runs : pc[r] \in {"marking", "running", "killed"} => pc'[r] = "killed"
    BY Distinct DEF Dies, Fate, TypeInv, Shape, RunPlaces, Actors, TypeOK
  <2>4. \A r \in Runs : pc[r] \in {"clearing", "unclear"} => pc'[r] = "unclear"
    BY Distinct DEF Dies, Fate, TypeInv, Shape, RunPlaces, Actors, TypeOK
  <2>5. \A r \in Runs : pc'[r] = "idle" => pc[r] = "idle"
    BY Distinct DEF Dies, Fate, TypeInv, Shape, RunPlaces, Actors, TypeOK
  <2> QED BY <2>1, <2>2, <2>3, <2>4, <2>5 DEF RowsInv, RunsInv, Known, Marked,
      Dies, ghostVars, Databases, TypeInv, TypeOK, lifeVars
<1>2. NoFalseAlarm'
  BY DEF Dies, NoFalseAlarm
<1> QED BY <1>1, <1>2 DEF RowsInv

LEMMA RowsStep ==
  ASSUME TypeInv, RowsInv, Next
  PROVE  RowsInv'
<1> USE Distinct DEF TypeInv, TypeOK, Shape, Actors, Clearers, Handlers,
    Writing, RunPlaces, StartPlaces, Writes, Goes, lifeVars, dbVars, localVars,
    tunerVars, ghostVars, Same, Bounds, Asleep, Tuning, Serving
<1>0. ASSUME NEW a \in Actors, NEW ok \in BOOLEAN, stage[a] # "none",
             Answers(a, ok), UNCHANGED <<seen, aside, interrupted, given>>,
             disk' = seen \/ (UNCHANGED disk /\ ~ok),
             ok => stage[a] = "commit",
             failed' = IF ok THEN failed ELSE failed \cup {a}
      PROVE RowsInv'
  <2>1. CASE MarkAnswered(a, ok)
    BY <1>0, <2>1 DEF MarkAnswered, RunsInv, RowsInv, NoFalseAlarm, Known,
        Marked
  <2>2. CASE ClearAnswered(a)
    BY <1>0, <2>2 DEF ClearAnswered, RunsInv, RowsInv, NoFalseAlarm, Known,
        Marked
  <2>3. CASE RecordAnswered(a)
    BY <1>0, <2>3 DEF RecordAnswered, RunsInv, RowsInv, NoFalseAlarm, Known,
        Marked
  <2>4. CASE ArchiveAnswered(a)
    BY <1>0, <2>4, RowsQuiet DEF ArchiveAnswered
  <2>5. CASE WipeAnswered(a)
    BY <1>0, <2>5, RowsQuiet DEF WipeAnswered
  <2>6. CASE SaveAnswered(a, ok)
    BY <1>0, <2>6, RowsQuiet DEF SaveAnswered
  <2>7. CASE ReportAnswered(a)
    BY <1>0, <2>7, RowsQuiet DEF ReportAnswered, ClearerAnswered
  <2>8. CASE OtherAnswered(a)
    BY <1>0, <2>8, RowsQuiet DEF OtherAnswered
  <2> QED BY <1>0, <2>1, <2>2, <2>3, <2>4, <2>5, <2>6, <2>7, <2>8 DEF Answers
<1>1. CASE Boot
  BY <1>1, RowsQuiet DEF Boot
<1>2. CASE Initialize
  BY <1>2 DEF Initialize, EmptyDatabase, Merged, Databases, RunsInv, RowsInv,
      NoFalseAlarm, Known, Marked
<1>3. CASE DetectInterrupted
  <2>1. RunsInv'
    BY <1>3 DEF DetectInterrupted, RunsInv, RowsInv, Known, Marked
  <2>2. \A r \in seen.open : pc[r] \in {"killed", "unclear"} \/ r \in failed
    BY <1>3 DEF DetectInterrupted, RunsInv, RowsInv, Databases
  <2> QED BY <1>3, <2>1, <2>2 DEF DetectInterrupted, RowsInv, NoFalseAlarm
<1>4. CASE Crash \/ Close
  BY <1>4, RowsDies DEF Crash, Close
<1>5. CASE ShutdownBegins
  BY <1>5 DEF ShutdownBegins, Prune, Databases, RunsInv, RowsInv, NoFalseAlarm,
      Known, Marked
<1>6. CASE PruneBegins
  BY <1>6, RowsQuiet DEF PruneBegins
<1>7. ASSUME NEW a \in Actors, Executed(a) PROVE RowsInv'
  <2> USE <1>7, ExecuteCases
  <2>1. Row(a) \in taken[a] \/ pc[a] # "reporting"
    BY DEF Row, Bounds, Clearers
  <2>2. CASE pc[a] \notin {"marking", "clearing", "reporting"}
    <3>1. seen'.open = seen.open
      BY <2>2 DEF Executes, SaveLoadTest, SaveTuningSession, ClearTrials,
          SaveTrial,
                  SaveBenchmark, UpdateBenchmarkMetadata, DeleteBenchmark,
                  Prune, Databases
    <3> QED BY <2>2, <3>1, RowsQuiet DEF Executes
  <2>3. CASE pc[a] \in {"marking", "clearing", "reporting"}
    BY <2>1, <2>3 DEF Executes, SetRunning, ClearRunning, Databases, RunsInv,
        RowsInv, NoFalseAlarm, Known, Marked
  <2> QED BY <2>2, <2>3
<1>8. ASSUME NEW a \in Actors, Committed(a) PROVE RowsInv'
  <2>1. /\ stage[a] = "commit"
        /\ TRUE \in BOOLEAN
        /\ Answered(a, TRUE)
        /\ disk' = seen
        /\ UNCHANGED seen
    BY <1>8 DEF Committed
  <2>2. /\ Answers(a, TRUE) /\ UNCHANGED <<lifeVars, interrupted, given>>
        /\ failed' = IF TRUE THEN failed ELSE failed \cup {a}
    BY <2>1, AnswerCases
  <2>3. UNCHANGED <<seen, aside, interrupted, given>>
    BY <2>1, <2>2
  <2> HIDE DEF RowsInv
  <2> QED BY <1>0, <2>1, <2>2, <2>3
<1>9. ASSUME NEW a \in Actors, WriteFailed(a) PROVE RowsInv'
  BY <1>0, <1>9, AnswerCases DEF WriteFailed
<1>10. ASSUME NEW r \in Runs, RunMoves(r) PROVE RowsInv'
  <2>1. CASE RunBegins(r)
    BY <2>1 DEF RunBegins, RunsInv, RowsInv, NoFalseAlarm, Known, Marked
  <2>2. CASE RunOver(r)
    BY <2>2 DEF RunOver, RunsInv, RowsInv, NoFalseAlarm, Known, Marked
  <2>3. CASE MarkingCancelled(r)
    BY <2>3 DEF MarkingCancelled, SetRunning, Databases, RunsInv, RowsInv,
        NoFalseAlarm, Known, Marked
  <2> QED BY <1>10, <2>1, <2>2, <2>3 DEF RunMoves
<1>11. ASSUME NEW s \in Starts, StartMoves(s) PROVE RowsInv'
  BY <1>11, RowsQuiet DEF SaveTrial, Databases, StartMoves, StartRequested, TrialsRead,
      StartRejected, SessionBegins,
      TrialBegins, TrialEnds, TrialUnsaved, SessionEnds, SavingCancelled
<1>12. ASSUME NEW g \in Readers, InterruptedRead(g) PROVE RowsInv'
  <2>1. g \in Clearers /\ \A r \in Runs : r # g
    OBVIOUS
  <2>2. \A r \in Runs : pc'[r] = pc[r] /\ stage'[r] = stage[r]
    BY <1>12, <2>1 DEF InterruptedRead
  <2>3. \A k \in Clearers : taken'[k] \subseteq given'
    BY <1>12 DEF InterruptedRead, RowsInv, RunsInv
  <2>4. NoFalseAlarm'
    BY <1>12 DEF InterruptedRead, NoFalseAlarm
  <2>5. RunsInv'
    BY <1>12, <2>2, <2>3 DEF InterruptedRead, RowsInv, RunsInv, Known, Marked,
        Databases
  <2> QED BY <2>4, <2>5 DEF RowsInv
<1>13. ASSUME NEW b \in Saves, SaveRequested(b) PROVE RowsInv'
  BY <1>13, RowsQuiet DEF SaveRequested
<1>14. ASSUME NEW p \in Patches, PatchMoves(p) PROVE RowsInv'
  BY <1>14, RowsQuiet DEF PatchMoves, BenchmarkRead, BenchmarkFound
<1>15. ASSUME NEW d \in Deletes, DeleteRequested(d) PROVE RowsInv'
  BY <1>15, RowsQuiet DEF DeleteRequested
<1>16. CASE TunerStopped
  BY <1>16, RowsQuiet DEF TunerStopped
<1> QED
  BY <1>1, <1>2, <1>3, <1>4, <1>5, <1>6, <1>7, <1>8, <1>9, <1>10, <1>11, <1>12,
      <1>13, <1>14, <1>15, <1>16
     DEF Next, Lifespan, Write, RunMoves, StartMoves, PatchMoves

-----------------------------------------------------------------------------
(* The trials' steps *)

\* A start moves on without anything having to be archived first: its request
\* or session ends, or it stays, or it goes to its next trial.
Easy(s) ==
  \/ pc'[s] \in {"idle", "reading", "done"}
  \/ pc'[s] = pc[s] /\ stage'[s] = stage[s] /\ number'[s] = number[s]
  \/ /\ pc[s] \in {"wiping", "starting", "trying", "evaluating"}
     /\ pc'[s] \in {"starting", "trying", "evaluating"}
     /\ number'[s] \in {number[s], number[s] + 1}
  \/ /\ pc[s] = "evaluating" /\ pc'[s] = "saving"
     /\ stage'[s] = "execute" /\ number'[s] = number[s]

\* A step that leaves the trials alone, but for a commit.
LEMMA TrialsQuiet ==
  ASSUME TypeInv, TrialsInv, UNCHANGED <<copy, saved, aside, exposed>>,
         seen'.trials = seen.trials, seen'.archive = seen.archive,
         \/ disk'.trials = disk.trials /\ disk'.archive = disk.archive
         \/ disk'.trials = seen.trials /\ disk'.archive = seen.archive,
         \A s \in Starts : Easy(s)
  PROVE  TrialsInv'
<1>1. Copied'
  BY DEF TrialsInv, Copied, Easy
<1>2. Covered'
  <2> SUFFICES ASSUME NEW u \in Starts, PastLook(u)',
                      pc'[u] = "archiving" => stage'[u] = "commit",
                      NEW t \in seen.trials \ exposed
               PROVE  InArchive(t, seen)' \/ OwnTrial(u, t)'
    BY DEF Covered
  <2>1. PastLook(u) /\ (pc[u] = "archiving" => stage[u] = "commit")
    BY DEF PastLook, Easy
  <2>2. InArchive(t, seen) \/ OwnTrial(u, t)
    BY <2>1 DEF TrialsInv, Covered
  <2>3. CASE InArchive(t, seen)
    BY <2>3 DEF InArchive
  <2>4. CASE OwnTrial(u, t)
    <3>1. t[2] \in Int /\ number[u] \in Int
      BY StorageAssumption DEF TypeInv, TypeOK, Databases, Trials
    <3> QED BY <2>4, <3>1 DEF OwnTrial, Easy, PastLook
  <2> QED BY <2>2, <2>3, <2>4
<1>3. Latest'
  BY DEF TrialsInv, Latest, Easy, InArchive
<1>4. \A t \in saved' \ exposed' : Kept(t)'
  BY DEF TrialsInv, Kept, InArchive
<1> QED BY <1>1, <1>2, <1>3, <1>4 DEF TrialsInv

LEMMA TrialsDies == ASSUME TypeInv, TrialsInv, Dies PROVE TrialsInv'
<1>1. \A u \in Starts : pc'[u] \in {"idle", "done"}
  BY Distinct DEF Dies, Fate, Actors, TypeInv, Shape, StartPlaces
<1>2. \A t \in saved' \ exposed' : Kept(t)'
  BY DEF TrialsInv, Kept, InArchive, Dies, ghostVars
<1> QED BY <1>1, <1>2 DEF TrialsInv, Copied, Covered, Latest, PastLook

\* What a start archives is all that is in the table and not exposed.
LEMMA ArchivingStep ==
  ASSUME TypeInv, TrialsInv, NEW a \in Starts, pc[a] = "archiving",
         seen' = SaveTuningSession(a, seen), stage' = [stage EXCEPT ![a] = "commit"],
         UNCHANGED <<disk, aside, pc, copy, number, saved, exposed>>
  PROVE  TrialsInv'
<1>1. /\ seen'.trials = seen.trials
      /\ seen'.archive = seen.archive \cup {[by |-> a, trials |-> copy[a]]}
  BY DEF SaveTuningSession, TypeInv, TypeOK, Databases
<1>2. \A s \in Starts \ {a} : stage'[s] = stage[s]
  BY DEF TypeInv, TypeOK, Actors
<1>3. \A t : InArchive(t, seen) => InArchive(t, seen)'
  BY <1>1 DEF InArchive
<1>4. (Copied /\ Latest)'
  BY <1>1, <1>2, <1>3 DEF TrialsInv, Copied, Latest
<1>5. Covered'
  <2> SUFFICES ASSUME NEW u \in Starts, PastLook(u)',
                      pc'[u] = "archiving" => stage'[u] = "commit",
                      NEW t \in seen.trials \ exposed
               PROVE  InArchive(t, seen)' \/ OwnTrial(u, t)'
    BY <1>1 DEF Covered
  <2>1. CASE u = a
    <3>1. t \in copy[a]
      BY DEF TrialsInv, Copied
    <3>2. [by |-> a, trials |-> copy[a]] \in seen'.archive
      BY <1>1
    <3>3. \E x \in seen'.archive : t \in x.trials
      BY <3>1, <3>2
    <3> QED BY <3>3 DEF InArchive
  <2>2. CASE u # a
    BY <1>2, <1>3, <2>2 DEF TrialsInv, Covered, OwnTrial, PastLook
  <2> QED BY <2>1, <2>2
<1>6. \A t \in saved' \ exposed' : Kept(t)'
  BY <1>1 DEF TrialsInv, Kept, InArchive
<1> QED BY <1>4, <1>5, <1>6 DEF TrialsInv

\* What is wiped is archived or exposed.
LEMMA WipingStep ==
  ASSUME TypeInv, TrialsInv, NEW a \in Starts, pc[a] = "wiping",
         seen' = ClearTrials(seen), stage' = [stage EXCEPT ![a] = "commit"],
         UNCHANGED <<disk, aside, pc, copy, number, saved, exposed>>
  PROVE  TrialsInv'
<1>1. seen'.trials = {} /\ seen'.archive = seen.archive
  BY DEF ClearTrials, TypeInv, TypeOK, Databases
<1>2. \A s \in Starts \ {a} : stage'[s] = stage[s]
  BY DEF TypeInv, TypeOK, Actors
<1>3. (Copied /\ Covered)'
  BY <1>1 DEF TrialsInv, Copied, Covered
<1>4. \A t \in seen.trials \ exposed : InArchive(t, seen)
  <2> TAKE t \in seen.trials \ exposed
  <2>1. InArchive(t, seen) \/ OwnTrial(a, t)
    BY DEF TrialsInv, Covered, PastLook
  <2>2. number[a] = 0 /\ t[2] \in Nat
    BY StorageAssumption DEF TypeInv, Bounds, TypeOK, Databases, Trials
  <2> QED BY <2>1, <2>2 DEF OwnTrial
<1>5. Latest'
  BY <1>1, <1>2, <1>4 DEF TrialsInv, Latest, InArchive
<1>6. \A t \in saved' \ exposed' : Kept(t)'
  BY <1>1, <1>4 DEF TrialsInv, Kept, InArchive
<1> QED BY <1>3, <1>5, <1>6 DEF TrialsInv

\* A trial that is saved replaces what is archived or exposed: no session uses
\* a number twice. It is itself exposed if another start has read the table.
LEMMA SavingStep ==
  ASSUME TypeInv, TrialsInv, NEW a \in Starts, pc[a] = "saving", stage[a] = "execute",
         seen' = SaveTrial(a, seen), exposed' = exposed \cup Crowded(a),
         UNCHANGED <<disk, aside, copy, number, saved>>,
         \A s \in Starts \ {a} : pc'[s] = pc[s] /\ stage'[s] = stage[s],
         \/ pc'[a] = "saving" /\ stage'[a] = "commit"
         \/ pc'[a] = "done"
  PROVE  TrialsInv'
<1> DEFINE new == <<a, number[a]>>
<1>1. /\ seen'.trials = {t \in seen.trials : t[2] # number[a]} \cup {new}
      /\ seen'.archive = seen.archive
  BY DEF SaveTrial, TypeInv, TypeOK, Databases
<1>2. \A t : InArchive(t, seen)' <=> InArchive(t, seen)
  BY <1>1 DEF InArchive
<1>3. \A u \in Starts \ {a} : PastLook(u)' => new \in exposed'
  BY DEF PastLook, Crowded
<1>4. \A t \in seen.trials \ exposed :
        InArchive(t, seen) \/ (t[1] = a /\ t[2] < number[a])
  BY DEF TrialsInv, Covered, PastLook, OwnTrial
<1>5. \A t \in seen.trials \ exposed : t \in seen'.trials \/ InArchive(t, seen)
  <2> TAKE t \in seen.trials \ exposed
  <2>1. t[2] \in Int /\ number[a] \in Int
    BY StorageAssumption DEF TypeInv, TypeOK, Databases, Trials
  <2> QED BY <1>1, <1>4, <2>1
<1>6. Copied'
  <2> SUFFICES ASSUME NEW u \in Starts, pc'[u] = "archiving"
               PROVE  seen'.trials \ exposed' \subseteq copy[u]
    BY DEF Copied
  <2>1. pc[u] = "archiving" /\ new \in exposed'
    BY <1>3 DEF PastLook
  <2> QED BY <1>1, <2>1 DEF TrialsInv, Copied
<1>7. Covered'
  <2> SUFFICES ASSUME NEW u \in Starts, PastLook(u)',
                      pc'[u] = "archiving" => stage'[u] = "commit",
                      NEW t \in seen'.trials \ exposed'
               PROVE  InArchive(t, seen) \/ OwnTrial(u, t)'
    BY <1>2 DEF Covered
  <2>1. CASE u = a
    <3>1. CASE t = new
      BY <2>1, <3>1 DEF OwnTrial, PastLook
    <3>2. CASE t # new
      BY <1>1, <1>4, <2>1, <3>2 DEF OwnTrial
    <3> QED BY <3>1, <3>2
  <2>2. CASE u # a
    <3>1. t \in seen.trials \ exposed
      BY <1>1, <1>3, <2>2
    <3>2. InArchive(t, seen) \/ OwnTrial(u, t)
      BY <2>2, <3>1 DEF TrialsInv, Covered, PastLook
    <3> QED BY <2>2, <3>2 DEF OwnTrial
  <2> QED BY <2>1, <2>2
<1>8. Latest'
  <2> SUFFICES ASSUME NEW s \in Starts, pc'[s] = "saving", stage'[s] = "commit"
               PROVE  \/ <<s, number[s]>> \in exposed' \cup seen'.trials
                      \/ InArchive(<<s, number[s]>>, seen)
    BY <1>2 DEF Latest
  <2>1. CASE s = a
    BY <1>1, <2>1
  <2>2. CASE s # a
    BY <1>5, <2>2 DEF TrialsInv, Latest
  <2> QED BY <2>1, <2>2
<1>9. \A t \in saved' \ exposed' : Kept(t)'
  <2> TAKE t \in saved' \ exposed'
  <2>1. Kept(t)
    BY DEF TrialsInv
  <2>2. t \in seen.trials => t \in seen'.trials \/ InArchive(t, seen)
    BY <1>5
  <2> QED BY <1>2, <2>1, <2>2 DEF Kept, InArchive
<1> QED BY <1>6, <1>7, <1>8, <1>9 DEF TrialsInv

\* What is answered about an archive: it holds what is not exposed, or all is.
LEMMA ArchiveAnswers ==
  ASSUME TypeInv, TrialsInv, NEW a \in Actors, NEW ok \in BOOLEAN, ArchiveAnswered(a),
         ok => stage[a] = "commit", UNCHANGED <<seen, aside, copy>>,
         disk' = seen \/ disk' = disk,
         exposed' = exposed \cup (IF ok THEN {} ELSE seen.trials)
  PROVE  TrialsInv'
<1>1. /\ a \in Starts /\ pc[a] = "archiving" /\ pc'[a] = "wiping" /\ stage'[a] = "execute"
      /\ \A s \in Starts \ {a} : pc'[s] = pc[s] /\ stage'[s] = stage[s]
      /\ UNCHANGED <<number, saved>>
  BY DEF ArchiveAnswered, Writes, Same, TypeInv, TypeOK, Actors
<1>2. (Copied /\ Latest)'
  BY <1>1 DEF TrialsInv, Copied, Latest, InArchive
<1>3. Covered'
  <2> SUFFICES ASSUME NEW u \in Starts, PastLook(u)',
                      pc'[u] = "archiving" => stage'[u] = "commit",
                      NEW t \in seen.trials \ exposed'
               PROVE  InArchive(t, seen) \/ OwnTrial(u, t)'
    BY DEF Covered, InArchive
  <2>1. InArchive(t, seen) \/ OwnTrial(u, t)
    BY <1>1 DEF TrialsInv, Covered, PastLook
  <2> QED BY <1>1, <2>1 DEF OwnTrial
<1>4. \A t \in saved' \ exposed' : Kept(t)'
  BY <1>1 DEF TrialsInv, Kept, InArchive
<1> QED BY <1>2, <1>3, <1>4 DEF TrialsInv

\* What is answered about a trial: it is durable unless it was exposed, and its
\* number is not used again.
LEMMA SaveAnswers ==
  ASSUME TypeInv, TrialsInv, NEW a \in Actors, NEW ok \in BOOLEAN, SaveAnswered(a, ok),
         ok => stage[a] = "commit" /\ disk' = seen, disk' = seen \/ disk' = disk,
         UNCHANGED <<seen, aside, copy, exposed>>
  PROVE  TrialsInv'
<1>1. /\ a \in Starts /\ pc[a] = "saving" /\ pc'[a] = "trying"
      /\ \A s \in Starts \ {a} :
           pc'[s] = pc[s] /\ stage'[s] = stage[s] /\ number'[s] = number[s]
      /\ number'[a] = number[a] + 1
  BY DEF SaveAnswered, Goes, TypeInv, TypeOK, Actors
<1>2. (Copied /\ Latest)'
  BY <1>1 DEF TrialsInv, Copied, Latest, InArchive
<1>3. Covered'
  <2> SUFFICES ASSUME NEW u \in Starts, PastLook(u)',
                      pc'[u] = "archiving" => stage'[u] = "commit",
                      NEW t \in seen.trials \ exposed
               PROVE  InArchive(t, seen) \/ OwnTrial(u, t)'
    BY DEF Covered, InArchive
  <2>1. InArchive(t, seen) \/ OwnTrial(u, t)
    BY <1>1 DEF TrialsInv, Covered, PastLook
  <2>2. t[2] \in Int /\ number[a] \in Int
    BY <1>1, StorageAssumption DEF TypeInv, TypeOK, Databases, Trials
  <2>3. CASE u = a
    BY <1>1, <2>1, <2>2, <2>3 DEF OwnTrial
  <2>4. CASE u # a
    BY <1>1, <2>1, <2>4 DEF OwnTrial
  <2> QED BY <2>3, <2>4
<1>4. ASSUME NEW t \in saved' \ exposed' PROVE Kept(t)'
  <2>1. CASE t \in saved
    BY <2>1 DEF TrialsInv, Kept, InArchive
  <2>2. CASE t = <<a, number[a]>> /\ ok
    BY <1>1, <2>2 DEF TrialsInv, Latest, Kept, InArchive
  <2> QED BY <2>1, <2>2 DEF SaveAnswered
<1> QED BY <1>2, <1>3, <1>4 DEF TrialsInv

\* A start reads the table: what it will not archive is exposed.
LEMMA ReadingStep ==
  ASSUME TypeInv, TrialsInv, NEW s \in Starts, TrialsRead(s)
  PROVE  TrialsInv'
<1> DEFINE Q == \/ copy'[s] = seen.trials /\ UNCHANGED exposed
                \/ copy'[s] = {} /\ exposed' = exposed \cup seen.trials
<1>1. /\ pc[s] = "reading" /\ stage'[s] = "execute"
      /\ pc'[s] = IF copy'[s] = {} THEN "wiping" ELSE "archiving"
      /\ \A u \in Starts \ {s} :
           pc'[u] = pc[u] /\ stage'[u] = stage[u] /\ copy'[u] = copy[u]
      /\ UNCHANGED <<seen, disk, aside, number, saved>>
  BY DEF TrialsRead, Writes, TypeInv, TypeOK, Actors, dbVars, lifeVars
<1>2. Q
  BY DEF TrialsRead, TypeInv, TypeOK, Unarchived
<1>3. exposed \subseteq exposed'
  BY <1>2
<1>4. Copied'
  BY <1>1, <1>2 DEF TrialsInv, Copied
<1>5. Covered'
  <2> SUFFICES ASSUME NEW u \in Starts, PastLook(u)',
                      pc'[u] = "archiving" => stage'[u] = "commit",
                      NEW t \in seen.trials \ exposed'
               PROVE  InArchive(t, seen) \/ OwnTrial(u, t)'
    BY <1>1 DEF Covered, InArchive
  <2>1. u # s
    BY <1>1, <1>2
  <2>2. InArchive(t, seen) \/ OwnTrial(u, t)
    BY <1>1, <1>3, <2>1 DEF TrialsInv, Covered, PastLook
  <2> QED BY <1>1, <2>1, <2>2 DEF OwnTrial
<1>6. Latest'
  BY <1>1, <1>3 DEF TrialsInv, Latest, InArchive
<1>7. \A t \in saved' \ exposed' : Kept(t)'
  BY <1>1, <1>3 DEF TrialsInv, Kept, InArchive
<1> QED BY <1>4, <1>5, <1>6, <1>7 DEF TrialsInv

LEMMA TrialsStep ==
  ASSUME TypeInv, TrialsInv, Next
  PROVE  TrialsInv'
<1> USE Distinct DEF TypeInv, TypeOK, Shape, Actors, Clearers, Handlers,
    Writing, RunPlaces, StartPlaces, Writes, Goes, lifeVars, dbVars, localVars,
    tunerVars, ghostVars, Same, Easy
<1>0. ASSUME NEW a \in Actors, NEW ok \in BOOLEAN, stage[a] # "none", Answers(a, ok),
             UNCHANGED <<seen, aside, copy>>, disk' = seen \/ disk' = disk,
             ok => stage[a] = "commit" /\ disk' = seen,
             exposed' = exposed \cup (IF pc[a] = "archiving" /\ ~ok THEN seen.trials ELSE {})
      PROVE TrialsInv'
  <2> HIDE DEF TrialsInv
  <2>0. pc[a] # "archiving" => exposed' = exposed
    BY <1>0
  <2>1. CASE MarkAnswered(a, ok)
    BY <1>0, <2>0, <2>1, TrialsQuiet DEF MarkAnswered
  <2>2. CASE ClearAnswered(a)
    BY <1>0, <2>0, <2>2, TrialsQuiet DEF ClearAnswered
  <2>3. CASE RecordAnswered(a)
    BY <1>0, <2>0, <2>3, TrialsQuiet DEF RecordAnswered
  <2>4. CASE ArchiveAnswered(a)
    <3>1. exposed' = exposed \cup (IF ok THEN {} ELSE seen.trials)
      BY <1>0, <2>4 DEF ArchiveAnswered
    <3> QED BY <1>0, <2>4, <3>1, ArchiveAnswers
  <2>5. CASE WipeAnswered(a)
    BY <1>0, <2>0, <2>5, TrialsQuiet DEF WipeAnswered
  <2>6. CASE SaveAnswered(a, ok)
    <3>1. exposed' = exposed
      BY <2>0, <2>6 DEF SaveAnswered
    <3> QED BY <1>0, <2>6, <3>1, SaveAnswers
  <2>7. CASE ReportAnswered(a)
    BY <1>0, <2>0, <2>7, TrialsQuiet DEF ReportAnswered, ClearerAnswered
  <2>8. CASE OtherAnswered(a)
    BY <1>0, <2>0, <2>8, TrialsQuiet DEF OtherAnswered
  <2> QED BY <1>0, <2>1, <2>2, <2>3, <2>4, <2>5, <2>6, <2>7, <2>8 DEF Answers
<1>1. CASE Boot
  BY <1>1, TrialsQuiet DEF Boot
<1>2. CASE Initialize
  <2>1. CASE UNCHANGED <<dbVars, aside>>
    BY <1>2, <2>1, TrialsQuiet DEF Initialize
  <2>2. CASE aside' = Merged(aside, disk)
    <3>1. /\ aside'.trials = aside.trials \cup disk.trials
          /\ aside'.archive = aside.archive \cup disk.archive
      BY <2>2 DEF Merged, Databases
    <3>2. \A t \in saved \ exposed : Kept(t)'
      BY <3>1 DEF Kept, InArchive, TrialsInv
    <3>3. \A u \in Starts : pc'[u] \in {"idle", "done"}
      BY <1>2 DEF Initialize, Asleep
    <3> QED BY <1>2, <3>2, <3>3 DEF Initialize, Copied, Covered, PastLook, Latest, TrialsInv
  <2> QED BY <1>2, <2>1, <2>2 DEF Initialize
<1>3. CASE DetectInterrupted
  BY <1>3, TrialsQuiet DEF DetectInterrupted
<1>4. CASE Crash \/ Close
  BY <1>4, TrialsDies DEF Crash, Close
<1>5. CASE ShutdownBegins
  BY <1>5, TrialsQuiet DEF ShutdownBegins, Prune, Databases
<1>6. CASE PruneBegins
  BY <1>6, TrialsQuiet DEF PruneBegins
<1>7. ASSUME NEW a \in Actors, Executed(a) PROVE TrialsInv'
  <2> USE <1>7, ExecuteCases
  <2>0. IF pc[a] = "saving" THEN exposed' = exposed \cup Crowded(a) ELSE exposed' = exposed
    <3>1. exposed' = exposed \cup (IF pc[a] = "saving" THEN Crowded(a) ELSE {})
      OBVIOUS
    <3> QED BY <3>1
  <2>1. CASE a \in Starts /\ pc[a] = "archiving" /\ seen' = SaveTuningSession(a, seen)
    BY <2>0, <2>1, ArchivingStep
  <2>2. CASE a \in Starts /\ pc[a] = "wiping" /\ seen' = ClearTrials(seen)
    BY <2>0, <2>2, WipingStep
  <2>3. CASE a \in Starts /\ pc[a] = "saving" /\ seen' = SaveTrial(a, seen)
    BY <2>0, <2>3, SavingStep
  <2>4. CASE a \notin Starts
    <3>1. /\ seen'.trials = seen.trials /\ seen'.archive = seen.archive
          /\ exposed' = exposed
      BY <2>0, <2>4 DEF Executes, SetRunning, ClearRunning, SaveLoadTest,
          SaveBenchmark, UpdateBenchmarkMetadata, DeleteBenchmark, Prune, Databases
    <3> QED BY <2>4, <3>1, TrialsQuiet
  <2> QED BY <2>1, <2>2, <2>3, <2>4 DEF Executes
<1>8. ASSUME NEW a \in Actors, Committed(a) PROVE TrialsInv'
  <2>1. stage[a] # "none" /\ Answered(a, TRUE) /\ disk' = seen /\ UNCHANGED seen
    BY <1>8 DEF Committed
  <2>2. /\ Answers(a, TRUE) /\ UNCHANGED <<aside, copy>>
        /\ exposed' = exposed \cup (IF pc[a] = "archiving" /\ ~TRUE THEN seen.trials ELSE {})
    BY <2>1, AnswerCases DEF Unarchived
  <2>3. stage[a] = "commit"
    BY <1>8 DEF Committed
  <2> HIDE DEF TrialsInv
  <2> QED BY <1>0, <2>1, <2>2, <2>3
<1>9. ASSUME NEW a \in Actors, WriteFailed(a) PROVE TrialsInv'
  <2>1. stage[a] # "none" /\ Answered(a, FALSE) /\ UNCHANGED <<seen, disk>>
    BY <1>9 DEF WriteFailed
  <2>2. /\ Answers(a, FALSE) /\ UNCHANGED <<aside, copy>>
        /\ exposed' = exposed \cup (IF pc[a] = "archiving" /\ ~FALSE THEN seen.trials ELSE {})
    BY <2>1, AnswerCases DEF Unarchived
  <2> HIDE DEF TrialsInv
  <2> QED BY <1>0, <2>1, <2>2
<1>10. ASSUME NEW r \in Runs, RunMoves(r) PROVE TrialsInv'
  BY <1>10, TrialsQuiet DEF RunMoves, RunBegins, RunOver, MarkingCancelled,
      SetRunning, Databases
<1>11. ASSUME NEW s \in Starts, StartMoves(s) PROVE TrialsInv'
  <2>1. CASE TrialsRead(s)
    BY <2>1, ReadingStep
  <2>2. CASE SavingCancelled(s)
    <3>1. /\ pc[s] = "saving" /\ pc'[s] = "done"
          /\ UNCHANGED <<aside, copy, number, saved>>
          /\ \A u \in Starts \ {s} : pc'[u] = pc[u] /\ stage'[u] = stage[u]
      BY <2>2 DEF SavingCancelled
    <3>2. CASE stage[s] = "execute"
      <4>1. /\ seen' = SaveTrial(s, seen) /\ exposed' = exposed \cup Crowded(s)
            /\ UNCHANGED disk
        BY <2>2, <3>2 DEF SavingCancelled
      <4> QED BY <3>1, <3>2, <4>1, SavingStep
    <3>3. CASE stage[s] # "execute"
      <4>1. disk' = seen /\ UNCHANGED <<seen, exposed>>
        BY <2>2, <3>3 DEF SavingCancelled
      <4> QED BY <3>1, <4>1, TrialsQuiet
    <3> QED BY <3>2, <3>3
  <2>3. CASE StartRequested(s) \/ StartRejected(s) \/ SessionEnds(s)
    BY <2>3, TrialsQuiet DEF StartRequested, StartRejected, SessionEnds
  <2>4. CASE SessionBegins(s) \/ TrialBegins(s)
    BY <2>4, TrialsQuiet DEF SessionBegins, TrialBegins
  <2>5. CASE TrialEnds(s)
    BY <2>5, TrialsQuiet DEF TrialEnds
  <2>6. CASE TrialUnsaved(s)
    BY <2>6, TrialsQuiet DEF TrialUnsaved
  <2> QED BY <1>11, <2>1, <2>2, <2>3, <2>4, <2>5, <2>6 DEF StartMoves
<1>12. ASSUME NEW g \in Readers, InterruptedRead(g) PROVE TrialsInv'
  BY <1>12, TrialsQuiet DEF InterruptedRead
<1>13. ASSUME NEW b \in Saves, SaveRequested(b) PROVE TrialsInv'
  BY <1>13, TrialsQuiet DEF SaveRequested
<1>14. ASSUME NEW p \in Patches, PatchMoves(p) PROVE TrialsInv'
  BY <1>14, TrialsQuiet DEF PatchMoves, BenchmarkRead, BenchmarkFound
<1>15. ASSUME NEW d \in Deletes, DeleteRequested(d) PROVE TrialsInv'
  BY <1>15, TrialsQuiet DEF DeleteRequested
<1>16. CASE TunerStopped
  BY <1>16, TrialsQuiet DEF TunerStopped
<1> QED
  BY <1>1, <1>2, <1>3, <1>4, <1>5, <1>6, <1>7, <1>8, <1>9, <1>10, <1>11, <1>12,
      <1>13, <1>14, <1>15, <1>16
     DEF Next, Lifespan, Write, RunMoves, StartMoves, PatchMoves

-----------------------------------------------------------------------------
(* The history's steps *)

\* A step that leaves the history alone, but for a commit.
LEMMA HistoryQuiet ==
  ASSUME HistoryInv, seen'.history = seen.history,
         disk'.history = disk.history \/ disk'.history = seen.history,
         pc'[Monitor] = "pruning" => pc[Monitor] = "pruning" /\ threshold' = threshold
  PROVE  HistoryInv'
<1>1. disk'.history \ seen'.history \subseteq disk.history \ seen.history
  OBVIOUS
<1> QED BY <1>1 DEF HistoryInv, Newest, Newer

\* More rows hide no row from those that count the newer ones.
LEMMA MoreRows ==
  ASSUME NEW S, NEW T, IsFiniteSet(T), S \subseteq T, Cardinality(S) >= Keep
  PROVE  Cardinality(T) >= Keep
<1>1. /\ Cardinality(S) <= Cardinality(T)
      /\ Cardinality(S) \in Nat
      /\ Cardinality(T) \in Nat
  BY FS_Subset, FS_CardinalityType
<1> QED BY <1>1, StorageAssumption

\* What is recorded between the threshold and the delete is one more row.
LEMMA SaveKeeps ==
  ASSUME TypeInv, HistoryInv, NEW r \in Runs, seen' = SaveLoadTest(r, seen),
         UNCHANGED <<disk, threshold, pc>>
  PROVE  HistoryInv'
<1>1. seen'.history = seen.history \cup {<<r, stamp[r]>>}
  BY DEF SaveLoadTest, TypeInv, TypeOK, Databases
<1>2. IsFiniteSet(seen'.history)
  BY <1>1, FS_AddElement DEF HistoryInv
<1>3. /\ Newest(seen, threshold) \subseteq Newest(seen', threshold)
      /\ IsFiniteSet(Newest(seen', threshold))
  BY <1>1, <1>2, FS_Subset DEF Newest
<1>4. ASSUME NEW h \in disk.history \ seen'.history
      PROVE  Cardinality(Newer(h, seen'.history)) >= Keep
  <2>1. /\ Newer(h, seen.history) \subseteq Newer(h, seen'.history)
        /\ IsFiniteSet(Newer(h, seen'.history))
    BY <1>1, <1>2, FS_Subset DEF Newer
  <2>2. Cardinality(Newer(h, seen.history)) >= Keep
    BY <1>1, <1>4 DEF HistoryInv
  <2> QED BY <2>1, <2>2, MoreRows
<1>5. pc'[Monitor] = "pruning" => Cardinality(Newest(seen', threshold')) >= Keep
  BY <1>3, MoreRows DEF HistoryInv
<1>6. Newest(seen, threshold)' = Newest(seen', threshold')
  BY DEF Newest
<1> QED BY <1>2, <1>4, <1>5, <1>6 DEF HistoryInv

\* The rows that count as the newest are spared, and those that go have them
\* all for newer ones.
LEMMA PruneKeeps ==
  ASSUME TypeInv, HistoryInv, pc[Monitor] = "pruning", seen' = Prune(seen),
         disk' = disk \/ disk' = seen, UNCHANGED threshold
  PROVE  HistoryInv'
<1>1. seen'.history = {h \in seen.history : h[2] >= threshold}
  BY DEF Prune, TypeInv, TypeOK, Databases
<1>2. IsFiniteSet(seen'.history) /\ IsFiniteSet(disk'.history)
  BY <1>1, FS_Subset DEF HistoryInv
<1>3. /\ Newest(seen', threshold) = Newest(seen, threshold)
      /\ seen'.history = Newest(seen, threshold)
  BY <1>1 DEF Newest
<1>4. ASSUME NEW h \in disk'.history \ seen'.history
      PROVE  Cardinality(Newer(h, seen'.history)) >= Keep
  <2>1. /\ h \in Runs \X (0 .. MaxClock)
        /\ seen.history \subseteq Runs \X (0 .. MaxClock)
        /\ threshold \in 0 .. MaxClock
    BY DEF TypeInv, TypeOK, Databases
  <2>2. CASE h[2] >= threshold
    <3>1. h \in disk.history \ seen.history
      BY <1>1, <2>2, <1>4
    <3>2. Newer(h, seen'.history) = Newer(h, seen.history)
      BY <1>1, <2>1, <2>2, StorageAssumption DEF Newer
    <3> QED BY <3>1, <3>2 DEF HistoryInv
  <2>3. CASE ~(h[2] >= threshold)
    <3>1. Newest(seen, threshold) \subseteq Newer(h, seen'.history)
      BY <1>1, <2>1, <2>3, StorageAssumption DEF Newer, Newest
    <3>2. IsFiniteSet(Newer(h, seen'.history))
      BY <1>2, FS_Subset DEF Newer
    <3> QED BY <3>1, <3>2, MoreRows DEF HistoryInv
  <2> QED BY <2>2, <2>3
<1>5. Cardinality(Newest(seen', threshold')) >= Keep
  BY <1>3 DEF HistoryInv
<1>6. Newest(seen, threshold)' = Newest(seen', threshold')
  BY DEF Newest
<1> QED BY <1>2, <1>4, <1>5, <1>6 DEF HistoryInv

\* The threshold spares keep_count rows.
LEMMA ThresholdKeeps ==
  ASSUME NEW rows, NEW t \in Thresholds(rows)
  PROVE  Cardinality({h \in rows : h[2] >= t}) >= Keep
<1> DEFINE G == {g \in rows : /\ Cardinality(Newer(g, rows)) < Keep
                              /\ Cardinality({f \in rows : f[2] >= g[2]}) >= Keep}
<1>1. Thresholds(rows) = {h[2] : h \in G}
  BY Zenon DEF Thresholds
<1>2. \A g \in G : Cardinality({f \in rows : f[2] >= g[2]}) >= Keep
  BY Zenon
<1> HIDE DEF G
<1>3. PICK g \in G : t = g[2]
  BY <1>1
<1> QED BY <1>2, <1>3

LEMMA HistoryDies == ASSUME TypeInv, HistoryInv, Dies PROVE HistoryInv'
<1>1. /\ seen'.history = disk.history
      /\ disk'.history = disk.history
      /\ pc'[Monitor] # "pruning"
  BY DEF Dies, Fate, Actors, TypeInv, TypeOK
<1> QED BY <1>1 DEF HistoryInv

LEMMA HistoryStep ==
  ASSUME TypeInv, HistoryInv, Next
  PROVE  HistoryInv'
<1> USE Distinct DEF TypeInv, TypeOK, Shape, Actors, Clearers, Handlers,
    Writing, RunPlaces, StartPlaces, Writes, Goes, lifeVars, dbVars, localVars,
    tunerVars, ghostVars, Same
<1>0. ASSUME NEW a \in Actors, NEW ok \in BOOLEAN, stage[a] # "none",
             Answers(a, ok), UNCHANGED <<seen, threshold>>,
             disk' = seen \/ disk' = disk
      PROVE HistoryInv'
  <2>1. CASE MarkAnswered(a, ok)
    BY <1>0, <2>1, HistoryQuiet DEF MarkAnswered
  <2>2. CASE ClearAnswered(a)
    BY <1>0, <2>2, HistoryQuiet DEF ClearAnswered
  <2>3. CASE RecordAnswered(a)
    BY <1>0, <2>3, HistoryQuiet DEF RecordAnswered
  <2>4. CASE ArchiveAnswered(a)
    BY <1>0, <2>4, HistoryQuiet DEF ArchiveAnswered
  <2>5. CASE WipeAnswered(a)
    BY <1>0, <2>5, HistoryQuiet DEF WipeAnswered
  <2>6. CASE SaveAnswered(a, ok)
    BY <1>0, <2>6, HistoryQuiet DEF SaveAnswered
  <2>7. CASE ReportAnswered(a)
    BY <1>0, <2>7, HistoryQuiet DEF ReportAnswered, ClearerAnswered
  <2>8. CASE OtherAnswered(a)
    BY <1>0, <2>8, HistoryQuiet DEF OtherAnswered
  <2> QED BY <1>0, <2>1, <2>2, <2>3, <2>4, <2>5, <2>6, <2>7, <2>8 DEF Answers
<1>1. CASE Boot
  BY <1>1, HistoryQuiet DEF Boot
<1>2. CASE Initialize
  <2>1. CASE UNCHANGED dbVars
    BY <1>2, <2>1, HistoryQuiet DEF Initialize
  <2>2. CASE disk' = EmptyDatabase /\ seen' = EmptyDatabase
    <3>1. seen'.history = {} /\ disk'.history = {} /\ pc'[Monitor] # "pruning"
      BY <1>2, <2>2 DEF Initialize, EmptyDatabase, Asleep
    <3> QED BY <3>1, FS_EmptySet DEF HistoryInv
  <2> QED BY <1>2, <2>1, <2>2 DEF Initialize
<1>3. CASE DetectInterrupted
  BY <1>3, HistoryQuiet DEF DetectInterrupted
<1>4. CASE Crash \/ Close
  BY <1>4, HistoryDies DEF Crash, Close
<1>5. CASE ShutdownBegins
  <2>1. PICK db :
          /\ db = IF connected /\ pc[Monitor] = "pruning" THEN Prune(seen) ELSE seen
          /\ seen' = db
    BY <1>5 DEF ShutdownBegins
  <2>2. /\ disk' = disk \/ disk' = seen
        /\ pc'[Monitor] # "pruning" /\ UNCHANGED threshold
    BY <1>5 DEF ShutdownBegins
  <2> QED BY <2>1, <2>2, PruneKeeps, HistoryQuiet
<1>6. CASE PruneBegins
  <2>1. /\ Cardinality(Newest(seen, threshold')) >= Keep
        /\ UNCHANGED <<seen, disk>>
    BY <1>6, ThresholdKeeps DEF PruneBegins, Newest
  <2> QED BY <2>1 DEF HistoryInv, Newest
<1>7. ASSUME NEW a \in Actors, Executed(a) PROVE HistoryInv'
  <2> USE <1>7, ExecuteCases
  <2>1. CASE a \in Runs /\ pc[a] = "recording" /\ seen' = SaveLoadTest(a, seen)
    BY <2>1, SaveKeeps
  <2>2. CASE a = Monitor /\ pc[a] = "pruning" /\ seen' = Prune(seen)
    BY <2>2, PruneKeeps
  <2>3. CASE seen'.history = seen.history
    BY <2>3, HistoryQuiet
  <2> QED BY <2>1, <2>2, <2>3 DEF Executes, SetRunning, ClearRunning,
      SaveTuningSession,
        ClearTrials, SaveTrial, SaveBenchmark, UpdateBenchmarkMetadata,
        DeleteBenchmark, Databases
<1>8. ASSUME NEW a \in Actors, Committed(a) PROVE HistoryInv'
  BY <1>0, <1>8, AnswerCases DEF Committed
<1>9. ASSUME NEW a \in Actors, WriteFailed(a) PROVE HistoryInv'
  BY <1>0, <1>9, AnswerCases DEF WriteFailed
<1>10. ASSUME NEW r \in Runs, RunMoves(r) PROVE HistoryInv'
  BY <1>10, HistoryQuiet DEF RunMoves, RunBegins, RunOver, MarkingCancelled,
      SetRunning, Databases
<1>11. ASSUME NEW s \in Starts, StartMoves(s) PROVE HistoryInv'
  BY <1>11, HistoryQuiet DEF SaveTrial, Databases, StartMoves, StartRequested, TrialsRead,
      StartRejected, SessionBegins,
      TrialBegins, TrialEnds, TrialUnsaved, SessionEnds, SavingCancelled
<1>12. ASSUME NEW g \in Readers, InterruptedRead(g) PROVE HistoryInv'
  BY <1>12, HistoryQuiet DEF InterruptedRead
<1>13. ASSUME NEW b \in Saves, SaveRequested(b) PROVE HistoryInv'
  BY <1>13, HistoryQuiet DEF SaveRequested
<1>14. ASSUME NEW p \in Patches, PatchMoves(p) PROVE HistoryInv'
  BY <1>14, HistoryQuiet DEF PatchMoves, BenchmarkRead, BenchmarkFound
<1>15. ASSUME NEW d \in Deletes, DeleteRequested(d) PROVE HistoryInv'
  BY <1>15, HistoryQuiet DEF DeleteRequested
<1>16. CASE TunerStopped
  BY <1>16, HistoryQuiet DEF TunerStopped
<1> QED
  BY <1>1, <1>2, <1>3, <1>4, <1>5, <1>6, <1>7, <1>8, <1>9, <1>10, <1>11, <1>12,
      <1>13, <1>14, <1>15, <1>16
     DEF Next, Lifespan, Write, RunMoves, StartMoves, PatchMoves


-----------------------------------------------------------------------------
(* The invariant and what it gives *)

LEMMA StorageInit == ASSUME Init PROVE StorageInv
<1>1. /\ EmptyDatabase \in Databases
      /\ EmptyDatabase.history = {}
      /\ EmptyDatabase.open = {}
  BY DEF EmptyDatabase, Databases
<1>2. TypeOK
  <2>1. 0 \in 0 .. MaxTrials /\ 0 \in 0 .. MaxClock /\ 0 \in 0 .. Lives
    BY StorageAssumption
  <2>2. /\ pc \in [Actors -> Locations]
        /\ stage \in [Actors -> {"none", "execute", "commit"}]
    BY DEF Init, Locations
  <2>3. /\ taken \in [Clearers -> SUBSET Runs] /\ copy \in [Starts -> SUBSET Trials]
        /\ number \in [Starts -> 0 .. MaxTrials] /\ meta \in [Patches -> SUBSET Patches]
        /\ stamp \in [Runs -> 0 .. MaxClock]
    BY <2>1 DEF Init
  <2> QED BY <1>1, <2>1, <2>2, <2>3 DEF Init, TypeOK
<1>3. Shape /\ Bounds /\ Asleep
  BY <1>2 DEF Init, TypeOK, Shape, Bounds, Asleep, RunPlaces, StartPlaces,
      Actors, Clearers, Handlers
<1>4. RowsInv
  BY <1>1 DEF Init, RowsInv, RunsInv, NoFalseAlarm, Actors
<1>6. HistoryInv
  BY <1>1, FS_EmptySet DEF Init, HistoryInv, Actors
<1>7. TrialsInv
  BY DEF Init, TrialsInv, Copied, Covered, Latest, PastLook, Actors
<1> QED BY <1>2, <1>3, <1>4, <1>6, <1>7 DEF StorageInv, TypeInv

LEMMA StorageStutter == ASSUME StorageInv, UNCHANGED vars PROVE StorageInv'
<1> USE DEF vars, dbVars, lifeVars, localVars, tunerVars, ghostVars, StorageInv
<1>1. TypeInv'
  BY DEF TypeInv, TypeOK, Shape, Bounds, Asleep
<1>2. RowsInv'
  BY DEF RowsInv, RunsInv, NoFalseAlarm, Marked, Known
<1>4. HistoryInv'
  BY HistoryQuiet
<1>5. TrialsInv'
  BY TrialsQuiet DEF Easy
<1> QED BY <1>1, <1>2, <1>4, <1>5

LEMMA StorageStep == ASSUME StorageInv, [Next]_vars PROVE StorageInv'
<1>1. CASE UNCHANGED vars
  BY <1>1, StorageStutter
<1>2. CASE Next
  BY <1>2, TypeInvStep, RowsStep, TrialsStep, HistoryStep DEF StorageInv
<1> QED BY <1>1, <1>2

\* Every state satisfies the invariants of the tables, whatever the instance.
THEOREM StorageInvariant == Spec => []StorageInv
<1> QED BY StorageInit, StorageStep, PTL DEF Spec

\* Every variable has its type (the states of storage.py and of main.py's
\* lifespan()).
THEOREM StorageTypes == Spec => []TypeOK
<1>1. StorageInv => TypeOK
  BY DEF StorageInv, TypeInv
<1> QED BY <1>1, StorageInvariant, PTL

\* A run that was cut short stays on record until it is reported or its file
\* is moved away (set_running, get_interrupted_runs, clear_running).
THEOREM Reported == Spec => []KilledRunsReported
<1>1. StorageInv => KilledRunsReported
  BY DEF StorageInv, RowsInv, RunsInv, KilledRunsReported, Known
<1> QED BY <1>1, StorageInvariant, PTL

\* A run that ended without a failure of the storage is not reported as
\* interrupted (get_interrupted_runs at start-up).
THEOREM NoAlarm == Spec => []NoFalseAlarm
<1>1. StorageInv => NoFalseAlarm
  BY DEF StorageInv, RowsInv
<1> QED BY <1>1, StorageInvariant, PTL

\* An acknowledged trial is in the table or archived, unless it was saved while
\* another start was past its look at the trials, or a start could not read or
\* archive it (save_trial, _auto_save_tuning_session, clear_trials).
THEOREM KeptTrials == Spec => []TrialsKept
<1>1. StorageInv => TrialsKept
  BY DEF StorageInv, TrialsInv, Kept, InArchive, TrialsKept
<1> QED BY <1>1, StorageInvariant, PTL

\* What goes from the disk was pruned, or is in the file that was moved away.
LEMMA CommitPrunes ==
  ASSUME StorageInv, [Next]_vars, NEW h \in disk.history \ disk'.history
  PROVE  h \in aside'.history \/ Cardinality(Newer(h, disk'.history)) >= Keep
<1>1. CASE aside' = Merged(aside, disk)
  BY <1>1 DEF StorageInv, TypeInv, TypeOK, Databases, Merged
<1>2. CASE disk' = seen
  BY <1>2 DEF StorageInv, HistoryInv
<1>3. CASE disk' = disk
  BY <1>3
<1>4. disk' = disk \/ disk' = seen \/ aside' = Merged(aside, disk)
  <2>1. CASE UNCHANGED vars
    BY <2>1 DEF vars, dbVars
  <2>2. CASE Next
    BY <2>2 DEF Next, Lifespan, Write, Boot, Initialize, DetectInterrupted,
        Crash, Close, Dies, ShutdownBegins,
      Executed, Committed, WriteFailed, PruneBegins, RunBegins, RunOver,
      MarkingCancelled, StartRequested, TrialsRead,
   StartRejected, SessionBegins,
      TrialBegins, TrialEnds, TrialUnsaved, SessionEnds, SavingCancelled, InterruptedRead,
   SaveRequested, BenchmarkRead, BenchmarkFound,
   DeleteRequested, TunerStopped, dbVars
  <2> QED BY <2>1, <2>2
<1> QED BY <1>1, <1>2, <1>3, <1>4

\* A prune leaves the keep_count newest rows alone (prune_old_records).
THEOREM PruneKeeping == Spec => PruneKeepsNewest
<1>1. StorageInv /\ [Next]_vars =>
      [\A h \in disk.history \ disk'.history :
         \/ h \in aside'.history
         \/ Cardinality(Newer(h, disk'.history)) >= Keep]_vars
  BY CommitPrunes
<1> QED BY <1>1, StorageInvariant, PTL DEF Spec, PruneKeepsNewest

LEMMA BenchmarkAppears ==
  ASSUME TypeInv, Next, seen.bench = {}, seen'.bench # {}, life' # "down"
  PROVE  \E b \in Saves : pc[b] = "inserting"
<1>1. ASSUME NEW a \in Actors,
             Executed(a) PROVE \E b \in Saves : pc[b] = "inserting"
  BY <1>1, ExecuteCases DEF Executes, SetRunning, ClearRunning, SaveLoadTest,
      SaveTuningSession, ClearTrials, SaveTrial,
     UpdateBenchmarkMetadata, DeleteBenchmark, Prune, TypeInv, TypeOK, Databases
<1>2. CASE Initialize
  BY <1>2 DEF Initialize, EmptyDatabase, dbVars
<1>3. CASE ShutdownBegins
  BY <1>3 DEF ShutdownBegins, Prune, TypeInv, TypeOK, Databases
<1>4. ASSUME NEW r \in Runs, MarkingCancelled(r) PROVE FALSE
  BY <1>4 DEF MarkingCancelled, SetRunning, TypeInv, TypeOK, Databases
<1>5. ASSUME NEW s \in Starts, SavingCancelled(s) PROVE FALSE
  BY <1>5 DEF SavingCancelled, SaveTrial, TypeInv, TypeOK, Databases
<1> QED BY <1>1, <1>2, <1>3, <1>4, <1>5 DEF Next, Lifespan, Write, Boot,
    DetectInterrupted, Crash, Close, Dies,
      Committed, WriteFailed, PruneBegins, RunBegins, RunOver, StartRequested,
      TrialsRead,
   StartRejected, SessionBegins,
      TrialBegins, TrialEnds, TrialUnsaved, SessionEnds, InterruptedRead,
   SaveRequested, BenchmarkRead, BenchmarkFound,
   DeleteRequested, TunerStopped, dbVars

\* A deleted benchmark comes back by a save only (update_benchmark_metadata).
THEOREM DeletedStays == Spec => DeletedStaysDeleted
<1>1. StorageInv /\ [Next]_vars =>
      [seen.bench = {} /\ seen'.bench # {} /\ life' # "down"
       => \E b \in Saves : pc[b] = "inserting"]_vars
  BY BenchmarkAppears DEF StorageInv
<1> QED BY <1>1, StorageInvariant, PTL DEF Spec, DeletedStaysDeleted
==============================================================================
