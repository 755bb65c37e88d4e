-------------------------- MODULE RunnerResumeProofs --------------------------
(***************************************************************************)
(* Proofs about RunnerResume, for every corpus, configuration and number   *)
(* of repetitions, invocations and kills.  None of the four invariants the *)
(* run checks is inductive: they rest on what a process holds in memory    *)
(* while it is between two of its writes.                                  *)
(***************************************************************************)
EXTENDS RunnerResume, FiniteSetTheorems, TLAPS

\* The stages of execute() after the corpus has been built or loaded.
Loaded == {"preflight", "jobs", "session", "list", "close", "report", "relist"}

\* The stages between the manifest that says "running" and the one that has
\* the final status.
Planned == {"jobs", "session", "list", "close"}

\* What the process holds at each stage: a session belongs to one job that is
\* still to be done and has no record, and an exit leaves nothing behind.
ProcessScope ==
    /\ pc # "build" => toBuild = {}
    /\ pc \notin {"jobs", "session", "list"} => todo = {}
    /\ pc # "session" => session = {}
    /\ pc = "session" =>
         \E job \in todo : session = {job} /\ ~HasRecord(job)

\* A corpus manifest that lists a binary is beside one, and the processes past
\* the loading stage have one for every case.
CorpusScope ==
    /\ \A c \in Cases : corpus[c] # NoBuild => binaries[c] # NoBuild
    /\ pc = "build" => \A c \in Cases \ toBuild : binaries[c] # NoBuild
    /\ pc \in Loaded => \A c \in Cases : corpus[c] # NoBuild

\* While a manifest says "running" it holds this process's plan, and a planned
\* job that is not to be done has its record.
PlanScope ==
    /\ pc \in Planned =>
         /\ manifest.status = "running" /\ manifest.plan = Plan
         /\ todo \subseteq Plan
         /\ \A job \in Plan \ todo : HasRecord(job)
    /\ pc = "close" => summary = Selected

\* The corpus manifest is behind the binaries only during a build that has
\* overwritten one, or after one was cut off.
CorpusCurrent ==
    /\ (pc = "build" => toBuild = Cases) /\ ~interrupted => corpus = binaries
    /\ RecordNamesBinary

\* The records are counted, session by session.
RecordsCounted ==
    /\ IsFiniteSet(records)
    /\ WorkLostPerCrash

RunnerInv == TypeOK /\ ProcessScope /\ CorpusScope /\ PlanScope /\ CompleteCoversPlan
              /\ CorpusCurrent
-----------------------------------------------------------------------------
\* A plan made from a full corpus manifest is a set of jobs.
LEMMA PlanType ==
  ASSUME TypeOK, \A c \in Cases : corpus[c] # NoBuild
  PROVE  Plan \subseteq Jobs
<1> SUFFICES ASSUME NEW c \in args.cases, NEW n \in 0 .. args.repetitions - 1,
                    NEW v \in Variants
             PROVE  [case |-> c, build |-> corpus[c], repetition |-> n,
                     config |-> args.config, variant |-> v] \in Jobs
  BY DEF Plan
<1>1. c \in Cases /\ args.config \in Configs /\ args.repetitions \in 1 .. MaxRepetitions
  BY DEF TypeOK, Arguments
<1>2. corpus[c] \in Builds
  BY <1>1 DEF TypeOK
<1>3. n \in 0 .. MaxRepetitions - 1
  BY <1>1, RunnerAssumption DEF RunnerAssumption
<1> QED
  BY <1>1, <1>2, <1>3 DEF Jobs

\* The record of a planned job is among those the run selects.
LEMMA PlanSelected ==
  ASSUME NEW job \in Plan, HasRecord(job)
  PROVE  job \in JobsOf(Selected)
<1>1. PICK r \in records : r.job = job
  BY DEF HasRecord
<1>2. job.config = args.config /\ job.case \in args.cases /\ job.build = corpus[job.case]
  BY DEF Plan
<1> QED
  BY <1>1, <1>2 DEF Selected, JobsOf

\* Failures are among the jobs of a set of records.
LEMMA FailuresType ==
  ASSUME NEW S \in SUBSET Records
  PROVE  FailuresOf(S) \subseteq Jobs
BY DEF FailuresOf, Records

-----------------------------------------------------------------------------
\* The invariant holds initially.
LEMMA InitRunnerInv == Init => RunnerInv /\ RecordsCounted
<1> SUFFICES ASSUME Init PROVE RunnerInv /\ RecordsCounted
  OBVIOUS
<1>1. TypeOK
  <2>1. binaries \in [Cases -> Builds \cup {NoBuild}] /\ corpus \in [Cases -> Builds \cup {NoBuild}]
    BY DEF Init
  <2>2. manifest \in Manifests /\ report \in Manifests
    BY DEF Init, NoManifest, Manifests
  <2>3. runs \in 0 .. MaxRuns /\ crashes \in 0 .. MaxCrashes /\ sessions \in Nat
    BY RunnerAssumption DEF RunnerAssumption, Init
  <2>4. args \in Arguments /\ interrupted \in BOOLEAN
    BY DEF Init
  <2> QED
    BY <2>1, <2>2, <2>3, <2>4 DEF Init, TypeOK
<1>2. ProcessScope /\ CorpusScope /\ PlanScope
  BY DEF Init, ProcessScope, CorpusScope, PlanScope, Loaded, Planned
<1>3. CompleteCoversPlan /\ CorpusCurrent
  BY DEF Init, CompleteCoversPlan, CorpusCurrent, RecordNamesBinary, NoManifest, Completed
<1>4. RecordsCounted
  BY FS_EmptySet DEF Init, RecordsCounted, WorkLostPerCrash
<1> QED
  BY <1>1, <1>2, <1>3, <1>4 DEF RunnerInv

\* Every write, every session and every kill keeps the types; a process that
\* writes a manifest or a record has loaded the whole corpus.
LEMMA StepTypeOK == RunnerInv /\ [Next]_vars => TypeOK'
<1> SUFFICES ASSUME RunnerInv, [Next]_vars PROVE TypeOK'
  OBVIOUS
<1> USE RunnerAssumption
    DEF RunnerAssumption, RunnerInv, TypeOK, disk, history, process
<1>1. CASE Invoke
  <2>1. runs' \in 0 .. MaxRuns
    BY <1>1 DEF Invoke
  <2> QED
    BY <1>1, <2>1 DEF Invoke
<1>2. CASE BuildArtifact
  BY <1>2 DEF BuildArtifact
<1>3. CASE BuildFails
  BY <1>3 DEF BuildFails, Exit
<1>4. CASE WriteCorpus
  BY <1>4 DEF WriteCorpus
<1>5. CASE LoadCorpus
  BY <1>5 DEF LoadCorpus, Exit
<1>6. CASE PreflightStops
  BY <1>6 DEF PreflightStops, Exit
<1>7. CASE WriteManifest
  <2>1. Plan \subseteq Jobs
    BY <1>7, PlanType DEF WriteManifest, CorpusScope, Loaded
  <2>2. manifest' \in Manifests
    BY <1>7, <2>1 DEF WriteManifest, Manifests
  <2> QED
    BY <1>7, <2>1, <2>2 DEF WriteManifest
<1>8. CASE SkipJob
  BY <1>8 DEF SkipJob
<1>9. CASE StartSession
  BY <1>9 DEF StartSession
<1>10. CASE WriteRecord
  <2>1. PICK job \in session, failed \in BOOLEAN :
          /\ records' = {r \in records : r.job # job} \cup
                        {[job |-> job, failed |-> failed,
                          analysed |-> binaries[job.case]]}
          /\ todo' = todo \ {job}
    BY <1>10 DEF WriteRecord
  <2> DEFINE new == [job |-> job, failed |-> failed, analysed |-> binaries[job.case]]
  <2>2. job \in Jobs /\ job \in todo /\ ~HasRecord(job)
    BY <1>10 DEF WriteRecord, ProcessScope
  <2>3. job.case \in Cases /\ job.build \in Builds
    BY <2>2 DEF Jobs
  <2>4. binaries[job.case] \in Builds
    <3>1. corpus[job.case] # NoBuild
      BY <1>10, <2>2, <2>3 DEF WriteRecord, PlanScope, Planned, CorpusScope, Loaded
    <3> QED
      BY <2>3, <3>1 DEF CorpusScope
  <2>5. new \in Records
    BY <2>2, <2>4 DEF Records
  <2>6. records' = records \cup {new}
    BY <2>1, <2>2 DEF HasRecord
  <2>7. \A r, s \in records' : r.job = s.job => r = s
    BY <2>2, <2>6 DEF HasRecord
  <2> HIDE DEF new
  <2> QED
    BY <1>10, <2>1, <2>5, <2>6, <2>7 DEF WriteRecord
<1>11. CASE WriteList
  BY <1>11 DEF WriteList, Selected
<1>12. CASE WriteSummary
  BY <1>12 DEF WriteSummary, Selected
<1>13. CASE WriteStatus
  <2>1. FailuresOf(Selected) \subseteq Jobs
    BY FailuresType DEF Selected
  <2>2. manifest' \in Manifests
    BY <1>13, <2>1 DEF WriteStatus, Manifests
  <2> QED
    BY <1>13, <2>2 DEF WriteStatus
<1>14. CASE WriteReport
  BY <1>14 DEF WriteReport
<1>15. CASE Finish
  BY <1>15 DEF Finish, Selected, Exit
<1>16. CASE Crash
  BY <1>16 DEF Crash, Exit
<1>17. CASE UNCHANGED vars
  BY <1>17 DEF vars
<1> QED
  BY <1>1, <1>2, <1>3, <1>4, <1>5, <1>6, <1>7, <1>8, <1>9, <1>10, <1>11, <1>12,
     <1>13, <1>14, <1>15, <1>16, <1>17 DEF Next
-----------------------------------------------------------------------------
\* A session is started only for a job without a record, and every exit clears
\* what the process held.
LEMMA StepProcessScope == RunnerInv /\ [Next]_vars => ProcessScope'
<1> SUFFICES ASSUME RunnerInv, [Next]_vars PROVE ProcessScope'
  OBVIOUS
<1> USE DEF RunnerInv, ProcessScope, disk, history, process, HasRecord
<1>1. CASE Invoke
  BY <1>1 DEF Invoke
<1>2. CASE BuildArtifact
  BY <1>2 DEF BuildArtifact
<1>3. CASE BuildFails
  BY <1>3 DEF BuildFails, Exit
<1>4. CASE WriteCorpus
  BY <1>4 DEF WriteCorpus
<1>5. CASE LoadCorpus
  BY <1>5 DEF LoadCorpus, Exit
<1>6. CASE PreflightStops
  BY <1>6 DEF PreflightStops, Exit
<1>7. CASE WriteManifest
  BY <1>7 DEF WriteManifest
<1>8. CASE SkipJob
  BY <1>8 DEF SkipJob
<1>9. CASE StartSession
  BY <1>9 DEF StartSession
<1>10. CASE WriteRecord
  BY <1>10 DEF WriteRecord
<1>11. CASE WriteList
  BY <1>11 DEF WriteList
<1>12. CASE WriteSummary
  BY <1>12 DEF WriteSummary
<1>13. CASE WriteStatus
  BY <1>13 DEF WriteStatus
<1>14. CASE WriteReport
  BY <1>14 DEF WriteReport
<1>15. CASE Finish
  BY <1>15 DEF Finish, Exit
<1>16. CASE Crash
  BY <1>16 DEF Crash, Exit
<1>17. CASE UNCHANGED vars
  BY <1>17 DEF vars
<1> QED
  BY <1>1, <1>2, <1>3, <1>4, <1>5, <1>6, <1>7, <1>8, <1>9, <1>10, <1>11, <1>12,
     <1>13, <1>14, <1>15, <1>16, <1>17 DEF Next

\* The corpus manifest changes only after a whole build.
LEMMA StepCorpusScope == RunnerInv /\ [Next]_vars => CorpusScope'
<1> SUFFICES ASSUME RunnerInv, [Next]_vars PROVE CorpusScope'
  OBVIOUS
<1> USE RunnerAssumption
    DEF RunnerAssumption, RunnerInv, TypeOK, CorpusScope, Loaded, disk, history, process
<1>1. CASE Invoke
  BY <1>1 DEF Invoke
<1>2. CASE BuildArtifact
  <2>1. PICK c \in toBuild, b \in Builds :
          binaries' = [binaries EXCEPT ![c] = b] /\ toBuild' = toBuild \ {c}
    BY <1>2 DEF BuildArtifact
  <2>2. \A d \in Cases : binaries'[d] = IF d = c THEN b ELSE binaries[d]
    BY <2>1
  <2> QED
    BY <1>2, <2>1, <2>2 DEF BuildArtifact
<1>3. CASE BuildFails
  BY <1>3 DEF BuildFails, Exit
<1>4. CASE WriteCorpus
  BY <1>4 DEF WriteCorpus
<1>5. CASE LoadCorpus
  BY <1>5 DEF LoadCorpus, Exit
<1>6. CASE PreflightStops
  BY <1>6 DEF PreflightStops, Exit
<1>7. CASE WriteManifest
  BY <1>7 DEF WriteManifest
<1>8. CASE SkipJob
  BY <1>8 DEF SkipJob
<1>9. CASE StartSession
  BY <1>9 DEF StartSession
<1>10. CASE WriteRecord
  BY <1>10 DEF WriteRecord
<1>11. CASE WriteList
  BY <1>11 DEF WriteList
<1>12. CASE WriteSummary
  BY <1>12 DEF WriteSummary
<1>13. CASE WriteStatus
  BY <1>13 DEF WriteStatus
<1>14. CASE WriteReport
  BY <1>14 DEF WriteReport
<1>15. CASE Finish
  BY <1>15 DEF Finish, Exit
<1>16. CASE Crash
  BY <1>16 DEF Crash, Exit
<1>17. CASE UNCHANGED vars
  BY <1>17 DEF vars
<1> QED
  BY <1>1, <1>2, <1>3, <1>4, <1>5, <1>6, <1>7, <1>8, <1>9, <1>10, <1>11, <1>12,
     <1>13, <1>14, <1>15, <1>16, <1>17 DEF Next
\* From the manifest that says "running" to the one with the final status, the
\* plan on disk is the process's own, and each planned job is to be done or
\* has its record, whichever earlier run wrote it.
LEMMA StepPlanScope == RunnerInv /\ [Next]_vars => PlanScope'
<1> SUFFICES ASSUME RunnerInv, [Next]_vars PROVE PlanScope'
  OBVIOUS
<1> USE DEF RunnerInv, PlanScope, Planned, disk, history, process
<1>1. CASE Invoke
  BY <1>1 DEF Invoke
<1>2. CASE BuildArtifact
  BY <1>2 DEF BuildArtifact
<1>3. CASE BuildFails
  BY <1>3 DEF BuildFails, Exit
<1>4. CASE WriteCorpus
  BY <1>4 DEF WriteCorpus
<1>5. CASE LoadCorpus
  BY <1>5 DEF LoadCorpus, Exit
<1>6. CASE PreflightStops
  BY <1>6 DEF PreflightStops, Exit
<1>7. CASE WriteManifest
  BY <1>7 DEF WriteManifest, Plan
<1>8. CASE SkipJob
  <2>1. Plan' = Plan /\ UNCHANGED <<manifest, records, pc>>
    BY <1>8 DEF SkipJob, Plan
  <2>2. PICK job \in todo : HasRecord(job) /\ todo' = todo \ {job}
    BY <1>8 DEF SkipJob
  <2> QED
    BY <1>8, <2>1, <2>2 DEF SkipJob, HasRecord
<1>9. CASE StartSession
  <2>1. Plan' = Plan /\ UNCHANGED <<manifest, records, todo>> /\ pc' = "session"
    BY <1>9 DEF StartSession, Plan
  <2> QED
    BY <1>9, <2>1 DEF StartSession, HasRecord
<1>10. CASE WriteRecord
  <2>1. Plan' = Plan /\ UNCHANGED <<manifest>> /\ pc' = "list"
    BY <1>10 DEF WriteRecord, Plan
  <2>2. PICK job \in session, failed \in BOOLEAN :
          /\ records' = {r \in records : r.job # job} \cup
                        {[job |-> job, failed |-> failed,
                          analysed |-> binaries[job.case]]}
          /\ todo' = todo \ {job}
    BY <1>10 DEF WriteRecord
  <2> DEFINE new == [job |-> job, failed |-> failed, analysed |-> binaries[job.case]]
  <2>3. \A other \in Plan : HasRecord(other) \/ other = job => HasRecord(other)'
    <3>1. new.job = job /\ new \in records'
      BY <2>2
    <3>2. \A r \in records : r.job = job \/ r \in records'
      BY <2>2
    <3> HIDE DEF new
    <3> QED
      BY <3>1, <3>2 DEF HasRecord
  <2> QED
    BY <1>10, <2>1, <2>2, <2>3 DEF WriteRecord
<1>11. CASE WriteList
  <2>1. Plan' = Plan /\ UNCHANGED <<manifest, records, todo>> /\ pc' = "jobs"
    BY <1>11 DEF WriteList, Plan
  <2> QED
    BY <1>11, <2>1 DEF WriteList, HasRecord
<1>12. CASE WriteSummary
  <2>1. Plan' = Plan /\ Selected' = Selected
    BY <1>12 DEF WriteSummary, Plan, Selected
  <2> QED
    BY <1>12, <2>1 DEF WriteSummary, HasRecord
<1>13. CASE WriteStatus
  BY <1>13 DEF WriteStatus
<1>14. CASE WriteReport
  BY <1>14 DEF WriteReport
<1>15. CASE Finish
  BY <1>15 DEF Finish, Exit
<1>16. CASE Crash
  BY <1>16 DEF Crash, Exit
<1>17. CASE UNCHANGED vars
  <2>1. Plan' = Plan /\ Selected' = Selected
    BY <1>17 DEF vars, Plan, Selected
  <2> QED
    BY <1>17, <2>1 DEF vars, HasRecord
<1> QED
  BY <1>1, <1>2, <1>3, <1>4, <1>5, <1>6, <1>7, <1>8, <1>9, <1>10, <1>11, <1>12,
     <1>13, <1>14, <1>15, <1>16, <1>17 DEF Next

\* A final status is given to a manifest whose plan the summary covers, and the
\* summary is written again only after the manifest says "running" again.
LEMMA StepComplete == RunnerInv /\ [Next]_vars => CompleteCoversPlan'
<1> SUFFICES ASSUME RunnerInv, [Next]_vars PROVE CompleteCoversPlan'
  OBVIOUS
<1> USE DEF RunnerInv, CompleteCoversPlan, Completed, JobsOf, FailuresOf, disk, history, process
<1>1. CASE Invoke
  BY <1>1 DEF Invoke
<1>2. CASE BuildArtifact
  BY <1>2 DEF BuildArtifact
<1>3. CASE BuildFails
  BY <1>3 DEF BuildFails, Exit
<1>4. CASE WriteCorpus
  BY <1>4 DEF WriteCorpus
<1>5. CASE LoadCorpus
  BY <1>5 DEF LoadCorpus, Exit
<1>6. CASE PreflightStops
  BY <1>6 DEF PreflightStops, Exit
<1>7. CASE WriteManifest
  BY <1>7 DEF WriteManifest
<1>8. CASE SkipJob
  BY <1>8 DEF SkipJob
<1>9. CASE StartSession
  BY <1>9 DEF StartSession
<1>10. CASE WriteRecord
  BY <1>10 DEF WriteRecord
<1>11. CASE WriteList
  BY <1>11 DEF WriteList
<1>12. CASE WriteSummary
  BY <1>12 DEF WriteSummary, PlanScope, Planned
<1>13. CASE WriteStatus
  <2>1. summary' = Selected /\ manifest'.plan = Plan /\ manifest'.failures = FailuresOf(Selected)
    BY <1>13 DEF WriteStatus, PlanScope, Planned, TypeOK, Manifests
  <2>2. todo = {}
    BY <1>13 DEF WriteStatus, ProcessScope
  <2>3. \A job \in Plan : job \in JobsOf(Selected)
    BY <1>13, <2>2, PlanSelected DEF WriteStatus, PlanScope, Planned
  <2> QED
    BY <2>1, <2>3
<1>14. CASE WriteReport
  BY <1>14 DEF WriteReport
<1>15. CASE Finish
  BY <1>15 DEF Finish, Exit
<1>16. CASE Crash
  BY <1>16 DEF Crash, Exit
<1>17. CASE UNCHANGED vars
  BY <1>17 DEF vars
<1> QED
  BY <1>1, <1>2, <1>3, <1>4, <1>5, <1>6, <1>7, <1>8, <1>9, <1>10, <1>11, <1>12,
     <1>13, <1>14, <1>15, <1>16, <1>17 DEF Next

\* A build makes the corpus manifest stale when it overwrites a binary and
\* current when it is complete; a session analyses what the manifest lists.
LEMMA StepCorpusCurrent == RunnerInv /\ [Next]_vars => CorpusCurrent'
<1> SUFFICES ASSUME RunnerInv, [Next]_vars PROVE CorpusCurrent'
  OBVIOUS
<1> USE DEF RunnerInv, CorpusCurrent, RecordNamesBinary, disk, history, process
<1>1. CASE Invoke
  BY <1>1 DEF Invoke
<1>2. CASE BuildArtifact
  BY <1>2 DEF BuildArtifact, TypeOK
<1>3. CASE BuildFails
  BY <1>3 DEF BuildFails, Exit
<1>4. CASE WriteCorpus
  BY <1>4 DEF WriteCorpus
<1>5. CASE LoadCorpus
  BY <1>5 DEF LoadCorpus, Exit
<1>6. CASE PreflightStops
  BY <1>6 DEF PreflightStops, Exit
<1>7. CASE WriteManifest
  BY <1>7 DEF WriteManifest
<1>8. CASE SkipJob
  BY <1>8 DEF SkipJob
<1>9. CASE StartSession
  BY <1>9 DEF StartSession
<1>10. CASE WriteRecord
  <2>1. PICK job \in session, failed \in BOOLEAN :
          records' = {r \in records : r.job # job} \cup
                       {[job |-> job, failed |-> failed,
                         analysed |-> binaries[job.case]]}
    BY <1>10 DEF WriteRecord
  <2>2. job \in Plan
    BY <1>10 DEF WriteRecord, ProcessScope, PlanScope, Planned
  <2>3. job.build = corpus[job.case]
    BY <2>2 DEF Plan
  <2>4. ~interrupted => binaries[job.case] = job.build
    BY <1>10, <2>3 DEF WriteRecord
  <2> QED
    BY <1>10, <2>1, <2>4 DEF WriteRecord
<1>11. CASE WriteList
  BY <1>11 DEF WriteList
<1>12. CASE WriteSummary
  BY <1>12 DEF WriteSummary
<1>13. CASE WriteStatus
  BY <1>13 DEF WriteStatus
<1>14. CASE WriteReport
  BY <1>14 DEF WriteReport
<1>15. CASE Finish
  BY <1>15 DEF Finish, Exit
<1>16. CASE Crash
  BY <1>16 DEF Crash, Exit
<1>17. CASE UNCHANGED vars
  BY <1>17 DEF vars
<1> QED
  BY <1>1, <1>2, <1>3, <1>4, <1>5, <1>6, <1>7, <1>8, <1>9, <1>10, <1>11, <1>12,
     <1>13, <1>14, <1>15, <1>16, <1>17 DEF Next

\* Every session is counted by its record, by the kill that ended it, or by
\* the process that runs it.
LEMMA StepRecordsCounted == RunnerInv /\ RecordsCounted /\ [Next]_vars => RecordsCounted'
<1> SUFFICES ASSUME RunnerInv, RecordsCounted, [Next]_vars PROVE RecordsCounted'
  OBVIOUS
<1> USE DEF RunnerInv, TypeOK, ProcessScope, RecordsCounted, WorkLostPerCrash, disk, history, process
<1>0. /\ Cardinality(records) \in Nat /\ Cardinality({}) = 0
      /\ \A x : Cardinality({x}) = 1
      /\ Cardinality(session) \in {0, 1}
      /\ crashes \in Nat /\ sessions \in Nat
  <2>1. Cardinality(records) \in Nat
    BY FS_CardinalityType
  <2>2. Cardinality({}) = 0 /\ \A x : Cardinality({x}) = 1
    BY FS_EmptySet, FS_Singleton
  <2>3. Cardinality(session) \in {0, 1}
    BY <2>2
  <2>4. crashes \in Nat /\ sessions \in Nat
    BY RunnerAssumption DEF RunnerAssumption
  <2> QED
    BY <2>1, <2>2, <2>3, <2>4
<1>1. CASE Invoke
  BY <1>1 DEF Invoke
<1>2. CASE BuildArtifact
  BY <1>2 DEF BuildArtifact
<1>3. CASE BuildFails
  BY <1>3 DEF BuildFails, Exit
<1>4. CASE WriteCorpus
  BY <1>4 DEF WriteCorpus
<1>5. CASE LoadCorpus
  BY <1>5 DEF LoadCorpus, Exit
<1>6. CASE PreflightStops
  BY <1>6 DEF PreflightStops, Exit
<1>7. CASE WriteManifest
  BY <1>7 DEF WriteManifest
<1>8. CASE SkipJob
  BY <1>8 DEF SkipJob
<1>9. CASE StartSession
  <2>1. Cardinality(session) = 0 /\ Cardinality(session') = 1
    BY <1>9, <1>0 DEF StartSession
  <2> QED
    BY <1>9, <1>0, <2>1 DEF StartSession
<1>10. CASE WriteRecord
  <2>1. PICK job \in session, failed \in BOOLEAN :
          records' = {r \in records : r.job # job} \cup
                       {[job |-> job, failed |-> failed,
                         analysed |-> binaries[job.case]]}
    BY <1>10 DEF WriteRecord
  <2> DEFINE new == [job |-> job, failed |-> failed, analysed |-> binaries[job.case]]
  <2>2. ~HasRecord(job)
    BY <1>10 DEF WriteRecord
  <2>3. records' = records \cup {new} /\ new \notin records
    BY <2>1, <2>2 DEF HasRecord
  <2> HIDE DEF new
  <2>4. IsFiniteSet(records') /\ Cardinality(records') = Cardinality(records) + 1
    BY <2>3, FS_AddElement
  <2>5. Cardinality(session) = 1 /\ Cardinality(session') = 0
    BY <1>10, <1>0 DEF WriteRecord
  <2> QED
    BY <1>10, <1>0, <2>4, <2>5 DEF WriteRecord
<1>11. CASE WriteList
  BY <1>11 DEF WriteList
<1>12. CASE WriteSummary
  BY <1>12 DEF WriteSummary
<1>13. CASE WriteStatus
  BY <1>13 DEF WriteStatus
<1>14. CASE WriteReport
  BY <1>14 DEF WriteReport
<1>15. CASE Finish
  BY <1>15 DEF Finish, Exit
<1>16. CASE Crash
  <2>1. Cardinality(session') = 0 /\ records' = records /\ sessions' = sessions
        /\ crashes' = crashes + 1
    BY <1>16, <1>0 DEF Crash, Exit
  <2> QED
    BY <1>0, <2>1
<1>17. CASE UNCHANGED vars
  BY <1>17 DEF vars
<1> QED
  BY <1>1, <1>2, <1>3, <1>4, <1>5, <1>6, <1>7, <1>8, <1>9, <1>10, <1>11, <1>12,
     <1>13, <1>14, <1>15, <1>16, <1>17 DEF Next

-----------------------------------------------------------------------------
LEMMA RunnerInvariance == Spec => [](RunnerInv /\ RecordsCounted)
<1>1. RunnerInv /\ RecordsCounted /\ [Next]_vars => (RunnerInv /\ RecordsCounted)'
  BY StepTypeOK, StepProcessScope, StepCorpusScope, StepPlanScope, StepComplete,
     StepCorpusCurrent, StepRecordsCounted DEF RunnerInv
<1> QED
  BY <1>1, InitRunnerInv, PTL DEF Spec

\* The types, and at most one record for a job.
THEOREM RunnerTypes == Spec => []TypeOK
<1>1. RunnerInv => TypeOK
  BY DEF RunnerInv
<1> QED
  BY <1>1, RunnerInvariance, PTL

\* A resumed run pays again only for what a kill took away, for every number of
\* invocations with whatever arguments.
THEOREM RunnerLosesLittle == Spec => []WorkLostPerCrash
<1>1. RecordsCounted => WorkLostPerCrash
  BY DEF RecordsCounted
<1> QED
  BY <1>1, RunnerInvariance, PTL

\* A manifest that says complete stands beside a summary that covers its plan.
THEOREM RunnerCompleteMeansCovered == Spec => []CompleteCoversPlan
<1>1. RunnerInv => CompleteCoversPlan
  BY DEF RunnerInv
<1> QED
  BY <1>1, RunnerInvariance, PTL

\* The binary hash of a record is that of the binary its session analysed,
\* unless a corpus build was cut off.
THEOREM RunnerRecordsNameBinaries == Spec => []RecordNamesBinary
<1>1. RunnerInv => RecordNamesBinary
  BY DEF RunnerInv, CorpusCurrent
<1> QED
  BY <1>1, RunnerInvariance, PTL

\* No invocation replaces or loses a record that was paid for: the write that
\* would replace a file of its name never finds one.
THEOREM RunnerKeepsRecords == Spec => [][records \subseteq records']_vars
<1>1. RunnerInv /\ [Next]_vars => records \subseteq records'
  <2> SUFFICES ASSUME RunnerInv, [Next]_vars PROVE records \subseteq records'
    OBVIOUS
  <2>1. CASE WriteRecord
    <3>1. \A job \in session : ~HasRecord(job)
      BY <2>1 DEF WriteRecord, RunnerInv, ProcessScope
    <3> QED
      BY <2>1, <3>1 DEF WriteRecord, HasRecord
  <2>2. CASE ~WriteRecord
    BY <2>2 DEF Next, Invoke, BuildArtifact, BuildFails, WriteCorpus, LoadCorpus,
                PreflightStops, WriteManifest, SkipJob, StartSession, WriteList,
                WriteSummary, WriteStatus, WriteReport, Finish, Crash, disk, vars
  <2> QED
    BY <2>1, <2>2
<1> QED
  BY <1>1, RunnerInvariance, PTL DEF Spec
=============================================================================
