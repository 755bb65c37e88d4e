----------------------------- MODULE RunnerResume -----------------------------
(***************************************************************************)
(* The benchmark runner and its output directory: invocations of the       *)
(* command line one after another, each with its own arguments, any of     *)
(* which can be killed between two of its writes                           *)
(* (benchmarks/airece_bench/runner.py, corpus.py, util.py, cli.py).        *)
(*                                                                         *)
(* atomic_write_text makes each file appear whole or not at all, so a      *)
(* write is one step; the corpus binaries are overwritten one by one by    *)
(* the compiler.  A binary is told apart by its contents: Builds stands    *)
(* for the hashes a case's binary can have, and the case id of the code    *)
(* (six digits of that hash and the function's name) by case and build.    *)
(***************************************************************************)
EXTENDS Naturals, FiniteSets

CONSTANTS
    Cases,           \* functions of the corpus, all of one split
    Builds,          \* contents a case's binary can have
    NoBuild,         \* no binary built, or not in the corpus manifest
    Configs,         \* config fingerprints
    Variants,        \* combinations of track, task and condition
    MaxRepetitions,  \* the largest --repetitions considered
    MaxRuns,         \* invocations considered (a bound)
    MaxCrashes       \* kills considered (a bound)

ASSUME RunnerAssumption ==
    /\ IsFiniteSet(Cases) /\ IsFiniteSet(Builds) /\ IsFiniteSet(Configs)
    /\ IsFiniteSet(Variants)
    /\ NoBuild \notin Builds
    /\ MaxRepetitions \in Nat \ {0}
    /\ MaxRuns \in Nat /\ MaxCrashes \in Nat

VARIABLES
    binaries,        \* the artifact on disk that holds each case
    corpus,          \* corpus/manifest.json: the build each case is listed with
    records,         \* records/<run_id>.json, at most one for a job
    jsonl,           \* the records listed in runs.jsonl
    summary,         \* the records summary.json was computed from
    manifest,        \* manifest.json
    report,          \* the manifest report.md was written from
    pc,              \* where the process is; "idle": no process runs
    args,            \* the arguments of this invocation
    toBuild,         \* artifacts this invocation has still to build
    todo,            \* planned jobs not yet looked at
    session,         \* the job whose model session is running
    runs, crashes,   \* how many invocations and kills there have been
    sessions,        \* how many model sessions have been started
    interrupted      \* a corpus build ended after overwriting a binary

disk == <<binaries, corpus, records, jsonl, summary, manifest, report>>
history == <<runs, crashes, sessions, interrupted>>
process == <<pc, args, toBuild, todo, session>>
vars == <<disk, process, history>>

\* What run_id is a digest of: case id, repetition, the config fingerprint and
\* track, task and condition.  The prompts and schemas follow from these.
Jobs == [case : Cases, build : Builds, repetition : 0 .. MaxRepetitions - 1,
         config : Configs, variant : Variants]

\* A record, with the failure it may keep and the contents of the binary its
\* session analysed, which is not what it stores as binary_sha256: that is the
\* hash in the corpus manifest, job.build.
Records == [job : Jobs, failed : BOOLEAN, analysed : Builds]

Arguments == [config : Configs, cases : SUBSET Cases \ {{}},
              repetitions : 1 .. MaxRepetitions,
              rebuild : BOOLEAN, dryRun : BOOLEAN]

Manifests == [status : {"none", "running", "complete",
                        "complete_with_failures"},
              plan : SUBSET Jobs, failures : SUBSET Jobs]

NoManifest == [status |-> "none", plan |-> {}, failures |-> {}]

Completed == {"complete", "complete_with_failures"}

HasRecord(job) == \E r \in records : r.job = job

\* plan(): every repetition and variant of the selected cases.
Plan == {[case |-> c, build |-> corpus[c], repetition |-> n,
          config |-> args.config, variant |-> v] :
            c \in args.cases, n \in 0 .. args.repetitions - 1, v \in Variants}

\* _records(output, config_fingerprint, selected_case_ids): the repetition is
\* not asked for.
Selected == {r \in records : /\ r.job.config = args.config
                             /\ r.job.case \in args.cases
                             /\ r.job.build = corpus[r.job.case]}

JobsOf(set) == {r.job : r \in set}
FailuresOf(set) == {r.job : r \in {s \in set : s.failed}}

Init ==
    /\ binaries = [c \in Cases |-> NoBuild]
    /\ corpus = [c \in Cases |-> NoBuild]
    /\ records = {} /\ jsonl = {} /\ summary = {}
    /\ manifest = NoManifest /\ report = NoManifest
    /\ pc = "idle"
    /\ args \in {a \in Arguments : a.repetitions = 1 /\ a.cases = Cases
                                   /\ a.rebuild /\ ~a.dryRun}
    /\ toBuild = {} /\ todo = {} /\ session = {}
    /\ runs = 0 /\ crashes = 0 /\ sessions = 0 /\ interrupted = FALSE

\* The process is gone; nothing it held in memory matters any more.
Exit ==
    /\ pc' = "idle"
    /\ toBuild' = {} /\ todo' = {} /\ session' = {}
    /\ UNCHANGED args

-----------------------------------------------------------------------------
\* cli.main: parse the arguments and start execute().
Invoke ==
    /\ pc = "idle"
    /\ runs < MaxRuns
    /\ runs' = runs + 1
    /\ args' \in Arguments
    /\ pc' = IF args'.rebuild THEN "build" ELSE "load"
    /\ toBuild' = IF args'.rebuild THEN Cases ELSE {}
    /\ UNCHANGED <<disk, todo, session, crashes, sessions, interrupted>>

\* corpus.build compiles and links each artifact over the old one.
BuildArtifact ==
    /\ pc = "build"
    /\ \E c \in toBuild, b \in Builds :
         /\ binaries' = [binaries EXCEPT ![c] = b]
         /\ toBuild' = toBuild \ {c}
    /\ UNCHANGED <<corpus, records, jsonl, summary, manifest, report, pc, args,
                   todo, session, history>>

\* A compiler or linker error, or an export that is missing: the corpus
\* manifest is not written.
BuildFails ==
    /\ pc = "build"
    /\ Exit
    /\ interrupted' = (interrupted \/ toBuild # Cases)
    /\ UNCHANGED <<disk, runs, crashes, sessions>>

\* Mutant of WriteCorpus: a manifest that exists is kept.
WriteCorpusOnce ==
    /\ pc = "build" /\ toBuild = {}
    /\ corpus' = [c \in Cases |-> IF corpus[c] = NoBuild THEN binaries[c]
                                 ELSE corpus[c]]
    /\ pc' = "preflight"
    /\ UNCHANGED <<binaries, records, jsonl, summary, manifest, report, args,
                   toBuild, todo, session, history>>

\* The corpus manifest is written after the last artifact.
WriteCorpus ==
    /\ pc = "build" /\ toBuild = {}
    /\ corpus' = binaries
    /\ pc' = "preflight"
    /\ UNCHANGED <<binaries, records, jsonl, summary, manifest, report, args,
                   toBuild, todo, session, history>>

\* --no-rebuild-corpus: the corpus manifest on disk is used as it is.
LoadCorpus ==
    /\ pc = "load"
    /\ IF \A c \in Cases : corpus[c] \in Builds
         THEN pc' = "preflight" /\ UNCHANGED <<args, toBuild, todo, session>>
         ELSE Exit
    /\ UNCHANGED <<disk, history>>

\* A dry run ends here, having rebuilt the corpus all the same; otherwise the
\* health report, the checkouts, the targets and the model may stop the run.
PreflightStops ==
    /\ pc = "preflight"
    /\ Exit
    /\ UNCHANGED <<disk, history>>

\* Mutant of WriteManifest: the status of the run before is kept.
WriteManifestStale ==
    /\ pc = "preflight" /\ ~args.dryRun
    /\ manifest' = [manifest EXCEPT !.plan = Plan]
    /\ todo' = Plan
    /\ pc' = "jobs"
    /\ UNCHANGED <<binaries, corpus, records, jsonl, summary, report, args,
                   toBuild, session, history>>

\* The first write of a run: the manifest says "running" before any record.
WriteManifest ==
    /\ pc = "preflight" /\ ~args.dryRun
    /\ manifest' = [status |-> "running", plan |-> Plan, failures |-> {}]
    /\ todo' = Plan
    /\ pc' = "jobs"
    /\ UNCHANGED <<binaries, corpus, records, jsonl, summary, report, args,
                   toBuild, session, history>>

-----------------------------------------------------------------------------
\* A job whose record file exists is not run again, whatever it holds.
SkipJob ==
    /\ pc = "jobs"
    /\ \E job \in todo : HasRecord(job) /\ todo' = todo \ {job}
    /\ UNCHANGED <<disk, pc, args, toBuild, session, history>>

\* Mutant of StartSession: the record file is not looked for.
StartSessionAlways ==
    /\ pc = "jobs"
    /\ \E job \in todo : session' = {job}
    /\ pc' = "session"
    /\ sessions' = sessions + 1
    /\ UNCHANGED <<disk, args, toBuild, todo, runs, crashes, interrupted>>

StartSession ==
    /\ pc = "jobs"
    /\ \E job \in todo : ~HasRecord(job) /\ session' = {job}
    /\ pc' = "session"
    /\ sessions' = sessions + 1
    /\ UNCHANGED <<disk, args, toBuild, todo, runs, crashes, interrupted>>

\* Mutant of WriteRecord: the build is left out of the record's name.
WriteRecordByCase ==
    /\ pc = "session"
    /\ \E job \in session, failed \in BOOLEAN :
         /\ records' = {r \in records : r.job.case # job.case} \cup
                       {[job |-> job, failed |-> failed,
                         analysed |-> binaries[job.case]]}
         /\ todo' = todo \ {job}
    /\ session' = {}
    /\ pc' = "list"
    /\ UNCHANGED <<binaries, corpus, jsonl, summary, manifest, report, args,
                   toBuild, history>>

\* The session ends, with a score or with the exception it is recorded with,
\* and the record replaces any file of its name.
WriteRecord ==
    /\ pc = "session"
    /\ \E job \in session, failed \in BOOLEAN :
         /\ records' = {r \in records : r.job # job} \cup
                       {[job |-> job, failed |-> failed,
                         analysed |-> binaries[job.case]]}
         /\ todo' = todo \ {job}
    /\ session' = {}
    /\ pc' = "list"
    /\ UNCHANGED <<binaries, corpus, jsonl, summary, manifest, report, args,
                   toBuild, history>>

\* rebuild_jsonl after each new record.
WriteList ==
    /\ pc = "list"
    /\ jsonl' = Selected
    /\ pc' = "jobs"
    /\ UNCHANGED <<binaries, corpus, records, summary, manifest, report, args,
                   toBuild, todo, session, history>>

\* After the last job: summary.json, then the manifest with its final status,
\* then report.md, then runs.jsonl once more.
WriteSummary ==
    /\ pc = "jobs" /\ todo = {}
    /\ summary' = Selected
    /\ pc' = "close"
    /\ UNCHANGED <<binaries, corpus, records, jsonl, manifest, report, args,
                   toBuild, todo, session, history>>

WriteStatus ==
    /\ pc = "close"
    /\ manifest' = [manifest EXCEPT
           !.status = IF FailuresOf(Selected) = {} THEN "complete"
                      ELSE "complete_with_failures",
           !.failures = FailuresOf(Selected)]
    /\ pc' = "report"
    /\ UNCHANGED <<binaries, corpus, records, jsonl, summary, report, args,
                   toBuild, todo, session, history>>

WriteReport ==
    /\ pc = "report"
    /\ report' = manifest
    /\ pc' = "relist"
    /\ UNCHANGED <<binaries, corpus, records, jsonl, summary, manifest, args,
                   toBuild, todo, session, history>>

Finish ==
    /\ pc = "relist"
    /\ jsonl' = Selected
    /\ Exit
    /\ UNCHANGED <<binaries, corpus, records, summary, manifest, report,
                   history>>

\* The process is killed, interrupted, or cannot write a file.  A session it
\* was running leaves no record.
Crash ==
    /\ pc # "idle"
    /\ crashes < MaxCrashes
    /\ crashes' = crashes + 1
    /\ interrupted' = (interrupted \/ (pc = "build" /\ toBuild # Cases))
    /\ Exit
    /\ UNCHANGED <<disk, runs, sessions>>

Next ==
    \/ Invoke \/ BuildArtifact \/ BuildFails \/ WriteCorpus \/ LoadCorpus
    \/ PreflightStops \/ WriteManifest
    \/ SkipJob \/ StartSession \/ WriteRecord \/ WriteList
    \/ WriteSummary \/ WriteStatus \/ WriteReport \/ Finish
    \/ Crash

Spec == Init /\ [][Next]_vars

-----------------------------------------------------------------------------
\* Types, and at most one record for a job.
TypeOK ==
    /\ binaries \in [Cases -> Builds \cup {NoBuild}]
    /\ corpus \in [Cases -> Builds \cup {NoBuild}]
    /\ records \subseteq Records
    /\ \A r, s \in records : r.job = s.job => r = s
    /\ jsonl \subseteq records /\ summary \subseteq records
    /\ manifest \in Manifests /\ report \in Manifests
    /\ pc \in {"idle", "build", "load", "preflight", "jobs", "session", "list",
              "close", "report", "relist"}
    /\ args \in Arguments
    /\ toBuild \subseteq Cases
    /\ todo \subseteq Jobs /\ session \subseteq Jobs
    /\ runs \in 0 .. MaxRuns /\ crashes \in 0 .. MaxCrashes
    /\ sessions \in Nat /\ interrupted \in BOOLEAN

\* A resumed run pays again only for what a kill took away: over all
\* invocations there is one model session for every record, and at most one
\* more for every kill (runner.py:608 and :711).
WorkLostPerCrash ==
    sessions <= Cardinality(records) + crashes + Cardinality(session)

\* A manifest that says complete stands beside a summary with every job it
\* planned, and lists the failures of that summary, however often the run was
\* killed and resumed with other arguments before (runner.py:714 to :722).
CompleteCoversPlan ==
    manifest.status \in Completed =>
        /\ manifest.plan \subseteq JobsOf(summary)
        /\ manifest.failures = FailuresOf(summary)

\* The binary hash a record stores is the hash of what its session analysed,
\* unless a corpus build was cut off after it had overwritten a binary: the
\* corpus manifest is stale then, and --no-rebuild-corpus trusts it
\* (corpus.py:314, runner.py:615).
RecordNamesBinary ==
    (\E r \in records : r.analysed # r.job.build) => interrupted

\* The report's "N repetition(s)" (runner.py:401): the results of a complete
\* run are those of the repetitions it planned.
SummaryWithinPlan ==
    manifest.status \in Completed => JobsOf(summary) \subseteq manifest.plan
=============================================================================
