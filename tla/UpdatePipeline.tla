--------------------------- MODULE UpdatePipeline ---------------------------
(***************************************************************************)
(* From a saved C# or Razor file to the running application: the file      *)
(* watcher puts a job on the workspace's JobQueue; the job reads the file, *)
(* puts its text into the Roslyn workspace, compiles the project, and      *)
(* broadcasts what differs from the previous compilation                   *)
(* (LiveSharpWorkspace, JobQueue, LiveSharpHandler).                       *)
(*                                                                         *)
(* A Razor job compiles twice: the project as it was when the change was   *)
(* noticed, and that project with the code generated from the Razor file.  *)
(* Its second half has a name of its own, as it makes another compilation. *)
(*                                                                         *)
(* The queue runs one job at a time only up to its first await, because a  *)
(* continuation made from an async lambda is over when the lambda first    *)
(* returns.  From there on jobs overlap.                                   *)
(*                                                                         *)
(* Texts are version numbers and a compilation is the texts it was made    *)
(* of.  There is one project.  The dry run, the job that is queued when    *)
(* the solution has been loaded, is the job Dry.  Jobs are numbered in the *)
(* order in which their changes are noticed.                               *)
(***************************************************************************)
EXTENDS Naturals, Sequences

CONSTANTS
  Files,
  Razor,       \* those that are Razor files; a text of one is the code made from it
  MaxJobs,     \* bound: how many changes the watcher notices
  None,
  MaxVersion,  \* bound: how often a file is edited
  Broken       \* the <<file, version>> pairs that do not compile

ASSUME UpdatePipelineAssumption ==
  /\ Razor \subseteq Files
  /\ MaxJobs \in Nat
  /\ None \notin Nat \cup Files
  /\ MaxVersion \in Nat
  /\ Broken \subseteq Files \X (1..MaxVersion)

ASSUME NoTexts == None \notin [Files -> Nat]

Dry       == 0
Jobs      == 1..MaxJobs
Second(j) == MaxJobs + j
Seconds   == {Second(j) : j \in Jobs}
Builds    == 0..(2 * MaxJobs)

Versions == 0..MaxVersion
Texts    == [Files -> Versions]

VARIABLES
  disk,       \* the files
  seen,       \* _writeTimes of the watcher
  queue,      \* jobs that have not begun
  runner,     \* the job that holds up the queue, if any
  pc,         \* where each job is
  file,       \* the file each job is about
  base,       \* the version of the solution a job has started from, until it applies it
  text,       \* the texts each job compiles; from then on, its AssemblyContainer
  solution,   \* Workspace.CurrentSolution
  recent,     \* files whose entry in _changeTimeMap is less than 100 ms old
  cancelled,  \* _dryRunCancellation
  previous,   \* _previousDisposableAssemblies: the job whose container it holds
  disposed,   \* the containers that have been disposed
  against,    \* the container a job is comparing with
  cache,      \* the cache file of this build of the application
  app,        \* the texts whose code the application runs
  delayed,    \* history: jobs that could not read their file at once
  refused,    \* history: jobs whose solution the workspace has not taken
  missed,     \* history: files with a save that was dropped after the job before
              \* it had read the file, or that could not be read
  outdated,   \* history: a Razor job has begun with a project no longer current
  unsent,     \* history: files whose text of the build was replaced before the cache
              \* was made of them, and that no job has found changed since
  disturbed   \* history: jobs have overlapped, or one had nothing to compare with

fileVars == <<disk, seen>>
queueVars == <<queue, runner>>
jobVars == <<file, base, text, against>>
handlerVars == <<previous, disposed, cache, app>>
historyVars == <<delayed, refused, missed, outdated, unsent, disturbed>>
vars == <<fileVars, queueVars, pc, jobVars, solution, recent, cancelled,
          handlerVars, historyVars>>

Synchronous == {"start", "read", "apply"}
InFlight    == Synchronous \cup {"compile", "update", "send", "dispose", "store",
                                 "generate"}

(* The values the variables take; whoever holds up the queue is a job in    *)
(* the part that runs before the first await.                               *)
TypeOK ==
  /\ {disk, seen, app} \subseteq Texts
  /\ queue \in Seq(Builds)
  /\ runner \in Builds \cup {None}
  /\ runner # None => pc[runner] \in Synchronous
  /\ pc \in [Builds -> {"idle", "queued", "done"} \cup InFlight]
  /\ file \in [Builds -> Files \cup {None}]
  /\ base \in [Builds -> Nat]
  /\ text \in [Builds -> Texts]
  /\ against \in [Builds -> Builds \cup {None}]
  /\ solution \in [texts : Texts, version : Nat]
  /\ recent \subseteq Files
  /\ missed \subseteq Files /\ unsent \subseteq Files
  /\ {cancelled, outdated, disturbed} \subseteq BOOLEAN
  /\ previous \in Builds \cup {None}
  /\ {disposed, delayed, refused} \subseteq SUBSET Builds
  /\ cache \in Texts \cup {None}

\* The application runs what was built, text 0 of every file.  The solution was
\* loaded from the disk, maybe after an edit, and the watcher's first scan may have
\* come after another.  There is a cache file of the build if the dashboard has run
\* since; it is of the first solution that was loaded then, and compiled.
Compilable(texts) == \A f \in Files : <<f, texts[f]>> \notin Broken

Init ==
  \E loaded \in [Files -> {0, 1} \cap Versions] :
    /\ solution = [texts |-> loaded, version |-> 0]
    /\ disk \in [Files -> {0, 1} \cap Versions]
    /\ \A f \in Files : loaded[f] <= disk[f]
    /\ seen = disk
    /\ queue = <<Dry>>
    /\ runner = None
    /\ pc = [b \in Builds |-> IF b = Dry THEN "queued" ELSE "idle"]
    /\ file = [b \in Builds |-> None]
    /\ base = [b \in Builds |-> 0]
    /\ text = [b \in Builds |-> loaded]
    /\ against = [b \in Builds |-> None]
    /\ recent = {}
    /\ cancelled = FALSE
    /\ previous = None
    /\ disposed = {}
    /\ app = [f \in Files |-> 0]
    /\ cache \in {None} \cup {texts \in [Files -> {0, 1} \cap Versions] :
                               /\ Compilable(texts)
                               /\ \A f \in Files : texts[f] <= loaded[f]}
    /\ unsent = IF cache = None THEN {} ELSE {f \in Files : cache[f] # app[f]}
    /\ delayed = {}
    /\ refused = {}
    /\ missed = {}
    /\ outdated = FALSE
    /\ disturbed = FALSE

Goto(b, from, to) == pc[b] = from /\ pc' = [pc EXCEPT ![b] = to]

\* b returns from the queue's lambda, or it has done so before.
FreeQueue(b) == runner' = IF runner = b THEN None ELSE runner

-----------------------------------------------------------------------------
\* The developer and the watcher.

Edit(f) ==
  /\ disk[f] < MaxVersion
  /\ disk' = [disk EXCEPT ![f] = @ + 1]
  /\ UNCHANGED <<seen, queueVars, pc, jobVars, solution, recent, cancelled,
                 handlerVars, historyVars>>

\* Mutant: a file that a job is at work on is noted and gets no second job.
NoticeOnce(f, j) ==
  /\ disk[f] # seen[f]
  /\ seen' = [seen EXCEPT ![f] = disk[f]]
  /\ \A i \in Jobs : i < j => pc[i] # "idle"
  /\ \/ /\ \E i \in Jobs : file[i] = f /\ pc[i] \in InFlight
        /\ UNCHANGED <<pc, file, queue, cancelled, base, text>>
     \/ /\ \A i \in Jobs : file[i] = f => pc[i] \notin InFlight
        /\ Goto(j, "idle", "queued")
        /\ file' = [file EXCEPT ![j] = f]
        /\ queue' = Append(queue, j)
        /\ cancelled' = (cancelled \/ f \notin Razor)
        /\ UNCHANGED <<base, text>>
  /\ UNCHANGED <<disk, runner, against, solution, recent, handlerVars, historyVars>>

\* A scan finds a newer write time: CsFileChanged, which cancels the dry run, or
\* RazorFileChanged, which takes the document, and its project, out of the
\* solution as it is now.
Notice(f, j) ==
  /\ disk[f] # seen[f]
  /\ \A i \in Jobs : i < j => pc[i] # "idle"
  /\ Goto(j, "idle", "queued")
  /\ seen' = [seen EXCEPT ![f] = disk[f]]
  /\ file' = [file EXCEPT ![j] = f]
  /\ queue' = Append(queue, j)
  /\ IF f \in Razor
     THEN /\ base' = [base EXCEPT ![j] = solution.version]
          /\ text' = [text EXCEPT ![j] = solution.texts]
          /\ UNCHANGED cancelled
     ELSE cancelled' = TRUE /\ UNCHANGED <<base, text>>
  /\ UNCHANGED <<disk, runner, against, solution, recent, handlerVars, historyVars>>

\* The same without a valid license: the file is not looked at again for this save.
Ignore(f) ==
  /\ disk[f] # seen[f]
  /\ seen' = [seen EXCEPT ![f] = disk[f]]
  /\ missed' = missed \cup {f}
  /\ UNCHANGED <<disk, queueVars, pc, jobVars, solution, recent, cancelled,
                 handlerVars, delayed, refused, outdated, unsent, disturbed>>

\* A tenth of a second goes by.
TimePasses(f) ==
  /\ f \in recent
  /\ recent' = recent \ {f}
  /\ UNCHANGED <<fileVars, queueVars, pc, jobVars, solution, cancelled,
                 handlerVars, historyVars>>

-----------------------------------------------------------------------------
\* The queue and the part of a job before its first await.

\* Mutant: a job begins without waiting for the one before it.
RunNextAtOnce ==
  /\ queue # <<>>
  /\ Goto(Head(queue), "queued", "start")
  /\ queue' = Tail(queue)
  /\ runner' = Head(queue)
  /\ disturbed' = (disturbed \/ \E b \in Builds : pc[b] \in InFlight)
  /\ UNCHANGED <<fileVars, jobVars, solution, recent, cancelled, handlerVars,
                 delayed, refused, missed, outdated, unsent>>

RunNext ==
  /\ runner = None
  /\ queue # <<>>
  /\ Goto(Head(queue), "queued", "start")
  /\ queue' = Tail(queue)
  /\ runner' = Head(queue)
  /\ disturbed' = (disturbed \/ \E b \in Builds : pc[b] \in InFlight)
  /\ UNCHANGED <<fileVars, jobVars, solution, recent, cancelled, handlerVars,
                 delayed, refused, missed, outdated, unsent>>

\* The dry run takes the text of a document from the solution itself.
StartDry ==
  /\ Goto(Dry, "start", IF cancelled THEN "done" ELSE "apply")
  /\ IF cancelled THEN FreeQueue(Dry) ELSE UNCHANGED runner
  /\ base' = [base EXCEPT ![Dry] = solution.version]
  /\ text' = [text EXCEPT ![Dry] = solution.texts]
  /\ UNCHANGED <<fileVars, queue, file, against, solution, recent, cancelled,
                 handlerVars, historyVars>>

\* The await of that text, if it is not in memory yet, lets the queue go on.
DryLater ==
  /\ pc[Dry] = "apply"
  /\ runner = Dry
  /\ FreeQueue(Dry)
  /\ delayed' = delayed \cup {Dry}
  /\ UNCHANGED <<fileVars, queue, pc, jobVars, solution, recent, cancelled,
                 handlerVars, refused, missed, outdated, unsent, disturbed>>

\* FileChanged returns at once if the file was handled less than 100 ms ago.
\* A job that is still trying to read the file will see this save as well.
Debounce(j) ==
  /\ file[j] \in recent \ Razor
  /\ Goto(j, "start", "done")
  /\ FreeQueue(j)
  /\ missed' = IF \E i \in Jobs : file[i] = file[j] /\ pc[i] = "read"
               THEN missed ELSE missed \cup {file[j]}
  /\ UNCHANGED <<fileVars, queue, jobVars, solution, recent, cancelled,
                 handlerVars, delayed, refused, outdated, unsent, disturbed>>

Start(j) ==
  /\ file[j] \notin recent \cup Razor
  /\ Goto(j, "start", "read")
  /\ recent' = recent \cup {file[j]}
  /\ base' = [base EXCEPT ![j] = solution.version]
  /\ text' = [text EXCEPT ![j] = solution.texts]
  /\ UNCHANGED <<fileVars, queueVars, file, against, solution, cancelled,
                 handlerVars, historyVars>>

Read(j) ==
  /\ Goto(j, "read", "apply")
  /\ text' = [text EXCEPT ![j][file[j]] = disk[file[j]]]
  /\ missed' = missed \ {file[j]}
  /\ UNCHANGED <<fileVars, queueVars, file, base, against, solution, recent,
                 cancelled, handlerVars, delayed, refused, outdated, unsent, disturbed>>

\* The editor still has the file open: an await, before the next of 100 tries ...
ReadLater(j) ==
  /\ pc[j] = "read"
  /\ runner = j
  /\ FreeQueue(j)
  /\ delayed' = delayed \cup {j}
  /\ UNCHANGED <<fileVars, queue, pc, jobVars, solution, recent, cancelled,
                 handlerVars, refused, missed, outdated, unsent, disturbed>>

\* ... of which none succeeds.
ReadFails(j) ==
  /\ runner # j
  /\ Goto(j, "read", "done")
  /\ missed' = missed \cup {file[j]}
  /\ UNCHANGED <<fileVars, queueVars, jobVars, solution, recent, cancelled,
                 handlerVars, delayed, refused, outdated, unsent, disturbed>>

\* A Razor job has its project already; the first thing it does is an await, of
\* the semantic model, and what follows overlaps with later jobs.
StartRazor(j) ==
  /\ file[j] \in Razor
  /\ Goto(j, "start", "compile")
  /\ FreeQueue(j)
  /\ outdated' = (outdated \/ base[j] # solution.version)
  /\ UNCHANGED <<fileVars, queue, jobVars, solution, recent, cancelled,
                 handlerVars, delayed, refused, missed, unsent, disturbed>>

\* When the project has been compiled as it was: the code generated from the file
\* as it is now goes into it, and SourceChanged is called for that ...
Generate(j) ==
  LET k == Second(j) IN
  /\ file[j] \in Razor
  /\ pc[j] = "generate"
  /\ pc[k] = "idle"
  /\ pc' = [pc EXCEPT ![j] = "done", ![k] = "apply"]
  /\ base' = [base EXCEPT ![k] = base[j], ![j] = 0]
  /\ text' = [text EXCEPT ![k] = [text[j] EXCEPT ![file[j]] = disk[file[j]]]]
  /\ missed' = missed \ {file[j]}
  /\ UNCHANGED <<fileVars, queueVars, file, against, solution, recent, cancelled,
                 handlerVars, delayed, refused, outdated, unsent, disturbed>>

\* ... unless the file cannot be read, or has no generated document.
GenerateFails(j) ==
  /\ file[j] \in Razor
  /\ Goto(j, "generate", "done")
  /\ missed' = missed \cup {file[j]}
  /\ UNCHANGED <<fileVars, queueVars, jobVars, solution, recent, cancelled,
                 handlerVars, delayed, refused, outdated, unsent, disturbed>>

\* Mutants: the workspace is not changed; it takes every solution; the queue is
\* held until the job is over.
ApplyNothing(b) ==
  /\ Goto(b, "apply", "compile")
  /\ FreeQueue(b)
  /\ UNCHANGED <<fileVars, queue, jobVars, solution, recent, cancelled,
                 handlerVars, historyVars>>

ApplyAnyway(b) ==
  /\ Goto(b, "apply", "compile")
  /\ FreeQueue(b)
  /\ solution' = [texts |-> text[b], version |-> solution.version + 1]
  /\ UNCHANGED <<fileVars, queue, jobVars, recent, cancelled, handlerVars, historyVars>>

ApplyAndHold(b) ==
  /\ Goto(b, "apply", "compile")
  /\ solution' = [texts |-> text[b], version |-> solution.version + 1]
  /\ UNCHANGED <<fileVars, queueVars, jobVars, recent, cancelled,
                 handlerVars, historyVars>>

\* SourceChanged: TryApplyChanges takes only a solution that was made from the
\* current one, and its answer is ignored.  Then the await of the semantic model.
Apply(b) ==
  /\ Goto(b, "apply", "compile")
  /\ FreeQueue(b)
  /\ IF base[b] = solution.version
     THEN /\ solution' = [texts |-> text[b], version |-> solution.version + 1]
          /\ UNCHANGED refused
     ELSE /\ refused' = refused \cup {b}
          /\ UNCHANGED solution
  /\ base' = [base EXCEPT ![b] = 0]
  /\ UNCHANGED <<fileVars, queue, file, text, against, recent, cancelled,
                 handlerVars, delayed, missed, outdated, unsent, disturbed>>

-----------------------------------------------------------------------------
\* PrepareUpdatesAsync.  Every exception is caught and ends it, and with it the job,
\* or the first half of a Razor job.

\* Mutant: a Razor job ends with its first half.
AfterFirst(b) == "done"

After(b) == IF b \in Jobs /\ file[b] \in Razor THEN "generate" ELSE "done"

Compiles(b) == Compilable(text[b])

Compile(b) ==
  /\ Goto(b, "compile", IF Compiles(b) THEN "update" ELSE After(b))
  /\ UNCHANGED <<fileVars, queueVars, jobVars, solution, recent, cancelled,
                 handlerVars, historyVars>>

\* A broadcast carries the members that are new or changed; those that are the
\* same stay as they are in the application.
Patched(old, new) == [f \in Files |-> IF old[f] = new[f] THEN app[f] ELSE new[f]]

\* The first compilation of a build goes to the cache, and what was edited since the
\* build is not sent; later ones, after a restart of the dashboard, are compared
\* with it.
DryRun ==
  /\ Goto(Dry, "update", "dispose")
  /\ \/ /\ cache = None
        /\ cache' = text[Dry]
        /\ unsent' = {f \in Files : text[Dry][f] # app[f]}
        /\ UNCHANGED app
     \/ /\ cache # None
        /\ app' = Patched(cache, text[Dry])
        /\ unsent' = {f \in unsent : text[Dry][f] = cache[f]}
        /\ UNCHANGED cache
  /\ UNCHANGED <<fileVars, queueVars, jobVars, solution, recent, cancelled,
                 previous, disposed, delayed, refused, missed, outdated, disturbed>>

\* MainUpdate gets hold of the previous container ...
LookUpPrevious(j) ==
  /\ j # Dry
  /\ Goto(j, "update", IF previous = None THEN "dispose"
                       ELSE IF previous \in disposed THEN After(j) ELSE "send")
  /\ against' = [against EXCEPT ![j] = IF previous \in disposed THEN None ELSE previous]
  /\ disturbed' = (disturbed \/ previous = None)
  /\ UNCHANGED <<fileVars, queueVars, file, base, text, solution, recent,
                 cancelled, handlerVars, delayed, refused, missed, outdated, unsent>>

\* Mutant: only the changed file is compared.
SendOwnFile(j) ==
  /\ Goto(j, "send", "dispose")
  /\ file[j] \in Files
  /\ app' = [app EXCEPT ![file[j]] = text[j][file[j]]]
  /\ UNCHANGED <<fileVars, queueVars, jobVars, solution, recent, cancelled,
                 previous, disposed, cache, historyVars>>

\* ... and compares with it, which fails if it was disposed and had not been
\* read completely by then.
Send(j) ==
  /\ Goto(j, "send", "dispose")
  /\ app' = Patched(text[against[j]], text[j])
  /\ unsent' = {f \in unsent : text[j][f] = text[against[j]][f]}
  /\ against' = [against EXCEPT ![j] = None]
  /\ UNCHANGED <<fileVars, queueVars, file, base, text, solution, recent, cancelled,
                 previous, disposed, cache, delayed, refused, missed, outdated, disturbed>>

SendFails(j) ==
  /\ against[j] \in disposed
  /\ Goto(j, "send", After(j))
  /\ against' = [against EXCEPT ![j] = None]
  /\ UNCHANGED <<fileVars, queueVars, file, base, text, solution, recent,
                 cancelled, handlerVars, historyVars>>

DisposePrevious(b) ==
  /\ Goto(b, "dispose", "store")
  /\ disposed' = disposed \cup ({previous} \ {None})
  /\ UNCHANGED <<fileVars, queueVars, jobVars, solution, recent, cancelled,
                 previous, cache, app, historyVars>>

\* Mutant: the new container is kept only if there was none.
StoreFirst(b) ==
  /\ Goto(b, "store", After(b))
  /\ previous' = IF previous = None THEN b ELSE previous
  /\ UNCHANGED <<fileVars, queueVars, jobVars, solution, recent, cancelled,
                 disposed, cache, app, historyVars>>

Store(b) ==
  /\ Goto(b, "store", After(b))
  /\ previous' = b
  /\ UNCHANGED <<fileVars, queueVars, jobVars, solution, recent, cancelled,
                 disposed, cache, app, historyVars>>

-----------------------------------------------------------------------------
BuildStep(b) ==
  \/ b = Dry /\ (StartDry \/ DryLater \/ DryRun)
  \/ b \in Jobs /\ (\/ Debounce(b) \/ Start(b) \/ Read(b) \/ ReadLater(b)
                    \/ ReadFails(b) \/ StartRazor(b) \/ Generate(b) \/ GenerateFails(b))
  \/ b # Dry /\ (LookUpPrevious(b) \/ Send(b) \/ SendFails(b))
  \/ Apply(b) \/ Compile(b) \/ DisposePrevious(b) \/ Store(b)

Next ==
  \/ \E f \in Files : Edit(f) \/ TimePasses(f) \/ Ignore(f)
  \/ \E f \in Files, j \in Jobs : Notice(f, j)
  \/ RunNext
  \/ \E b \in Builds : BuildStep(b)

Spec == Init /\ [][Next]_vars

\* The thread pool runs what it was given; nobody has to edit, and how scans and
\* time go by is left open.
FairSpec ==
  /\ Spec
  /\ WF_vars(RunNext)
  /\ \A b \in Builds : WF_vars(BuildStep(b))

-----------------------------------------------------------------------------
(* The container that the next update is compared with has not been        *)
(* disposed, except while a job is on its way to replace it: no order of   *)
(* overlapping jobs leaves a disposed one behind, with which every later   *)
(* update would fail.                                                      *)
PreviousUsable ==
  previous \in disposed => \E b \in Builds : pc[b] = "store"

(* The workspace refuses a job's solution, and so forgets the job's edit,  *)
(* only after some job had to wait for its file or a Razor job has begun:  *)
(* otherwise the queue keeps what a job does between taking the solution   *)
(* and applying it to itself.                                              *)
RazorBegun == \E j \in Jobs : file[j] \in Razor /\ pc[j] \notin {"idle", "queued"}
RefusedOnlyIfDelayed == refused # {} => delayed # {} \/ RazorBegun

(* No job, however late and whatever project it started from, puts an      *)
(* older text of a file back into the workspace: what would is refused.    *)
WorkspaceForward ==
  [][\A f \in Files : solution'.texts[f] >= solution.texts[f]]_vars

(* When everything that was noticed has been handled, the workspace has    *)
(* the file as it was saved last, even if the file did not compile, unless *)
(* a save was dropped within 100 ms of one that had been read already or   *)
(* for want of a license, a file could not be read, or a solution was      *)
(* refused.                                                                *)
AtRest  == \A b \in Builds : pc[b] \notin InFlight
Handled(f) == \E j \in Jobs : file[j] = f
SavedIsApplied ==
  (AtRest /\ queue = <<>> /\ refused = {}) =>
    \A f \in Files \ missed :
      Handled(f) /\ seen[f] = disk[f] => solution.texts[f] = disk[f]

(* While jobs do not overlap, the application runs, whenever the pipeline  *)
(* is at rest, exactly what was last compiled without errors, also with    *)
(* edits in between that did not compile, and what was edited while the    *)
(* dashboard was stopped: of every file but one that was edited between    *)
(* the build and the first dry run after it, which the application gets    *)
(* only when a compilation differs in that file again.                     *)
UpToDate(texts) == \A f \in Files \ unsent : app[f] = texts[f]
InStep == AtRest /\ ~disturbed /\ previous # None => UpToDate(text[previous])

(* While jobs do not overlap, no update takes the application back to an   *)
(* older text of a file, unless a Razor job has begun that was noticed     *)
(* before an edit that has been applied since.                             *)
NeverBackwards ==
  [][~disturbed' /\ ~outdated' => \A f \in Files : app'[f] >= app[f]]_vars

(* Every change that is noticed is handled: the queue is never held up for *)
(* good, neither by a debounced job nor by one that failed.                *)
JobsComplete == \A b \in Jobs \cup {Dry} : pc[b] = "queued" ~> pc[b] = "done"
=============================================================================
