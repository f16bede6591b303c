------------------------- MODULE UpdatePipelineProofs -------------------------
(***************************************************************************)
(* Proofs about UpdatePipeline, for any number of files, jobs and edits.   *)
(***************************************************************************)
EXTENDS UpdatePipeline, TLAPS

\* The names of jobs are apart.
LEMMA BuildNames ==
  /\ Jobs \subseteq Builds /\ Dry \in Builds \ Jobs /\ None \notin Builds
  /\ \A j \in Jobs : Second(j) \in Builds \ (Jobs \cup {Dry})
  BY UpdatePipelineAssumption DEF Jobs, Builds, Dry, Second

\* What TypeOK needs to be inductive: a job that was queued is about a file.
Named == \A j \in Jobs : pc[j] # "idle" => file[j] \in Files

LEMMA InitTypeOK == Init => TypeOK
<1> SUFFICES ASSUME Init PROVE TypeOK
  OBVIOUS
<1> USE UpdatePipelineAssumption, BuildNames DEF Init, Texts, Versions
<1>1. {disk, seen, app} \subseteq Texts
  OBVIOUS
<1>2. queue \in Seq(Builds)
  OBVIOUS
<1>3. /\ runner \in Builds \cup {None}
      /\ runner # None => pc[runner] \in Synchronous
      /\ pc \in [Builds -> {"idle", "queued", "done"} \cup InFlight]
  OBVIOUS
<1>4. /\ file \in [Builds -> Files \cup {None}]
      /\ base \in [Builds -> Nat]
      /\ text \in [Builds -> Texts]
      /\ against \in [Builds -> Builds \cup {None}]
  OBVIOUS
<1>5. /\ solution \in [texts : Texts, version : Nat]
      /\ cache \in Texts \cup {None}
  OBVIOUS
<1>6. recent \subseteq Files /\ previous \in Builds \cup {None}
  OBVIOUS
<1>7. {cancelled, outdated, disturbed} \subseteq BOOLEAN /\ missed \subseteq Files
  BY Zenon
<1>9. unsent \subseteq Files
  <2>1. CASE cache = None
    BY <2>1
  <2>2. CASE cache # None
    BY <2>2
  <2> QED
    BY <2>1, <2>2
<1>8. {disposed, delayed, refused} \subseteq SUBSET Builds
  OBVIOUS
<1> QED
  BY <1>1, <1>2, <1>3, <1>4, <1>5, <1>6, <1>7, <1>8, <1>9 DEF TypeOK

\* The jobs: every step of one leaves the values as they should be.
LEMMA BuildTypeOK ==
  ASSUME TypeOK, Named, NEW b \in Builds, BuildStep(b)
  PROVE  TypeOK'
<1> USE UpdatePipelineAssumption, BuildNames
    DEF TypeOK, Texts, Synchronous, InFlight, Goto, FreeQueue,
        fileVars, queueVars, jobVars, handlerVars, historyVars
<1>1. CASE b = Dry /\ StartDry
  BY <1>1 DEF StartDry
<1>2. CASE b = Dry /\ DryRun
  <2>1. pc' = [pc EXCEPT ![Dry] = "dispose"] /\ pc[Dry] = "update"
    BY <1>2 DEF DryRun
  <2>2. /\ pc' \in [Builds -> {"idle", "queued", "done"} \cup InFlight]
        /\ runner # None => pc'[runner] \in Synchronous
    BY <2>1
  <2>3. {disk', seen', app'} \subseteq Texts /\ cache' \in Texts \cup {None}
    <3>1. disk \in Texts /\ seen \in Texts /\ app \in Texts /\ text[Dry] \in Texts
      OBVIOUS
    <3>2. CASE cache = None
      BY <1>2, <3>1, <3>2 DEF DryRun
    <3>3. CASE cache # None
      <4>1. cache' = cache /\ cache \in Texts /\ disk' = disk /\ seen' = seen
        BY <1>2, <3>3 DEF DryRun
      <4>2. app' = Patched(cache, text[Dry])
        BY <1>2, <3>3 DEF DryRun
      <4>3. app' \in Texts
        BY <3>1, <4>1, <4>2 DEF Patched
      <4> QED
        BY <3>1, <4>1, <4>3
    <3> QED
      BY <3>2, <3>3
  <2>4. UNCHANGED <<queue, runner, file, base, text, against, solution, recent, cancelled,
                    previous, disposed, delayed, refused, missed, outdated, disturbed>>
    BY <1>2 DEF DryRun
  <2>5. unsent' \subseteq Files
    BY <1>2 DEF DryRun
  <2> QED
    BY <2>2, <2>3, <2>4, <2>5
<1>3. CASE Debounce(b) /\ b \in Jobs
  BY <1>3 DEF Debounce
<1>4. CASE Start(b) /\ b \in Jobs
  <2>1. pc' \in [Builds -> {"idle", "queued", "done"} \cup InFlight] /\ pc'[b] = "read"
    BY <1>4 DEF Start
  <2>2. recent' \subseteq Files
    BY <1>4 DEF Start, Named
  <2>3. base' \in [Builds -> Nat] /\ text' \in [Builds -> Texts]
    BY <1>4 DEF Start
  <2> QED
    BY <1>4, <2>1, <2>2, <2>3 DEF Start
<1>5. CASE Read(b) /\ b \in Jobs
  <2>1. pc' \in [Builds -> {"idle", "queued", "done"} \cup InFlight] /\ pc'[b] = "apply"
    BY <1>5 DEF Read
  <2>2. b \in Jobs /\ file[b] \in Files
    BY <1>5 DEF Read, Named
  <2>3. text' \in [Builds -> Texts]
    BY <1>5, <2>2 DEF Read
  <2> QED
    BY <1>5, <2>1, <2>3 DEF Read
<1>6. CASE ReadLater(b) /\ b \in Jobs
  BY <1>6 DEF ReadLater
<1>7. CASE ReadFails(b) /\ b \in Jobs
  BY <1>7 DEF ReadFails, Named
<1>8. CASE LookUpPrevious(b)
  BY <1>8 DEF LookUpPrevious, After
<1>9. CASE Send(b)
  BY <1>9 DEF Send, Patched
<1>10. CASE SendFails(b)
  BY <1>10 DEF SendFails, After
<1>11. CASE Apply(b)
  BY <1>11 DEF Apply
<1>12. CASE Compile(b)
  BY <1>12 DEF Compile, After
<1>13. CASE DisposePrevious(b)
  BY <1>13 DEF DisposePrevious
<1>14. CASE Store(b)
  BY <1>14 DEF Store, After
<1>15. CASE StartRazor(b) /\ b \in Jobs
  BY <1>15 DEF StartRazor
<1>16. CASE Generate(b) /\ b \in Jobs
  <2>1. pc' \in [Builds -> {"idle", "queued", "done"} \cup InFlight]
    BY <1>16 DEF Generate
  <2>2. b \in Jobs /\ file[b] \in Files
    BY <1>16 DEF Generate, Named
  <2>3. base' \in [Builds -> Nat] /\ text' \in [Builds -> Texts]
    BY <1>16, <2>2 DEF Generate
  <2>4. runner' # None => pc'[runner'] \in Synchronous
    BY <1>16 DEF Generate
  <2> QED
    BY <1>16, <2>1, <2>3, <2>4 DEF Generate
<1>17. CASE GenerateFails(b) /\ b \in Jobs
  BY <1>17 DEF GenerateFails, Named
<1>18. CASE b = Dry /\ DryLater
  BY <1>18 DEF DryLater
<1> QED
  BY <1>1, <1>2, <1>3, <1>4, <1>5, <1>6, <1>7, <1>8, <1>9, <1>10, <1>11, <1>12,
     <1>13, <1>14, <1>15, <1>16, <1>17, <1>18 DEF BuildStep

LEMMA NextTypeOK == TypeOK /\ Named /\ [Next]_vars => TypeOK'
<1> SUFFICES ASSUME TypeOK, Named, [Next]_vars PROVE TypeOK'
  OBVIOUS
<1> USE UpdatePipelineAssumption, BuildNames
    DEF TypeOK, Texts, Versions, Synchronous, InFlight, Goto,
        fileVars, queueVars, jobVars, handlerVars, historyVars
<1>1. ASSUME NEW f \in Files, Edit(f) PROVE TypeOK'
  <2>1. disk' \in Texts
    BY <1>1 DEF Edit
  <2>2. UNCHANGED <<seen, app, queue, runner, pc, file, base, text, against, solution, recent,
                    cancelled, outdated, disturbed, previous, disposed, delayed, refused,
                    missed, unsent, cache>>
    BY <1>1 DEF Edit
  <2>3. {disk', seen', app'} \subseteq Texts
    BY <2>1, <2>2
  <2> HIDE DEF Texts
  <2> QED
    BY <2>2, <2>3
<1>2. ASSUME NEW f \in Files, TimePasses(f) PROVE TypeOK'
  BY <1>2 DEF TimePasses
<1>3. ASSUME NEW f \in Files, NEW j \in Jobs, Notice(f, j) PROVE TypeOK'
  <2>1. queue' \in Seq(Builds)
    BY <1>3 DEF Notice
  <2>2. runner' # None => pc'[runner'] \in Synchronous
    BY <1>3 DEF Notice
  <2>3. seen' \in Texts
    BY <1>3 DEF Notice
  <2>4. pc' \in [Builds -> {"idle", "queued", "done"} \cup InFlight]
    BY <1>3 DEF Notice
  <2>5. file' \in [Builds -> Files \cup {None}]
    BY <1>3 DEF Notice
  <2>6. /\ cancelled' = TRUE \/ cancelled' = cancelled
        /\ disturbed' = disturbed /\ outdated' = outdated /\ missed' = missed /\ unsent' = unsent
    BY <1>3 DEF Notice
  <2>7. {cancelled', outdated', disturbed'} \subseteq BOOLEAN /\ missed' \subseteq Files
    <3> HIDE DEF TypeOK
    <3>1. {cancelled, outdated, disturbed} \subseteq BOOLEAN /\ missed \subseteq Files
      BY DEF TypeOK
    <3> QED
      BY <2>6, <3>1, Zenon
  <2>8. {disk', seen', app'} \subseteq Texts
    <3>1. disk' = disk /\ app' = app
      BY <1>3 DEF Notice
    <3>2. disk \in Texts /\ app \in Texts
      OBVIOUS
    <3> QED
      BY <2>3, <3>1, <3>2
  <2>9. runner' \in Builds \cup {None}
    BY <1>3 DEF Notice
  <2>10. /\ base' \in [Builds -> Nat]
         /\ text' \in [Builds -> Texts]
         /\ against' \in [Builds -> Builds \cup {None}]
         /\ solution' \in [texts : Texts, version : Nat]
         /\ recent' \subseteq Files
         /\ previous' \in Builds \cup {None}
         /\ {disposed', delayed', refused'} \subseteq SUBSET Builds
         /\ cache' \in Texts \cup {None}
    BY <1>3 DEF Notice
  <2> QED
    BY <2>1, <2>2, <2>4, <2>5, <2>6, <2>7, <2>8, <2>9, <2>10 DEF Texts
<1>4. ASSUME RunNext PROVE TypeOK'
  BY <1>4 DEF RunNext
<1>5. ASSUME NEW b \in Builds, BuildStep(b) PROVE TypeOK'
  BY <1>5, BuildTypeOK
<1>6. ASSUME NEW f \in Files, Ignore(f) PROVE TypeOK'
  BY <1>6 DEF Ignore
<1>7. CASE UNCHANGED vars
  BY <1>7 DEF vars
<1> QED
  BY <1>1, <1>2, <1>3, <1>4, <1>5, <1>6, <1>7 DEF Next

LEMMA InitNamed == Init => Named
  BY UpdatePipelineAssumption, BuildNames DEF Init, Named

LEMMA NextNamed == TypeOK /\ Named /\ [Next]_vars => Named'
<1> SUFFICES ASSUME TypeOK, Named, [Next]_vars PROVE Named'
  OBVIOUS
<1> USE UpdatePipelineAssumption, BuildNames
    DEF TypeOK, Named, Goto, fileVars, queueVars, jobVars, handlerVars, historyVars
<1>1. ASSUME NEW f \in Files, Edit(f) PROVE Named'
  BY <1>1 DEF Edit
<1>2. ASSUME NEW f \in Files, TimePasses(f) \/ Ignore(f) PROVE Named'
  BY <1>2 DEF TimePasses, Ignore
<1>3. ASSUME NEW f \in Files, NEW j \in Jobs, Notice(f, j) PROVE Named'
  BY <1>3 DEF Notice
<1>4. ASSUME RunNext PROVE Named'
  <2>1. PICK h : h = Head(queue)
    OBVIOUS
  <2>2. \A j \in Jobs : pc[j] = "idle" => pc'[j] = "idle"
    BY <1>4, <2>1 DEF RunNext
  <2> QED
    BY <1>4, <2>2 DEF RunNext
<1>5. ASSUME NEW b \in Builds, BuildStep(b) PROVE Named'
  <2> HIDE DEF TypeOK, Named
  <2>1. pc \in [Builds -> {"idle", "queued", "done"} \cup InFlight]
    BY DEF TypeOK
  <2>2. file' = file /\ \A j \in Jobs : pc[j] = "idle" => pc'[j] = "idle"
    <3>1. CASE b = Dry /\ (StartDry \/ DryLater \/ DryRun)
      BY <2>1, <3>1 DEF StartDry, DryLater, DryRun
    <3>2. CASE b \in Jobs /\ (Debounce(b) \/ Start(b) \/ Read(b) \/ ReadLater(b) \/ ReadFails(b))
      BY <2>1, <3>2 DEF Debounce, Start, Read, ReadLater, ReadFails
    <3>3. CASE b \in Jobs /\ (StartRazor(b) \/ GenerateFails(b))
      BY <2>1, <3>3 DEF StartRazor, GenerateFails
    <3>4. CASE b \in Jobs /\ Generate(b)
      <4>1. PICK k : k = Second(b)
        OBVIOUS
      <4>2. /\ pc' = [pc EXCEPT ![b] = "done", ![k] = "apply"] /\ file' = file
            /\ pc[b] = "generate" /\ k \notin Jobs
        BY <3>4, <4>1 DEF Generate
      <4> QED
        BY <2>1, <4>2
    <3>5. CASE LookUpPrevious(b) \/ Send(b) \/ SendFails(b)
      BY <2>1, <3>5 DEF LookUpPrevious, Send, SendFails, After
    <3>6. CASE Apply(b) \/ Compile(b) \/ DisposePrevious(b) \/ Store(b)
      BY <2>1, <3>6 DEF Apply, Compile, DisposePrevious, Store, After
    <3> QED
      BY <1>5, <3>1, <3>2, <3>3, <3>4, <3>5, <3>6 DEF BuildStep
  <2> QED
    BY <2>2 DEF Named
<1>6. CASE UNCHANGED vars
  BY <1>6 DEF vars
<1> QED
  BY <1>1, <1>2, <1>3, <1>4, <1>5, <1>6 DEF Next

LEMMA PipelineInductive == Spec => [](TypeOK /\ Named)
  BY InitTypeOK, NextTypeOK, InitNamed, NextNamed, PTL DEF Spec

(* The variables of the pipeline have their types, and only a job that has *)
(* not come to its first await holds up the JobQueue.                      *)
THEOREM PipelineTypes == Spec => []TypeOK
  BY PipelineInductive, PTL

-----------------------------------------------------------------------------
\* What PreviousUsable needs to be inductive: a container that is held, or was
\* disposed, is that of a job which is over, or of the first half of a Razor job that
\* is, so nobody can store it once more.
Over == {"generate", "done"}
Kept ==
  /\ previous # None => pc[previous] \in Over
  /\ \A b \in disposed : pc[b] \in Over
  /\ PreviousUsable

LEMMA InitKept == Init => Kept
  BY DEF Init, Kept, PreviousUsable

\* The steps that replace no container and move no job that is about to, or over.
Apart ==
  /\ UNCHANGED <<previous, disposed>>
  /\ \A b \in Builds : /\ pc[b] = "store" => pc'[b] = "store"
                       /\ pc[b] \in Over => pc'[b] \in Over

LEMMA BuildApart ==
  ASSUME TypeOK, NEW b \in Builds, BuildStep(b), ~DisposePrevious(b), ~Store(b)
  PROVE  Apart
<1> USE BuildNames
    DEF TypeOK, Apart, Over, Goto, fileVars, queueVars, jobVars, handlerVars, historyVars
<1>1. CASE (b = Dry /\ (StartDry \/ DryLater \/ DryRun)) \/ Apply(b) \/ Compile(b)
  BY <1>1 DEF StartDry, DryLater, DryRun, Apply, Compile, After
<1>2. CASE Debounce(b) \/ Start(b) \/ Read(b) \/ ReadLater(b) \/ ReadFails(b)
  BY <1>2 DEF Debounce, Start, Read, ReadLater, ReadFails
<1>3. CASE b \in Jobs /\ (StartRazor(b) \/ Generate(b) \/ GenerateFails(b))
  <2>1. CASE StartRazor(b) \/ GenerateFails(b)
    BY <2>1 DEF StartRazor, GenerateFails
  <2>2. CASE Generate(b)
    <3>1. /\ pc' = [pc EXCEPT ![b] = "done", ![Second(b)] = "apply"]
          /\ pc[b] = "generate" /\ pc[Second(b)] = "idle" /\ Second(b) \in Builds
          /\ UNCHANGED <<previous, disposed>>
      BY <1>3, <2>2 DEF Generate
    <3> QED
      BY <3>1
  <2> QED
    BY <1>3, <2>1, <2>2
<1>4. CASE LookUpPrevious(b) \/ Send(b) \/ SendFails(b)
  BY <1>4 DEF LookUpPrevious, Send, SendFails, After
<1> QED
  BY <1>1, <1>2, <1>3, <1>4 DEF BuildStep

LEMMA OthersApart ==
  ASSUME TypeOK, [Next]_vars
  PROVE  Apart \/ \E b \in Builds : DisposePrevious(b) \/ Store(b)
<1> USE BuildNames DEF TypeOK, Apart, Over, Goto, fileVars, queueVars, jobVars, handlerVars, historyVars
<1>1. CASE \E f \in Files : Edit(f) \/ TimePasses(f) \/ Ignore(f)
  BY <1>1 DEF Edit, TimePasses, Ignore
<1>2. CASE \E f \in Files, j \in Jobs : Notice(f, j)
  BY <1>2 DEF Notice
<1>3. CASE RunNext
  <2>1. PICK h : h = Head(queue)
    OBVIOUS
  <2> QED
    BY <1>3, <2>1 DEF RunNext
<1>4. ASSUME NEW b \in Builds, BuildStep(b), ~DisposePrevious(b), ~Store(b) PROVE Apart
  BY <1>4, BuildApart
<1>5. CASE UNCHANGED vars
  BY <1>5 DEF vars
<1> QED
  BY <1>1, <1>2, <1>3, <1>4, <1>5 DEF Next

LEMMA NextKept == TypeOK /\ Kept /\ [Next]_vars => Kept'
<1> SUFFICES ASSUME TypeOK, Kept, [Next]_vars PROVE Kept'
  OBVIOUS
<1>1. previous \in Builds \cup {None} /\ disposed \subseteq Builds
  BY DEF TypeOK
<1>2. pc \in [Builds -> {"idle", "queued", "done"} \cup InFlight]
  BY DEF TypeOK
<1>3. CASE Apart
  <2>1. (previous' # None => pc'[previous'] \in Over) /\ \A b \in disposed' : pc'[b] \in Over
    BY <1>1, <1>3 DEF Apart, Kept
  <2>2. PreviousUsable'
    BY <1>3 DEF Apart, Kept, PreviousUsable
  <2> QED
    BY <2>1, <2>2 DEF Kept
<1>4. ASSUME NEW b \in Builds, DisposePrevious(b) PROVE Kept'
  <2>1. pc[b] = "dispose" /\ pc' = [pc EXCEPT ![b] = "store"]
    BY <1>4 DEF DisposePrevious, Goto
  <2>2. pc'[b] = "store" /\ \A c \in Builds : pc[c] \in Over => pc'[c] \in Over
    BY <1>2, <2>1 DEF Over
  <2>3. previous' = previous /\ disposed' = disposed \cup ({previous} \ {None})
    BY <1>4 DEF DisposePrevious
  <2> QED
    BY <1>1, <2>2, <2>3 DEF Kept, PreviousUsable
<1>5. ASSUME NEW b \in Builds, Store(b) PROVE Kept'
  <2>1. pc[b] = "store" /\ pc' = [pc EXCEPT ![b] = After(b)]
    BY <1>5 DEF Store, Goto
  <2>2. pc'[b] \in Over /\ \A c \in Builds : pc[c] \in Over => pc'[c] \in Over
    BY <1>2, <2>1 DEF Over, After
  <2>3. previous' = b /\ disposed' = disposed
    BY <1>5 DEF Store
  <2>4. b \notin disposed
    BY <2>1 DEF Kept, Over
  <2> QED
    BY <1>1, <2>2, <2>3, <2>4 DEF Kept, PreviousUsable
<1> QED
  BY <1>3, <1>4, <1>5, OthersApart

(* However many jobs overlap, they leave no disposed container behind for  *)
(* the next update to be compared with.                                    *)
THEOREM PreviousSafe == Spec => []PreviousUsable
<1>1. Kept => PreviousUsable
  BY DEF Kept
<1> QED
  BY <1>1, PipelineInductive, InitKept, NextKept, PTL DEF Spec

-----------------------------------------------------------------------------
\* What RefusedOnlyIfDelayed needs to be inductive: until some job has waited for
\* its file, or a Razor job has begun, one that has not applied its solution holds
\* the queue, and nobody has changed the solution since it was taken.
Quiet == delayed = {} /\ ~RazorBegun

Kempt ==
  /\ refused = {}
  /\ \A b \in Builds : pc[b] \in Synchronous => runner = b
  /\ \A b \in Builds : pc[b] \in {"read", "apply"} => base[b] = solution.version

Alone == Quiet => Kempt

LEMMA InitAlone == Init => Alone
  BY DEF Init, Alone, Kempt, Synchronous

\* A job that has begun is about the same file ever after, and does not end that.
Onward ==
  /\ delayed \subseteq delayed'
  /\ \A j \in Jobs : pc[j] \notin {"idle", "queued"} =>
                       pc'[j] \notin {"idle", "queued"} /\ file'[j] = file[j]

LEMMA BuildOnward ==
  ASSUME TypeOK, NEW b \in Builds, BuildStep(b)
  PROVE  Onward
<1> USE BuildNames
    DEF Onward, Goto, fileVars, queueVars, jobVars, handlerVars, historyVars
<1>0. pc \in [Builds -> {"idle", "queued", "done"} \cup InFlight]
  BY DEF TypeOK
<1>1. CASE (b = Dry /\ (StartDry \/ DryRun)) \/ Apply(b) \/ Compile(b)
  BY <1>0, <1>1 DEF StartDry, DryRun, Apply, Compile, After
<1>5. CASE b = Dry /\ DryLater
  BY <1>0, <1>5 DEF DryLater
<1>2. CASE Debounce(b) \/ Start(b) \/ Read(b) \/ ReadLater(b) \/ ReadFails(b)
  BY <1>0, <1>2 DEF Debounce, Start, Read, ReadLater, ReadFails
<1>3. CASE b \in Jobs /\ (StartRazor(b) \/ GenerateFails(b))
  BY <1>0, <1>3 DEF StartRazor, GenerateFails
<1>6. CASE b \in Jobs /\ Generate(b)
  <2>1. PICK k : k = Second(b)
    OBVIOUS
  <2>2. /\ pc' = [pc EXCEPT ![b] = "done", ![k] = "apply"] /\ UNCHANGED <<file, delayed>>
        /\ k \notin Jobs
    BY <1>6, <2>1 DEF Generate
  <2> QED
    BY <1>0, <2>2
<1>4. CASE LookUpPrevious(b) \/ Send(b) \/ SendFails(b) \/ DisposePrevious(b) \/ Store(b)
  BY <1>0, <1>4 DEF LookUpPrevious, Send, SendFails, DisposePrevious, Store, After
<1> QED
  BY <1>1, <1>2, <1>3, <1>4, <1>5, <1>6 DEF BuildStep

LEMMA NextOnward == TypeOK /\ [Next]_vars => Onward
<1> SUFFICES ASSUME TypeOK, [Next]_vars PROVE Onward
  OBVIOUS
<1> USE BuildNames
    DEF TypeOK, Onward, Goto, fileVars, queueVars, jobVars, handlerVars, historyVars
<1>1. CASE \E f \in Files : Edit(f) \/ TimePasses(f) \/ Ignore(f)
  BY <1>1 DEF Edit, TimePasses, Ignore
<1>2. CASE \E f \in Files, j \in Jobs : Notice(f, j)
  BY <1>2 DEF Notice
<1>3. CASE RunNext
  <2>1. PICK h : h = Head(queue)
    OBVIOUS
  <2> QED
    BY <1>3, <2>1 DEF RunNext
<1>4. ASSUME NEW b \in Builds, BuildStep(b) PROVE Onward
  BY <1>4, BuildOnward
<1>5. CASE UNCHANGED vars
  BY <1>5 DEF vars
<1> QED
  BY <1>1, <1>2, <1>3, <1>4, <1>5 DEF Next

LEMMA QuietBefore == TypeOK /\ [Next]_vars /\ Quiet' => Quiet
  BY NextOnward DEF Quiet, RazorBegun, Onward

LEMMA BuildKempt ==
  ASSUME TypeOK, Kempt, Quiet, Quiet', NEW b \in Builds, BuildStep(b)
  PROVE  Kempt'
<1> USE UpdatePipelineAssumption, BuildNames
    DEF TypeOK, Kempt, Synchronous, Goto, FreeQueue,
        fileVars, queueVars, jobVars, handlerVars, historyVars
<1>0. pc \in [Builds -> {"idle", "queued", "done"} \cup InFlight] /\ base \in [Builds -> Nat]
  OBVIOUS
<1>1. CASE b = Dry /\ StartDry
  BY <1>1 DEF StartDry
<1>2. CASE Debounce(b)
  BY <1>2 DEF Debounce
<1>3. CASE Start(b)
  BY <1>3 DEF Start
<1>4. CASE Read(b)
  BY <1>4 DEF Read
<1>5. CASE ReadLater(b)
  BY <1>5 DEF ReadLater, Quiet
<1>6. CASE ReadFails(b)
  BY <1>6 DEF ReadFails
<1>7. CASE Apply(b)
  <2>1. pc[b] = "apply" /\ runner = b /\ base[b] = solution.version
    BY <1>7 DEF Apply
  <2>2. \A c \in Builds : c # b => pc[c] \notin Synchronous
    BY <2>1
  <2>3. \A c \in Builds : pc'[c] \notin Synchronous
    BY <1>0, <1>7, <2>2 DEF Apply
  <2>4. refused' = refused
    BY <1>7, <2>1 DEF Apply
  <2> QED
    BY <2>3, <2>4
<1>8. CASE (b = Dry /\ DryRun) \/ Compile(b) \/ LookUpPrevious(b) \/ Send(b) \/ SendFails(b)
           \/ DisposePrevious(b) \/ Store(b)
  <2>1. UNCHANGED <<delayed, refused, runner, base, solution>>
    BY <1>8 DEF DryRun, Compile, LookUpPrevious, Send, SendFails, DisposePrevious, Store
  <2>2. \A c \in Builds : pc'[c] \in Synchronous => pc'[c] = pc[c]
    BY <1>0, <1>8 DEF DryRun, Compile, LookUpPrevious, Send, SendFails, DisposePrevious,
       Store, After
  <2> QED
    BY <2>1, <2>2
<1>9. CASE b \in Jobs /\ (StartRazor(b) \/ Generate(b) \/ GenerateFails(b))
  <2>1. file[b] \in Razor /\ file' = file /\ pc'[b] \notin {"idle", "queued"}
    BY <1>0, <1>9 DEF StartRazor, Generate, GenerateFails
  <2> QED
    BY <1>9, <2>1 DEF Quiet, RazorBegun
<1>10. CASE DryLater
  BY <1>10 DEF DryLater, Quiet
<1> QED
  BY <1>1, <1>2, <1>3, <1>4, <1>5, <1>6, <1>7, <1>8, <1>9, <1>10 DEF BuildStep

LEMMA NextAlone == TypeOK /\ Alone /\ [Next]_vars => Alone'
<1> SUFFICES ASSUME TypeOK, Alone, [Next]_vars, Quiet' PROVE Kempt'
  BY DEF Alone
<1>0. Quiet /\ Kempt
  BY QuietBefore DEF Alone
<1> USE <1>0, UpdatePipelineAssumption, BuildNames
    DEF TypeOK, Kempt, Synchronous, Goto,
        fileVars, queueVars, jobVars, handlerVars, historyVars
<1>1. ASSUME NEW f \in Files, Edit(f) PROVE Kempt'
  BY <1>1 DEF Edit
<1>2. ASSUME NEW f \in Files, TimePasses(f) \/ Ignore(f) PROVE Kempt'
  BY <1>2 DEF TimePasses, Ignore
<1>3. ASSUME NEW f \in Files, NEW j \in Jobs, Notice(f, j) PROVE Kempt'
  BY <1>3 DEF Notice
<1>4. ASSUME RunNext PROVE Kempt'
  <2>1. PICK h : h = Head(queue)
    OBVIOUS
  <2> QED
    BY <1>4, <2>1 DEF RunNext
<1>5. ASSUME NEW b \in Builds, BuildStep(b) PROVE Kempt'
  BY <1>5, BuildKempt
<1>6. CASE UNCHANGED vars
  BY <1>6 DEF vars
<1> QED
  BY <1>1, <1>2, <1>3, <1>4, <1>5, <1>6 DEF Next

(* The workspace refuses a solution, and an edit is forgotten with it, only *)
(* after some job had to wait for its file or a Razor job has begun.        *)
THEOREM RefusedSafe == Spec => []RefusedOnlyIfDelayed
<1>1. Alone => RefusedOnlyIfDelayed
  BY DEF Alone, Quiet, Kempt, RefusedOnlyIfDelayed
<1> QED
  BY <1>1, PipelineInductive, InitAlone, NextAlone, PTL DEF Spec
-----------------------------------------------------------------------------
\* Texts only grow.  Whoever would put his solution into the workspace has taken
\* it from there, or will be refused.
AtMost(s, t) == \A f \in Files : s[f] <= t[f]
IsRazor(b)   == b \in Jobs /\ file[b] \in Razor

Ordered ==
  /\ AtMost(solution.texts, disk) /\ AtMost(seen, disk)
  /\ \A b \in Builds : base[b] <= solution.version /\ AtMost(text[b], disk)

Taken ==
  \A b \in Builds :
    /\ IsRazor(b) => pc[b] \notin {"read", "apply"}
    /\ pc[b] \in {"read", "apply"} /\ base[b] = solution.version => AtMost(solution.texts, text[b])
    /\ IsRazor(b) /\ pc[b] \notin {"idle", "done"} /\ base[b] = solution.version => text[b] = solution.texts

Typing == TypeOK /\ Named

\* The numbers that are compared.
LEMMA Numbers ==
  ASSUME TypeOK
  PROVE  /\ solution.texts \in Texts /\ solution.version \in Nat
         /\ disk \in Texts /\ seen \in Texts /\ app \in Texts
         /\ \A b \in Builds : base[b] \in Nat /\ text[b] \in Texts
  BY DEF TypeOK

LEMMA TextNumbers == ASSUME NEW t \in Texts PROVE \A f \in Files : t[f] \in Nat
  BY UpdatePipelineAssumption DEF Texts, Versions

\* The second half of a Razor job is nobody else's, and not about a file.
LEMMA SecondNames == \A j \in Jobs : Second(j) \in Builds \ Jobs /\ Second(j) # Dry
  BY BuildNames

\* Who takes texts or applies them; the others leave them alone.
TextStep(b) ==
  \/ b = Dry /\ (StartDry \/ DryLater)
  \/ b \in Jobs /\ (Start(b) \/ Read(b) \/ Generate(b))
  \/ Apply(b)

LEMMA OtherBuilds ==
  ASSUME TypeOK, NEW b \in Builds, BuildStep(b), ~TextStep(b)
  PROVE  /\ UNCHANGED <<disk, seen, solution, base, text, file, queue>>
         /\ \E p \in {"read", "done", "compile", "generate", "update", "send", "dispose", "store"} :
              pc' = [pc EXCEPT ![b] = p] /\ (p = "read" => pc[b] = "read")
         /\ pc[b] \notin {"idle", "queued", "apply"} /\ (pc[b] = "done" => pc' = pc)
<1> USE DEF Goto, fileVars, queueVars, jobVars, handlerVars, historyVars, After, TypeOK
<1>1. CASE b = Dry /\ DryRun
  BY <1>1 DEF DryRun
<1>2. CASE b \in Jobs /\ (Debounce(b) \/ ReadFails(b) \/ StartRazor(b) \/ GenerateFails(b))
  BY <1>2 DEF Debounce, ReadFails, StartRazor, GenerateFails
<1>3. CASE b \in Jobs /\ ReadLater(b)
  <2>1. pc' = [pc EXCEPT ![b] = "read"] /\ pc[b] = "read"
    BY <1>3 DEF ReadLater
  <2> QED BY <1>3, <2>1 DEF ReadLater
<1>4. CASE b # Dry /\ (LookUpPrevious(b) \/ Send(b) \/ SendFails(b))
  BY <1>4 DEF LookUpPrevious, Send, SendFails
<1>5. CASE Compile(b) \/ DisposePrevious(b) \/ Store(b)
  BY <1>5 DEF Compile, DisposePrevious, Store
<1> QED BY <1>1, <1>2, <1>3, <1>4, <1>5 DEF BuildStep, TextStep

\* What a step of the watcher, the clock or the queue leaves alone.
Idling ==
  /\ UNCHANGED <<solution, previous, app, cache, disposed, against, refused, outdated, unsent>>
  /\ missed \subseteq missed'
  /\ disturbed => disturbed'
  /\ \A b \in Builds :
       \/ UNCHANGED <<pc[b], text[b], base[b], file[b]>>
       \/ b \in Jobs /\ pc[b] = "idle" /\ pc'[b] = "queued"
       \/ pc[b] = "queued" /\ pc'[b] = "start" /\ UNCHANGED <<text[b], base[b], file[b]>>

LEMMA NoticeIdles == ASSUME TypeOK, NEW f \in Files, NEW j \in Jobs, Notice(f, j) PROVE Idling
<1>1. /\ UNCHANGED <<solution, previous, app, cache, disposed, against, refused, missed, outdated,
                    unsent, disturbed>>
      /\ pc[j] = "idle" /\ pc' = [pc EXCEPT ![j] = "queued"] /\ file' = [file EXCEPT ![j] = f]
  BY DEF Notice, Goto, handlerVars, historyVars
<1>2. \A b \in Builds \ {j} : text'[b] = text[b] /\ base'[b] = base[b]
  <2>1. CASE f \in Razor
    <3>1. base' = [base EXCEPT ![j] = solution.version] /\ text' = [text EXCEPT ![j] = solution.texts]
      BY <2>1 DEF Notice
    <3> QED
      BY <3>1 DEF TypeOK
  <2>2. CASE f \notin Razor
    BY <2>2 DEF Notice
  <2> QED
    BY <2>1, <2>2
<1>3. j \in Builds
  BY BuildNames
<1>4. \A b \in Builds \ {j} : pc'[b] = pc[b] /\ file'[b] = file[b]
  BY <1>1 DEF TypeOK
<1>5. pc'[j] = "queued"
  BY <1>1, <1>3 DEF TypeOK
<1> QED
  BY <1>1, <1>2, <1>4, <1>5 DEF Idling

LEMMA RunNextIdles == ASSUME TypeOK, RunNext PROVE Idling
<1>1. PICK h : h = Head(queue)
  OBVIOUS
<1>2. /\ UNCHANGED <<solution, previous, app, cache, disposed, against, refused, missed, outdated, unsent>>
      /\ UNCHANGED <<text, base, file>>
      /\ pc[h] = "queued" /\ pc' = [pc EXCEPT ![h] = "start"]
      /\ disturbed' = (disturbed \/ \E b \in Builds : pc[b] \in InFlight)
  BY <1>1 DEF RunNext, Goto, jobVars, handlerVars
<1> QED
  BY <1>2 DEF TypeOK, Idling

LEMMA IdleSteps == ASSUME TypeOK, [Next]_vars, ~(\E b \in Builds : BuildStep(b)) PROVE Idling
<1>1. CASE UNCHANGED vars \/ \E f \in Files : Edit(f) \/ TimePasses(f) \/ Ignore(f)
  <2>1. UNCHANGED <<pc, text, base, file, solution, previous, app, cache, disposed, against,
                    refused, outdated, unsent, disturbed>> /\ missed \subseteq missed'
    BY <1>1 DEF vars, Edit, TimePasses, Ignore, jobVars, handlerVars, historyVars
  <2> QED
    BY <2>1 DEF Idling
<1> QED
  BY <1>1, NoticeIdles, RunNextIdles DEF Next

LEMMA InitOrdered == ASSUME Init PROVE Ordered /\ Taken
<1>1. PICK loaded \in [Files -> {0, 1} \cap Versions] :
        /\ solution = [texts |-> loaded, version |-> 0]
        /\ disk \in [Files -> {0, 1} \cap Versions]
        /\ \A f \in Files : loaded[f] <= disk[f]
        /\ seen = disk
        /\ base = [b \in Builds |-> 0]
        /\ text = [b \in Builds |-> loaded]
        /\ \A b \in Builds : pc[b] \in {"idle", "queued"}
  BY DEF Init
<1>2. \A f \in Files : disk[f] \in Nat
  <2>1. disk \in [Files -> {0, 1} \cap Versions] /\ {0, 1} \cap Versions \subseteq Nat
    BY <1>1
  <2> QED
    BY <2>1
<1>3. file = [b \in Builds |-> None] /\ None \notin Files
  BY UpdatePipelineAssumption DEF Init
<1>4. \A b \in Builds : ~IsRazor(b)
  BY <1>3, UpdatePipelineAssumption, BuildNames DEF IsRazor
<1> QED BY <1>1, <1>2, <1>4 DEF Ordered, Taken, AtMost

LEMMA OrderedStep == ASSUME Typing, Ordered, [Next]_vars PROVE Ordered'
<1> USE DEF Typing
<1>1. /\ \A f \in Files : /\ solution.texts[f] \in Nat /\ disk[f] \in Nat /\ seen[f] \in Nat
                          /\ \A b \in Builds : text[b][f] \in Nat
      /\ solution.version \in Nat /\ \A b \in Builds : base[b] \in Nat
      /\ base \in [Builds -> Nat] /\ text \in [Builds -> Texts] /\ disk \in Texts /\ seen \in Texts
      /\ solution.texts \in Texts
  BY Numbers, TextNumbers DEF TypeOK
<1>2. ASSUME NEW f \in Files, Edit(f) PROVE Ordered'
  <2>1. \A g \in Files : disk[g] <= disk'[g] /\ disk'[g] \in Nat
    BY <1>1, <1>2 DEF Edit, Texts
  <2>2. UNCHANGED <<seen, solution, base, text>>
    BY <1>2 DEF Edit, jobVars
  <2> QED BY <1>1, <2>1, <2>2 DEF Ordered, AtMost
<1>3. ASSUME NEW f \in Files, NEW j \in Jobs, Notice(f, j) PROVE Ordered'
  <2>1. UNCHANGED <<disk, solution>> /\ seen' = [seen EXCEPT ![f] = disk[f]]
        /\ \/ UNCHANGED <<base, text>>
           \/ base' = [base EXCEPT ![j] = solution.version] /\ text' = [text EXCEPT ![j] = solution.texts]
    BY <1>3 DEF Notice
  <2>2. AtMost(seen', disk)
    BY <1>1, <2>1 DEF Ordered, AtMost, Texts
  <2>3. \A b \in Builds : (base'[b] = base[b] \/ base'[b] = solution.version)
                          /\ (text'[b] = text[b] \/ text'[b] = solution.texts)
    BY <1>1, <2>1
  <2> QED BY <1>1, <2>1, <2>2, <2>3 DEF Ordered, AtMost
<1>4. ASSUME NEW b \in Builds, TextStep(b), BuildStep(b) PROVE Ordered'
  <2>1. disk' = disk /\ seen' = seen
    BY <1>4 DEF TextStep, StartDry, DryLater, Start, Read, Generate, Apply, fileVars
  <2>2. CASE Apply(b)
    <3>1. text' = text /\ base' = [base EXCEPT ![b] = 0]
          /\ \/ solution' = solution
             \/ solution' = [texts |-> text[b], version |-> solution.version + 1]
      BY <2>2 DEF Apply
    <3>2. \A c \in Builds : base'[c] <= solution.version
      BY <1>1, <3>1 DEF Ordered
    <3> QED BY <1>1, <2>1, <3>1, <3>2 DEF Ordered, AtMost
  <2>3. CASE StartDry \/ (b \in Jobs /\ Start(b))
    <3>1. \E c \in Builds : base' = [base EXCEPT ![c] = solution.version] /\ text' = [text EXCEPT ![c] = solution.texts]
      BY <2>3, BuildNames DEF StartDry, Start
    <3>2. \A c \in Builds : (base'[c] = base[c] \/ base'[c] = solution.version)
                            /\ (text'[c] = text[c] \/ text'[c] = solution.texts)
      BY <1>1, <3>1
    <3>3. solution' = solution
      BY <2>3 DEF StartDry, Start
    <3> QED BY <1>1, <2>1, <3>2, <3>3 DEF Ordered, AtMost
  <2>4. CASE b \in Jobs /\ Read(b)
    <3>1. text' = [text EXCEPT ![b][file[b]] = disk[file[b]]] /\ UNCHANGED <<base, solution>>
      BY <2>4 DEF Read
    <3>2. \A c \in Builds : \A f \in Files : text'[c][f] = text[c][f] \/ text'[c][f] = disk[f]
      BY <1>1, <3>1 DEF Texts
    <3> QED BY <1>1, <2>1, <3>1, <3>2 DEF Ordered, AtMost
  <2>5. CASE b \in Jobs /\ Generate(b)
    <3>1. /\ text' = [text EXCEPT ![Second(b)] = [text[b] EXCEPT ![file[b]] = disk[file[b]]]]
          /\ base' = [base EXCEPT ![Second(b)] = base[b], ![b] = 0] /\ solution' = solution
      BY <2>5 DEF Generate
    <3>2. Second(b) \in Builds
      BY <2>5, BuildNames
    <3>3. \A c \in Builds : \A f \in Files : text'[c][f] \in {text[c][f], text[b][f], disk[f]}
      BY <1>1, <3>1, <3>2 DEF Texts
    <3>4. \A c \in Builds : base'[c] \in {base[c], base[b], 0}
      BY <1>1, <3>1, <3>2
    <3>5. \A c \in Builds : \A f \in Files : text'[c][f] <= disk[f]
      BY <1>1, <3>3 DEF Ordered, AtMost
    <3>6. \A c \in Builds : base'[c] <= solution.version
      BY <1>1, <3>4 DEF Ordered
    <3> QED BY <1>1, <2>1, <3>1, <3>5, <3>6 DEF Ordered, AtMost
  <2>6. CASE DryLater
    <3>1. UNCHANGED <<solution, base, text>>
      BY <2>6 DEF DryLater, jobVars
    <3> QED BY <2>1, <3>1 DEF Ordered, AtMost
  <2> QED BY <1>4, <2>2, <2>3, <2>4, <2>5, <2>6 DEF TextStep
<1>5. ASSUME UNCHANGED <<disk, seen, solution, base, text>> PROVE Ordered'
  BY <1>5 DEF Ordered, AtMost
<1>6. ASSUME NEW b \in Builds, BuildStep(b) PROVE Ordered'
  BY <1>4, <1>5, <1>6, OtherBuilds
<1>7. CASE UNCHANGED vars \/ RunNext \/ \E f \in Files : TimePasses(f)
  <2>1. UNCHANGED <<disk, seen, solution, base, text>>
    BY <1>7 DEF vars, RunNext, TimePasses, fileVars, jobVars
  <2> QED BY <1>5, <2>1
<1>8. ASSUME NEW f \in Files, Ignore(f) PROVE Ordered'
  <2>1. UNCHANGED <<disk, solution, base, text>> /\ seen' = [seen EXCEPT ![f] = disk[f]]
    BY <1>8 DEF Ignore, jobVars
  <2>2. AtMost(seen', disk)
    BY <1>1, <2>1 DEF Ordered, AtMost, Texts
  <2> QED BY <2>1, <2>2 DEF Ordered, AtMost
<1> QED BY <1>2, <1>3, <1>6, <1>7, <1>8 DEF Next

LEMMA TakenStep == ASSUME Typing, Ordered, Taken, [Next]_vars PROVE Taken'
<1> USE DEF Typing
<1>1. /\ \A f \in Files : /\ solution.texts[f] \in Nat /\ disk[f] \in Nat
                          /\ \A b \in Builds : text[b][f] \in Nat
      /\ solution.version \in Nat /\ \A b \in Builds : base[b] \in Nat
      /\ base \in [Builds -> Nat] /\ text \in [Builds -> Texts]
      /\ pc \in [Builds -> {"idle", "queued", "done"} \cup InFlight]
      /\ file \in [Builds -> Files \cup {None}]
      /\ AtMost(solution.texts, solution.texts)
  BY Numbers, TextNumbers DEF TypeOK, AtMost
<1>2. ASSUME NEW f \in Files, NEW j \in Jobs, Notice(f, j) PROVE Taken'
  <2>1. /\ pc' = [pc EXCEPT ![j] = "queued"] /\ file' = [file EXCEPT ![j] = f]
        /\ solution' = solution /\ j \in Builds
    BY <1>2, BuildNames DEF Notice, Goto
  <2>2. CASE f \in Razor
    <3>1. base' = [base EXCEPT ![j] = solution.version] /\ text' = [text EXCEPT ![j] = solution.texts]
      BY <1>2, <2>2 DEF Notice
    <3> QED
      BY <1>1, <2>1, <3>1 DEF Taken, IsRazor
  <2>3. CASE f \notin Razor
    <3>1. UNCHANGED <<base, text>>
      BY <1>2, <2>3 DEF Notice
    <3> QED
      BY <1>1, <2>1, <2>3, <3>1 DEF Taken, IsRazor
  <2> QED
    BY <2>2, <2>3
<1>3. ASSUME RunNext PROVE Taken'
  <2>1. PICK h : h = Head(queue)
    OBVIOUS
  <2>2. pc[h] = "queued" /\ pc' = [pc EXCEPT ![h] = "start"] /\ UNCHANGED <<base, text, file, solution>>
    BY <1>3, <2>1 DEF RunNext, Goto, jobVars
  <2> QED
    BY <1>1, <2>2 DEF Taken, IsRazor
<1>4. ASSUME StartDry PROVE Taken'
  <2>1. /\ pc'[Dry] \in {"done", "apply"} /\ \A c \in Builds \ {Dry} : pc'[c] = pc[c]
        /\ base' = [base EXCEPT ![Dry] = solution.version] /\ text' = [text EXCEPT ![Dry] = solution.texts]
        /\ UNCHANGED <<file, solution>> /\ Dry \in Builds \ Jobs
    BY <1>1, <1>4, BuildNames DEF StartDry, Goto
  <2> QED
    BY <1>1, <2>1 DEF Taken, IsRazor
<1>5. ASSUME NEW j \in Jobs, Start(j) PROVE Taken'
  <2>1. /\ pc' = [pc EXCEPT ![j] = "read"] /\ file[j] \notin Razor /\ j \in Builds
        /\ base' = [base EXCEPT ![j] = solution.version] /\ text' = [text EXCEPT ![j] = solution.texts]
        /\ UNCHANGED <<file, solution>>
    BY <1>5, BuildNames DEF Start, Goto
  <2> QED
    BY <1>1, <2>1 DEF Taken, IsRazor
<1>6. ASSUME NEW j \in Jobs, Read(j) PROVE Taken'
  <2>1. /\ pc[j] = "read" /\ pc' = [pc EXCEPT ![j] = "apply"] /\ j \in Builds
        /\ text' = [text EXCEPT ![j][file[j]] = disk[file[j]]]
        /\ UNCHANGED <<base, file, solution>>
    BY <1>6, BuildNames DEF Read, Goto
  <2>2. ~IsRazor(j)
    BY <2>1 DEF Taken
  <2>3. \A f \in Files : text'[j][f] \in {text[j][f], disk[f]}
    BY <1>1, <2>1 DEF Texts
  <2>4. base[j] = solution.version => AtMost(solution.texts, text'[j])
    BY <1>1, <2>1, <2>3 DEF Taken, Ordered, AtMost
  <2>5. \A c \in Builds \ {j} : text'[c] = text[c] /\ pc'[c] = pc[c]
    BY <1>1, <2>1
  <2>6. \A c \in Builds : IsRazor(c)' <=> IsRazor(c)
    BY <2>1 DEF IsRazor
  <2>7. pc'[j] = "apply"
    BY <1>1, <2>1
  <2> QED
    BY <2>1, <2>2, <2>4, <2>5, <2>6, <2>7 DEF Taken, AtMost
<1>7. ASSUME NEW j \in Jobs, Generate(j) PROVE Taken'
  <2> DEFINE k == Second(j)
  <2>1. k \in Builds \ Jobs /\ j \in Builds /\ k # j
    BY BuildNames
  <2>2. /\ pc[j] = "generate" /\ pc' = [pc EXCEPT ![j] = "done", ![k] = "apply"] /\ file[j] \in Razor
        /\ base' = [base EXCEPT ![k] = base[j], ![j] = 0]
        /\ text' = [text EXCEPT ![k] = [text[j] EXCEPT ![file[j]] = disk[file[j]]]]
        /\ UNCHANGED <<file, solution>>
    BY <1>7 DEF Generate
  <2>3. base[j] = solution.version => text[j] = solution.texts
    BY <2>1, <2>2 DEF Taken, IsRazor
  <2>4. \A f \in Files : text'[k][f] \in {text[j][f], disk[f]}
    BY <1>1, <2>1, <2>2 DEF Texts
  <2>5. base'[k] = base[j] /\ pc'[k] = "apply" /\ pc'[j] = "done" /\ ~IsRazor(k)
    BY <1>1, <2>1, <2>2 DEF IsRazor
  <2>6. base'[k] = solution.version => AtMost(solution.texts, text'[k])
    BY <1>1, <2>3, <2>4, <2>5 DEF Ordered, AtMost
  <2>7. \A c \in Builds \ {j, k} : pc'[c] = pc[c] /\ base'[c] = base[c] /\ text'[c] = text[c]
    BY <1>1, <2>1, <2>2
  <2>8. \A c \in Builds : IsRazor(c)' <=> IsRazor(c)
    BY <2>2 DEF IsRazor
  <2> HIDE DEF k
  <2> QED
    BY <2>1, <2>2, <2>5, <2>6, <2>7, <2>8 DEF Taken, AtMost
<1>8. ASSUME NEW b \in Builds, Apply(b) PROVE Taken'
  <2>1. /\ pc[b] = "apply" /\ pc' = [pc EXCEPT ![b] = "compile"]
        /\ base' = [base EXCEPT ![b] = 0] /\ UNCHANGED <<file, text>>
    BY <1>8 DEF Apply, Goto
  <2>2. ~IsRazor(b)
    BY <2>1 DEF Taken
  <2>3. \A c \in Builds : IsRazor(c)' <=> IsRazor(c)
    BY <2>1 DEF IsRazor
  <2>4. \A c \in Builds : c # b => pc'[c] = pc[c] /\ base'[c] = base[c]
    BY <1>1, <2>1
  <2>5. pc'[b] = "compile" /\ base'[b] = 0
    BY <1>1, <2>1
  <2>6. CASE solution' = solution
    BY <2>1, <2>2, <2>3, <2>4, <2>5, <2>6 DEF Taken
  <2>7. CASE solution'.version = solution.version + 1
    <3>1. \A c \in Builds : base'[c] # solution'.version
      BY <1>1, <2>4, <2>5, <2>7 DEF Ordered
    <3>2. \A c \in Builds : IsRazor(c)' => pc'[c] \notin {"read", "apply"}
      BY <2>2, <2>3, <2>4 DEF Taken
    <3> QED
      BY <3>1, <3>2 DEF Taken
  <2> QED
    BY <1>8, <2>6, <2>7 DEF Apply
<1>9. ASSUME NEW b \in Builds, BuildStep(b), ~TextStep(b) PROVE Taken'
  <2>1. PICK p \in {"read", "done", "compile", "generate", "update", "send", "dispose", "store"} :
          pc' = [pc EXCEPT ![b] = p] /\ (p = "read" => pc[b] = "read")
    BY <1>9, OtherBuilds
  <2>2. UNCHANGED <<solution, base, text, file>> /\ pc[b] # "idle" /\ (pc[b] = "done" => pc' = pc)
    BY <1>9, OtherBuilds
  <2>3. \A c \in Builds : IsRazor(c)' <=> IsRazor(c)
    BY <2>2 DEF IsRazor
  <2>4. \A c \in Builds : /\ pc'[c] \in {"read", "apply"} => pc[c] = pc'[c]
                          /\ pc'[c] \notin {"idle", "done"} => pc[c] \notin {"idle", "done"}
    BY <1>1, <2>1, <2>2
  <2> QED
    BY <2>2, <2>3, <2>4 DEF Taken
<1>10. CASE UNCHANGED vars \/ DryLater \/ \E f \in Files : Edit(f) \/ TimePasses(f) \/ Ignore(f)
  <2>1. UNCHANGED <<solution, base, text, file, pc>>
    BY <1>10 DEF vars, DryLater, Edit, TimePasses, Ignore, jobVars
  <2> QED
    BY <2>1 DEF Taken, IsRazor
<1> QED
  BY <1>2, <1>3, <1>4, <1>5, <1>6, <1>7, <1>8, <1>9, <1>10 DEF Next, TextStep

LEMMA TextsInductive == Spec => [](Typing /\ Ordered /\ Taken)
  BY PipelineInductive, InitOrdered, OrderedStep, TakenStep, PTL DEF Spec, Typing

\* The solution is replaced only by one that was made from it.
LEMMA SolutionGrows ==
  ASSUME Typing, Taken, [Next]_vars
  PROVE  \A f \in Files : solution'.texts[f] >= solution.texts[f]
<1>1. \A f \in Files : solution.texts[f] \in Nat /\ \A b \in Builds : text[b][f] \in Nat
  BY Numbers, TextNumbers DEF Typing
<1>2. ASSUME NEW b \in Builds, Apply(b), solution' # solution
      PROVE  \A f \in Files : solution'.texts[f] >= solution.texts[f]
  <2>1. solution'.texts = text[b] /\ base[b] = solution.version /\ pc[b] = "apply"
    BY <1>2 DEF Apply, Goto
  <2> QED
    BY <1>1, <2>1 DEF Taken, AtMost
<1>3. ASSUME NEW b \in Builds, BuildStep(b), ~Apply(b) PROVE solution' = solution
  BY <1>3, OtherBuilds DEF TextStep, StartDry, DryLater, Start, Read, Generate, Typing
<1>4. (\E b \in Builds : BuildStep(b)) \/ solution' = solution
  BY IdleSteps DEF Typing, Idling
<1> QED
  BY <1>1, <1>2, <1>3, <1>4

(* No job, however late and whatever project it started from, puts an older *)
(* text of a file back into the workspace.                                  *)
THEOREM ForwardSafe == Spec => WorkspaceForward
<1>1. Typing /\ Ordered /\ Taken /\ [Next]_vars
        => [\A f \in Files : solution'.texts[f] >= solution.texts[f]]_vars
  BY SolutionGrows
<1> QED
  BY <1>1, TextsInductive, PTL DEF Spec, WorkspaceForward
-----------------------------------------------------------------------------
\* Without overlap one build at a time is under way.  Until the dry run is over nothing
\* else has begun, and the application runs what was built; from then on it runs
\* what the container that is held was made of, or is about to be, except for the
\* edits that went into the cache: of their files it runs what was built.
Solo == \A a, b \in Builds : pc[a] \in InFlight /\ pc[b] \in InFlight => a = b

DryFirst ==
  pc[Dry] = "queued" =>
    queue # <<>> /\ Head(queue) = Dry /\ \A j \in Builds \ {Dry} : pc[j] \in {"idle", "queued"}

AsBuilt ==
  pc[Dry] \in {"queued", "start", "apply", "compile", "update"} =>
    /\ app = [f \in Files |-> 0]
    /\ unsent = IF cache = None THEN {} ELSE {f \in Files : cache[f] # app[f]}

Storing == {"dispose", "store"}

Tracked ==
  /\ previous # None /\ (\A b \in Builds : pc[b] \notin Storing) => UpToDate(text[previous])
  /\ \A b \in Builds : /\ pc[b] \in Storing => UpToDate(text[b])
                       /\ pc[b] = "send" => previous # None /\ against[b] = previous
  /\ \A f \in unsent : app[f] = 0

Undisturbed == ~disturbed => Solo /\ DryFirst /\ AsBuilt /\ Tracked

LEMMA InitUndisturbed == ASSUME Init PROVE Undisturbed
<1>1. /\ queue = <<Dry>> /\ pc = [b \in Builds |-> IF b = Dry THEN "queued" ELSE "idle"]
      /\ app = [f \in Files |-> 0] /\ previous = None
  BY DEF Init
<1>2. unsent = (IF cache = None THEN {} ELSE {f \in Files : cache[f] # app[f]}) /\ unsent \subseteq Files
  <2>1. unsent = IF cache = None THEN {} ELSE {f \in Files : cache[f] # app[f]}
    BY DEF Init
  <2> QED
    BY <2>1
<1>3. Solo /\ Tracked
  BY <1>1, <1>2 DEF Solo, Tracked, InFlight, Synchronous, Storing
<1>4. DryFirst
  BY <1>1 DEF DryFirst
<1>5. AsBuilt
  BY <1>1, <1>2 DEF AsBuilt
<1> QED
  BY <1>3, <1>4, <1>5 DEF Undisturbed

\* The watcher, the clock and the queue.
LEMMA IdleUndisturbed ==
  ASSUME Typing, Kept, Undisturbed, ~disturbed', [Next]_vars,
         ~(\E b \in Builds : BuildStep(b))
  PROVE  Undisturbed'
<1>1. /\ UNCHANGED <<solution, previous, app, cache, disposed, against, unsent>>
      /\ ~disturbed
      /\ \A b \in Builds :
           \/ UNCHANGED <<pc[b], text[b], base[b], file[b]>>
           \/ b \in Jobs /\ pc[b] = "idle" /\ pc'[b] = "queued"
           \/ pc[b] = "queued" /\ pc'[b] = "start" /\ UNCHANGED <<text[b], base[b], file[b]>>
  BY IdleSteps DEF Idling, Typing
<1>2. Solo /\ DryFirst /\ AsBuilt /\ Tracked
  BY <1>1 DEF Undisturbed
<1>3. /\ previous \in Builds \cup {None} /\ pc \in [Builds -> {"idle", "queued", "done"} \cup InFlight]
      /\ queue \in Seq(Builds) /\ Dry \in Builds \ Jobs
  BY BuildNames DEF Typing, TypeOK
<1>4. (\A b \in Builds : pc'[b] # "start" \/ pc[b] = "start") \/ RunNext
  <2>1. CASE UNCHANGED vars \/ \E f \in Files : Edit(f) \/ TimePasses(f) \/ Ignore(f)
    BY <2>1 DEF vars, Edit, TimePasses, Ignore
  <2>2. ASSUME NEW f \in Files, NEW j \in Jobs, Notice(f, j)
        PROVE  \A b \in Builds : pc'[b] # "start" \/ pc[b] = "start"
    BY <1>3, <2>2 DEF Notice, Goto
  <2> QED
    BY <2>1, <2>2 DEF Next
<1>5. CASE RunNext
  <2>1. PICK h : h = Head(queue)
    OBVIOUS
  <2>2. /\ pc[h] = "queued" /\ pc' = [pc EXCEPT ![h] = "start"]
        /\ \A b \in Builds : pc[b] \notin InFlight
    BY <1>5, <2>1 DEF RunNext, Goto
  <2>3. \A b \in Builds : pc'[b] = (IF b = h THEN "start" ELSE pc[b])
    BY <1>3, <2>2
  <2>4. Solo'
    BY <2>2, <2>3 DEF Solo
  <2>5. DryFirst'
    <3>1. pc'[Dry] # "queued"
      BY <1>2, <1>3, <2>1, <2>3 DEF DryFirst
    <3> QED
      BY <3>1 DEF DryFirst
  <2> QED
    BY <2>4, <2>5, <1>1, <1>2, <1>3, <2>3
    DEF Undisturbed, AsBuilt, Tracked, UpToDate, Kept, Over, Storing
<1>6. CASE \A b \in Builds : pc'[b] # "start" \/ pc[b] = "start"
  <2>1. \A b \in Builds : \/ UNCHANGED <<pc[b], text[b]>>
                          \/ b \in Jobs /\ pc[b] = "idle" /\ pc'[b] = "queued"
    BY <1>1, <1>6
  <2>2. Solo'
    BY <1>2, <2>1 DEF Solo, InFlight, Synchronous
  <2>3. queue # <<>> /\ ~RunNext => queue' # <<>> /\ Head(queue') = Head(queue)
    <3>1. CASE \E f \in Files, j \in Jobs : Notice(f, j)
      <4>1. PICK j \in Jobs : queue' = Append(queue, j)
        BY <3>1 DEF Notice
      <4>2. j \in Builds
        BY BuildNames
      <4> QED
        BY <1>3, <4>1, <4>2
    <3>2. CASE UNCHANGED vars \/ \E f \in Files : Edit(f) \/ TimePasses(f) \/ Ignore(f)
      BY <3>2 DEF vars, Edit, TimePasses, Ignore, queueVars
    <3> QED
      BY <3>1, <3>2 DEF Next
  <2>4. DryFirst'
    <3>1. SUFFICES ASSUME pc'[Dry] = "queued", ~RunNext
                   PROVE queue' # <<>> /\ Head(queue') = Dry
                         /\ \A j \in Builds \ {Dry} : pc'[j] \in {"idle", "queued"}
      BY <1>5 DEF DryFirst, Undisturbed
    <3>2. pc[Dry] = "queued"
      BY <1>3, <2>1, <3>1
    <3> QED
      BY <1>2, <2>1, <2>3, <3>1, <3>2 DEF DryFirst
  <2>5. AsBuilt'
    <3>1. UNCHANGED <<pc[Dry], text[Dry]>>
      BY <1>3, <2>1
    <3> QED
      BY <1>1, <1>2, <3>1 DEF AsBuilt
  <2>6. Tracked'
    <3>1. previous # None => text'[previous] = text[previous]
      BY <1>3, <2>1 DEF Kept, Over
    <3>2. \A b \in Builds : /\ pc'[b] \in Storing \cup {"send"} => pc'[b] = pc[b] /\ text'[b] = text[b]
                            /\ pc[b] \in Storing => pc'[b] = pc[b]
      BY <2>1 DEF Storing
    <3> QED
      BY <1>1, <1>2, <3>1, <3>2 DEF Tracked, UpToDate
  <2> QED
    BY <2>2, <2>4, <2>5, <2>6 DEF Undisturbed
<1> QED
  BY <1>4, <1>5, <1>6
\* A build makes its own steps while it is under way; the first half of a Razor job
\* hands over to the second.
LEMMA BuildMoves ==
  ASSUME TypeOK, NEW b \in Builds, BuildStep(b)
  PROVE  /\ pc[b] \in InFlight /\ pc'[b] \notin {"idle", "queued", "start"}
         /\ \A c \in Builds : c # b => \/ pc'[c] = pc[c] /\ text'[c] = text[c]
                                       \/ /\ b \in Jobs /\ Generate(b) /\ c = Second(b)
                                          /\ pc[c] = "idle" /\ pc'[c] = "apply" /\ pc'[b] = "done"
         /\ disturbed => disturbed'
<1> USE DEF InFlight, Synchronous
<1>1. CASE ~TextStep(b)
  <2>1. PICK p \in {"read", "done", "compile", "generate", "update", "send", "dispose", "store"} :
          pc' = [pc EXCEPT ![b] = p]
    BY <1>1, OtherBuilds
  <2>2. text' = text /\ pc[b] \notin {"idle", "queued"}
    BY <1>1, OtherBuilds
  <2>3. pc[b] # "done"
    BY <1>1, BuildNames DEF BuildStep, TextStep, Goto, DryRun, Debounce, ReadLater, ReadFails,
       StartRazor, GenerateFails, LookUpPrevious, Send, SendFails, Compile, DisposePrevious, Store
  <2>4. disturbed => disturbed'
    BY <1>1 DEF BuildStep, TextStep, historyVars, DryRun, Debounce, ReadLater, ReadFails,
       StartRazor, GenerateFails, LookUpPrevious, Send, SendFails, Compile, DisposePrevious, Store
  <2> QED
    BY <2>1, <2>2, <2>3, <2>4 DEF TypeOK
<1>2. CASE b = Dry /\ StartDry
  <2>1. /\ pc[Dry] = "start" /\ text' = [text EXCEPT ![Dry] = solution.texts] /\ disturbed' = disturbed
        /\ pc' = [pc EXCEPT ![Dry] = "done"] \/ pc' = [pc EXCEPT ![Dry] = "apply"]
    BY <1>2 DEF StartDry, Goto, historyVars
  <2> QED
    BY <1>2, <2>1 DEF TypeOK
<1>6. CASE b = Dry /\ DryLater
  BY <1>6 DEF DryLater, jobVars
<1>3. CASE b \in Jobs /\ (Start(b) \/ Read(b))
  <2>1. /\ pc[b] \in {"start", "read"} /\ disturbed' = disturbed
        /\ pc' = [pc EXCEPT ![b] = "read"] \/ pc' = [pc EXCEPT ![b] = "apply"]
    BY <1>3 DEF Start, Read, Goto, historyVars
  <2>2. \A c \in Builds : c # b => text'[c] = text[c]
    BY <1>3 DEF Start, Read, TypeOK
  <2> QED
    BY <2>1, <2>2 DEF TypeOK
<1>4. CASE b \in Jobs /\ Generate(b)
  <2>0. PICK k : k = Second(b)
    OBVIOUS
  <2>1. /\ pc[b] = "generate" /\ pc[k] = "idle" /\ pc' = [pc EXCEPT ![b] = "done", ![k] = "apply"]
        /\ text' = [text EXCEPT ![k] = [text[b] EXCEPT ![file[b]] = disk[file[b]]]]
        /\ disturbed' = disturbed
    BY <1>4, <2>0 DEF Generate
  <2>2. k \in Builds /\ k # b
    BY <1>4, <2>0, BuildNames
  <2>3. \A c \in Builds : pc'[c] = (IF c = k THEN "apply" ELSE IF c = b THEN "done" ELSE pc[c])
    BY <2>1, <2>2 DEF TypeOK
  <2>4. \A c \in Builds : c # k => text'[c] = text[c]
    BY <2>1, <2>2 DEF TypeOK
  <2>5. pc[b] \in InFlight /\ pc'[b] = "done"
    BY <2>1, <2>2, <2>3
  <2>6. ASSUME NEW c \in Builds, c # b
        PROVE  \/ pc'[c] = pc[c] /\ text'[c] = text[c]
               \/ /\ b \in Jobs /\ Generate(b) /\ c = Second(b)
                  /\ pc[c] = "idle" /\ pc'[c] = "apply" /\ pc'[b] = "done"
    BY <1>4, <2>0, <2>1, <2>2, <2>3, <2>4, <2>5, <2>6
  <2> QED
    BY <2>1, <2>5, <2>6
<1>5. CASE Apply(b)
  <2>1. pc[b] = "apply" /\ pc' = [pc EXCEPT ![b] = "compile"] /\ text' = text /\ disturbed' = disturbed
    BY <1>5 DEF Apply, Goto
  <2> QED
    BY <2>1 DEF TypeOK
<1> QED
  BY <1>1, <1>2, <1>3, <1>4, <1>5, <1>6 DEF TextStep

LEMMA BuildAlone ==
  ASSUME Typing, NEW b \in Builds, BuildStep(b), Solo, DryFirst
  PROVE  Solo' /\ DryFirst' /\ \A c \in Builds : c # b => pc[c] \notin InFlight
<1> USE DEF Typing
<1>1. \A c \in Builds : c # b => pc[c] \notin InFlight
  BY BuildMoves DEF Solo
<1>2. Solo'
  <2>1. CASE \A c \in Builds : c # b => pc'[c] = pc[c]
    BY <1>1, <2>1 DEF Solo
  <2>2. CASE b \in Jobs /\ pc'[b] = "done" /\ \A c \in Builds : c # b /\ c # Second(b) => pc'[c] = pc[c]
    BY <1>1, <2>2 DEF Solo, InFlight, Synchronous
  <2> QED
    BY <2>1, <2>2, BuildMoves
<1>3. pc'[Dry] # "queued"
  <2>1. pc[b] \in InFlight /\ pc'[b] # "queued"
    BY BuildMoves
  <2>2. pc[Dry] # "queued"
    BY <2>1, BuildNames DEF DryFirst, InFlight, Synchronous
  <2> QED
    BY <2>1, <2>2, BuildMoves, BuildNames
<1> QED
  BY <1>1, <1>2, <1>3 DEF DryFirst
LEMMA BuildAsBuilt ==
  ASSUME Typing, NEW b \in Builds, BuildStep(b), Solo, DryFirst, AsBuilt
  PROVE  AsBuilt'
<1>1. /\ Dry \in Builds \ Jobs /\ pc \in [Builds -> {"idle", "queued", "done"} \cup InFlight]
      /\ text \in [Builds -> Texts]
  BY BuildNames DEF Typing, TypeOK
<1>2. pc[b] \in InFlight /\ pc'[b] \notin {"queued", "start"}
  BY BuildMoves DEF Typing
<1>3. CASE b # Dry
  <2>1. pc[Dry] \notin {"queued", "start", "apply", "compile", "update"}
    BY <1>1, <1>2, <1>3, BuildAlone DEF DryFirst, InFlight, Synchronous
  <2>2. pc'[Dry] = pc[Dry]
    BY <1>1, <1>3, BuildMoves, SecondNames DEF Typing
  <2> QED
    BY <2>1, <2>2 DEF AsBuilt
<1>4. CASE b = Dry /\ StartDry
  <2>1. UNCHANGED <<app, cache, unsent>> /\ pc[Dry] = "start"
    BY <1>4 DEF StartDry, Goto, handlerVars, historyVars
  <2> QED
    BY <1>1, <1>2, <1>4, <2>1 DEF AsBuilt
<1>5. CASE b = Dry /\ (DryLater \/ Apply(b) \/ Compile(b))
  <2>1. UNCHANGED <<app, cache, unsent>> /\ pc[Dry] \in {"apply", "compile"}
    BY <1>5 DEF DryLater, Apply, Compile, Goto, handlerVars, historyVars
  <2> QED
    BY <1>1, <1>2, <1>5, <2>1 DEF AsBuilt
<1>6. CASE b = Dry /\ (DryRun \/ DisposePrevious(b) \/ Store(b))
  <2>1. pc'[Dry] \in {"dispose", "store", "generate", "done"}
    BY <1>1, <1>6 DEF DryRun, DisposePrevious, Store, Goto, After
  <2> QED
    BY <2>1 DEF AsBuilt
<1> QED
  BY <1>1, <1>3, <1>4, <1>5, <1>6 DEF BuildStep

\* What a broadcast brings about, if the application runs what the old container holds.
LEMMA PatchedInStep ==
  ASSUME NEW old, NEW new, UpToDate(old), app' = Patched(old, new),
         unsent' = {f \in unsent : new[f] = old[f]}
  PROVE  /\ \A f \in Files \ unsent' : app'[f] = new[f]
         /\ \A f \in Files \cap unsent' : f \in unsent /\ app'[f] = app[f]
<1>1. \A f \in Files : app'[f] = IF old[f] = new[f] THEN app[f] ELSE new[f]
  BY DEF Patched
<1> QED
  BY <1>1 DEF UpToDate

LEMMA BuildTracked ==
  ASSUME Typing, Kept, NEW b \in Builds, BuildStep(b), Solo, DryFirst, AsBuilt, Tracked, ~disturbed'
  PROVE  Tracked'
<1>1. /\ pc \in [Builds -> {"idle", "queued", "done"} \cup InFlight] /\ text \in [Builds -> Texts]
      /\ against \in [Builds -> Builds \cup {None}] /\ app \in Texts
      /\ previous \in Builds \cup {None} /\ unsent \subseteq Files
  BY DEF Typing, TypeOK
<1>2. \A c \in Builds : c # b => pc[c] \notin Storing \cup {"send"}
  BY BuildAlone DEF InFlight, Storing
<1>3. \A c \in Builds : c # b => pc'[c] \notin Storing \cup {"send"}
  BY <1>2, BuildMoves DEF Typing, Storing
<1>4. previous # None => previous # b \/ pc[b] = "generate"
  BY BuildMoves DEF Kept, Over, InFlight, Synchronous, Typing
<1>5. previous # None => (previous # b => text'[previous] = text[previous])
  <2>1. ASSUME previous # None, previous # b PROVE text'[previous] = text[previous]
    BY <1>1, <2>1, BuildMoves DEF Kept, Over, Typing
  <2> QED
    BY <2>1
\* Steps that leave the application and the container alone.
<1>6. ASSUME UNCHANGED <<app, previous, unsent>>, pc[b] \notin Storing, pc'[b] \notin Storing \cup {"send"},
             text'[b] = text[b] \/ pc[b] # "generate"
      PROVE  Tracked'
  <2>1. previous # None => text'[previous] = text[previous]
    BY <1>4, <1>5, <1>6
  <2>2. previous' # None => UpToDate(text[previous])'
    BY <1>2, <1>6, <2>1 DEF Tracked, UpToDate
  <2>3. \A c \in Builds : pc'[c] \notin Storing \cup {"send"}
    BY <1>3, <1>6
  <2> QED
    BY <1>6, <2>2, <2>3 DEF Tracked
<1>7. CASE b = Dry /\ StartDry
  <2>1. UNCHANGED <<app, previous, unsent>> /\ pc[b] = "start" /\ pc'[b] \in {"done", "apply"}
    BY <1>1, <1>7 DEF StartDry, Goto, handlerVars, historyVars
  <2> QED
    BY <1>6, <2>1 DEF Storing
<1>8. CASE b = Dry /\ DryRun
  <2>1. pc[b] = "update" /\ pc'[b] = "dispose" /\ UNCHANGED <<previous, text>>
    BY <1>1, <1>8 DEF DryRun, Goto, jobVars
  <2>2. /\ app = [f \in Files |-> 0]
        /\ unsent = IF cache = None THEN {} ELSE {f \in Files : cache[f] # app[f]}
    BY <1>8, <2>1 DEF AsBuilt
  <2>3. (\A f \in Files \ unsent' : app'[f] = text[b][f]) /\ \A f \in unsent' : app'[f] = 0
    <3>1. CASE cache = None
      <4>1. unsent' = {f \in Files : text[Dry][f] # app[f]} /\ app' = app
        BY <1>8, <3>1 DEF DryRun
      <4> QED
        BY <1>8, <2>2, <4>1
    <3>2. CASE cache # None
      <4>1. app' = Patched(cache, text[b]) /\ unsent' = {f \in unsent : text[b][f] = cache[f]}
        BY <1>8, <3>2 DEF DryRun
      <4>2. UpToDate(cache)
        BY <2>2, <3>2 DEF UpToDate
      <4>3. /\ \A f \in Files \ unsent' : app'[f] = text[b][f]
            /\ \A f \in Files \cap unsent' : f \in unsent /\ app'[f] = app[f]
        BY <4>1, <4>2, PatchedInStep
      <4> QED
        BY <1>1, <2>2, <4>1, <4>3
    <3> QED
      BY <3>1, <3>2
  <2> QED
    BY <1>3, <2>1, <2>3 DEF Tracked, UpToDate, Storing
<1>16. CASE b = Dry /\ DryLater
  <2>1. UNCHANGED <<app, previous, text, unsent, pc>> /\ pc[b] = "apply"
    BY <1>16 DEF DryLater, handlerVars, historyVars, jobVars
  <2> QED
    BY <1>6, <2>1 DEF Storing
<1>9. CASE b \in Jobs /\ (Debounce(b) \/ Start(b) \/ Read(b) \/ ReadLater(b) \/ ReadFails(b)
                          \/ StartRazor(b))
  <2>1. /\ UNCHANGED <<app, previous, unsent>> /\ pc[b] \in {"start", "read"}
        /\ pc'[b] \in {"done", "read", "apply", "compile"}
    BY <1>1, <1>9 DEF Debounce, Start, Read, ReadLater, ReadFails, StartRazor, Goto, handlerVars, historyVars
  <2> QED
    BY <1>6, <2>1 DEF Storing
<1>10. CASE b \in Jobs /\ (Generate(b) \/ GenerateFails(b))
  <2>1. /\ UNCHANGED <<app, previous, unsent>> /\ pc[b] = "generate" /\ pc'[b] = "done"
    <3>1. CASE GenerateFails(b)
      BY <1>1, <3>1 DEF GenerateFails, Goto, handlerVars, historyVars
    <3>2. CASE Generate(b)
      <4>1. /\ pc' = [pc EXCEPT ![b] = "done", ![Second(b)] = "apply"] /\ pc[b] = "generate"
            /\ UNCHANGED <<app, previous, unsent>>
        BY <3>2 DEF Generate, handlerVars, historyVars
      <4> QED
        BY <1>1, <1>10, <4>1, SecondNames
    <3> QED
      BY <1>10, <3>1, <3>2
  <2>2. text'[b] = text[b]
    <3>1. CASE GenerateFails(b)
      BY <3>1 DEF GenerateFails, jobVars
    <3>2. CASE Generate(b)
      <4>1. \E t : text' = [text EXCEPT ![Second(b)] = t]
        BY <3>2 DEF Generate
      <4> QED
        BY <1>1, <1>10, <4>1, SecondNames
    <3> QED
      BY <1>10, <3>1, <3>2
  <2> QED
    BY <1>6, <2>1, <2>2 DEF Storing
<1>11. CASE b # Dry /\ LookUpPrevious(b)
  <2>1. /\ pc[b] = "update" /\ UNCHANGED <<app, previous, text, unsent>> /\ previous # None
        /\ pc'[b] \in {"send", "generate", "done"}
        /\ against' = [against EXCEPT ![b] = IF previous \in disposed THEN None ELSE previous]
    BY <1>1, <1>11 DEF LookUpPrevious, Goto, handlerVars, historyVars, After
  <2>2. pc'[b] = "send" => previous \notin disposed
    BY <1>1, <1>11, <2>1 DEF LookUpPrevious, Goto, After
  <2>3. pc'[b] = "send" => against'[b] = previous
    BY <1>1, <2>1, <2>2
  <2>4. UpToDate(text[previous])'
    BY <1>2, <2>1 DEF Tracked, UpToDate, Storing
  <2>5. pc'[b] \notin Storing
    BY <2>1 DEF Storing
  <2> QED
    BY <1>3, <2>1, <2>3, <2>4, <2>5 DEF Tracked
<1>12. CASE b # Dry /\ Send(b)
  <2>1. /\ pc[b] = "send" /\ pc'[b] = "dispose" /\ UNCHANGED <<previous, text>>
        /\ app' = Patched(text[against[b]], text[b])
    BY <1>1, <1>12 DEF Send, Goto
  <2>2. UpToDate(text[against[b]]) /\ unsent' = {f \in unsent : text[b][f] = text[against[b]][f]}
    BY <1>2, <1>12, <2>1 DEF Tracked, Storing, Send
  <2>3. /\ \A f \in Files \ unsent' : app'[f] = text[b][f]
        /\ \A f \in Files \cap unsent' : f \in unsent /\ app'[f] = app[f]
    BY <2>1, <2>2, PatchedInStep
  <2>4. \A f \in unsent' : app'[f] = 0
    BY <1>1, <2>2, <2>3 DEF Tracked
  <2> QED
    BY <1>3, <2>1, <2>3, <2>4 DEF Tracked, UpToDate, Storing
<1>13. CASE SendFails(b) \/ Apply(b) \/ Compile(b)
  <2>1. /\ UNCHANGED <<app, previous, text, unsent>> /\ pc[b] \in {"send", "apply", "compile"}
        /\ pc'[b] \in {"compile", "update", "generate", "done"}
    BY <1>1, <1>13 DEF SendFails, Apply, Compile, Goto, After, handlerVars, historyVars, jobVars
  <2> QED
    BY <1>6, <2>1 DEF Storing
<1>14. CASE DisposePrevious(b)
  <2>1. UNCHANGED <<app, previous, text, unsent>> /\ pc[b] = "dispose" /\ pc'[b] = "store"
    BY <1>1, <1>14 DEF DisposePrevious, Goto, jobVars, historyVars
  <2> QED
    BY <1>3, <2>1 DEF Tracked, UpToDate, Storing
<1>15. CASE Store(b)
  <2>1. /\ UNCHANGED <<app, text, unsent>> /\ pc[b] = "store" /\ pc'[b] \in {"generate", "done"} /\ previous' = b
    BY <1>1, <1>15 DEF Store, Goto, jobVars, historyVars, After
  <2> QED
    BY <1>3, <2>1 DEF Tracked, UpToDate, Storing
<1> QED
  BY <1>7, <1>8, <1>9, <1>10, <1>11, <1>12, <1>13, <1>14, <1>15, <1>16 DEF BuildStep

LEMMA NextUndisturbed == Typing /\ Kept /\ Undisturbed /\ [Next]_vars => Undisturbed'
<1> SUFFICES ASSUME Typing, Kept, Undisturbed, [Next]_vars, ~disturbed' PROVE Undisturbed'
  BY DEF Undisturbed
<1>1. ASSUME NEW b \in Builds, BuildStep(b) PROVE Undisturbed'
  <2>1. Solo /\ DryFirst /\ AsBuilt /\ Tracked
    BY <1>1, BuildMoves DEF Undisturbed, Typing
  <2> QED
    BY <1>1, <2>1, BuildAlone, BuildAsBuilt, BuildTracked DEF Undisturbed
<1> QED
  BY <1>1, IdleUndisturbed

LEMMA UndisturbedInductive == Spec => [](Typing /\ Ordered /\ Taken /\ Kept /\ Undisturbed)
  BY TextsInductive, InitKept, NextKept, InitUndisturbed, NextUndisturbed, PTL DEF Spec, Typing

(* Without overlap the application runs, whenever the pipeline is at rest,  *)
(* exactly what was last compiled without errors: of every file but one     *)
(* whose text of the build was replaced before the first dry run, and that  *)
(* no compilation since differed in.                                        *)
THEOREM InStepSafe == Spec => []InStep
<1>1. Undisturbed => InStep
  <2> SUFFICES ASSUME Undisturbed, AtRest, ~disturbed, previous # None
               PROVE  UpToDate(text[previous])
    BY DEF InStep
  <2>1. \A b \in Builds : pc[b] \notin Storing
    BY DEF AtRest, InFlight, Storing
  <2>2. Tracked
    BY DEF Undisturbed
  <2> QED
    BY <2>1, <2>2 DEF Tracked
<1> QED
  BY <1>1, UndisturbedInductive, PTL
-----------------------------------------------------------------------------
\* With no Razor job, either, that began from an old project, what a build compiles is
\* what the workspace has.
Fresh(b) ==
  /\ pc[b] \in {"compile", "update", "send"} \cup Storing => text[b] = solution.texts
  /\ pc[b] \in {"read", "apply"} => base[b] = solution.version
  /\ IsRazor(b) /\ pc[b] \in InFlight \ {"start"} => base[b] = solution.version

Current ==
  /\ previous # None => AtMost(text[previous], solution.texts)
  /\ \A b \in Builds : Fresh(b)

Forward == ~disturbed /\ ~outdated => Current

LEMMA InitForward == ASSUME Init PROVE Forward
<1>1. previous = None /\ \A b \in Builds : pc[b] \in {"idle", "queued"}
  BY DEF Init
<1> QED
  BY <1>1 DEF Forward, Current, Fresh, InFlight, Synchronous, Storing

LEMMA IdleCurrent ==
  ASSUME Typing, Kept, Current, [Next]_vars, ~(\E b \in Builds : BuildStep(b))
  PROVE  Current'
<1>1. Idling
  BY IdleSteps DEF Typing
<1>2. previous \in Builds \cup {None}
  BY DEF Typing, TypeOK
<1>3. previous' # None => AtMost(text[previous], solution.texts)'
  <2>1. previous # None => text'[previous] = text[previous]
    BY <1>1, <1>2 DEF Idling, Kept, Over
  <2> QED
    BY <1>1, <2>1 DEF Idling, Current, AtMost
<1>4. ASSUME NEW b \in Builds PROVE Fresh(b)'
  <2>1. CASE UNCHANGED <<pc[b], text[b], base[b], file[b]>>
    BY <1>1, <2>1 DEF Idling, Current, Fresh, IsRazor
  <2>2. CASE pc'[b] \in {"queued", "start"}
    BY <2>2 DEF Fresh, InFlight, Synchronous, Storing
  <2> QED
    BY <1>1, <2>1, <2>2 DEF Idling
<1> QED
  BY <1>3, <1>4 DEF Current

LEMMA BuildFresh ==
  ASSUME Typing, Ordered, Taken, NEW b \in Builds, BuildStep(b), Fresh(b), ~outdated'
  PROVE  /\ Fresh(b)'
         /\ b \in Jobs /\ Generate(b) => Fresh(Second(b))'
<1>1. /\ pc \in [Builds -> {"idle", "queued", "done"} \cup InFlight] /\ text \in [Builds -> Texts]
      /\ base \in [Builds -> Nat] /\ solution \in [texts : Texts, version : Nat]
  BY DEF Typing, TypeOK
<1> USE DEF Storing
<1>2. CASE b = Dry /\ StartDry
  <2>1. /\ pc'[b] \in {"done", "apply"} /\ solution' = solution /\ b \notin Jobs
        /\ base' = [base EXCEPT ![b] = solution.version] /\ pc[b] = "start"
    BY <1>1, <1>2, BuildNames DEF StartDry, Goto
  <2>2. base'[b] = solution.version
    BY <1>1, <2>1
  <2> QED
    BY <2>1, <2>2 DEF Fresh, IsRazor
<1>3. CASE b \in Jobs /\ (Start(b) \/ Read(b))
  <2>1. /\ pc'[b] \in {"read", "apply"} /\ solution' = solution /\ pc[b] \in {"start", "read"}
        /\ base'[b] = solution.version
    <3>1. CASE Start(b)
      BY <1>1, <3>1 DEF Start, Goto
    <3>2. CASE Read(b)
      BY <1>1, <3>2 DEF Read, Goto, Fresh
    <3> QED
      BY <1>3, <3>1, <3>2
  <2>2. pc[b] # "generate" /\ pc'[b] \notin {"compile", "update", "send"} \cup Storing
    BY <2>1
  <2> QED
    BY <1>3, <2>1, <2>2 DEF Fresh, Generate
<1>8. CASE b = Dry /\ DryLater
  <2>1. UNCHANGED <<pc, file, base, text, solution>> /\ b \notin Jobs
    BY <1>8, BuildNames DEF DryLater, jobVars
  <2> QED
    BY <2>1 DEF Fresh, IsRazor
<1>4. CASE b \in Jobs /\ Generate(b)
  <2>0. PICK k : k = Second(b)
    OBVIOUS
  <2>1. /\ pc' = [pc EXCEPT ![b] = "done", ![k] = "apply"] /\ pc[b] = "generate" /\ solution' = solution
        /\ base' = [base EXCEPT ![k] = base[b], ![b] = 0] /\ file[b] \in Razor
    BY <1>4, <2>0 DEF Generate
  <2>2. k \in Builds \ Jobs /\ k # b
    BY <1>4, <2>0, SecondNames
  <2>3. base[b] = solution.version
    BY <1>4, <2>1 DEF Fresh, IsRazor, InFlight
  <2>4. pc'[b] = "done" /\ pc'[k] = "apply" /\ base'[k] = solution.version
    BY <1>1, <2>1, <2>2, <2>3
  <2>5. Fresh(b)'
    BY <2>4 DEF Fresh, InFlight, Synchronous
  <2>6. Fresh(k)'
    BY <2>1, <2>2, <2>4 DEF Fresh, IsRazor
  <2> QED
    BY <2>0, <2>5, <2>6
<1>5. CASE Apply(b)
  <2>1. /\ pc[b] = "apply" /\ pc'[b] = "compile" /\ text' = text /\ file' = file
        /\ base[b] = solution.version => solution'.texts = text[b]
    BY <1>1, <1>5 DEF Apply, Goto
  <2>2. base[b] = solution.version /\ ~IsRazor(b)
    BY <2>1 DEF Fresh, Taken
  <2> QED
    BY <2>1, <2>2 DEF Fresh, IsRazor, Generate
<1>6. CASE b \in Jobs /\ StartRazor(b)
  <2>1. /\ pc[b] = "start" /\ pc'[b] = "compile" /\ UNCHANGED <<text, base, file, solution>>
        /\ file[b] \in Razor /\ base[b] = solution.version
    BY <1>1, <1>6 DEF StartRazor, Goto, jobVars
  <2>2. text[b] = solution.texts
    BY <1>6, <2>1 DEF Taken, IsRazor
  <2> QED
    BY <2>1, <2>2 DEF Fresh, Generate
<1>7. CASE ~TextStep(b) /\ ~(b \in Jobs /\ StartRazor(b))
  <2>1. UNCHANGED <<solution, base, text, file>> /\ ~(b \in Jobs /\ Generate(b))
    BY <1>7, OtherBuilds DEF Typing, TextStep
  <2>2. \/ pc'[b] \in {"done", "generate"} /\ pc[b] \notin {"idle", "start"}
        \/ pc'[b] = "done"
        \/ pc[b] = "read" /\ pc'[b] = "read"
        \/ {pc[b], pc'[b]} \subseteq {"compile", "update", "send"} \cup Storing
    <3>1. CASE b \in Jobs /\ (Debounce(b) \/ ReadLater(b) \/ ReadFails(b) \/ GenerateFails(b))
      BY <1>1, <3>1 DEF Debounce, ReadLater, ReadFails, GenerateFails, Goto
    <3>2. CASE (b = Dry /\ DryRun) \/ Compile(b) \/ LookUpPrevious(b) \/ Send(b) \/ SendFails(b)
               \/ DisposePrevious(b) \/ Store(b)
      BY <1>1, <3>2 DEF DryRun, Compile, LookUpPrevious, Send, SendFails, DisposePrevious, Store,
         Goto, After
    <3> QED
      BY <1>7, <3>1, <3>2 DEF BuildStep, TextStep
  <2>3. pc[b] \in InFlight
    BY BuildMoves DEF Typing
  <2> QED
    BY <2>1, <2>2, <2>3 DEF Fresh, IsRazor, InFlight, Synchronous
<1> QED
  BY <1>2, <1>3, <1>4, <1>5, <1>6, <1>7, <1>8 DEF TextStep

LEMMA BuildCurrent ==
  ASSUME Typing, Ordered, Taken, Kept, Solo, DryFirst, Current, [Next]_vars,
         NEW b \in Builds, BuildStep(b), ~outdated'
  PROVE  Current'
<1>1. ASSUME NEW c \in Builds PROVE Fresh(c)'
  <2>1. Fresh(b)' /\ (b \in Jobs /\ Generate(b) => Fresh(Second(b))')
    BY BuildFresh DEF Current
  <2>2. c = b \/ (b \in Jobs /\ Generate(b) /\ c = Second(b)) \/ pc'[c] = pc[c]
    BY BuildMoves DEF Typing
  <2>3. CASE c # b /\ pc'[c] = pc[c]
    <3>1. pc'[c] \notin InFlight
      BY <2>3, BuildAlone
    <3> QED
      BY <3>1 DEF Fresh, InFlight, Synchronous, Storing
  <2> QED
    BY <2>1, <2>2, <2>3
<1>2. \A f \in Files : /\ solution'.texts[f] >= solution.texts[f]
                       /\ solution.texts[f] \in Nat /\ solution'.texts[f] \in Nat
                       /\ \A c \in Builds : text[c][f] \in Nat
  <2>1. TypeOK'
    BY NextTypeOK DEF Typing
  <2>2. \A f \in Files : solution'.texts[f] \in Nat
    BY <2>1, UpdatePipelineAssumption DEF TypeOK, Texts, Versions
  <2> QED
    BY <2>2, SolutionGrows, Numbers, TextNumbers DEF Typing
<1>3. CASE Store(b)
  <2>1. previous' = b /\ UNCHANGED <<text, solution>> /\ pc[b] = "store"
    BY <1>3 DEF Store, Goto, jobVars
  <2>2. text[b] = solution.texts
    BY <2>1 DEF Current, Fresh, Storing
  <2>3. AtMost(text[previous], solution.texts)'
    BY <1>2, <2>1, <2>2 DEF AtMost
  <2> QED
    BY <1>1, <2>3 DEF Current
<1>4. CASE ~Store(b)
  <2>1. previous' = previous
    BY <1>4 DEF BuildStep, handlerVars, StartDry, DryLater, DryRun, Debounce, Start, Read, ReadLater, ReadFails,
       StartRazor, Generate, GenerateFails, LookUpPrevious, Send, SendFails, Apply, Compile,
       DisposePrevious
  <2>2. previous # None => text'[previous] = text[previous]
    <3>1. SUFFICES ASSUME previous # None PROVE text'[previous] = text[previous]
      OBVIOUS
    <3>2. previous \in Builds /\ pc[previous] \in Over
      BY <3>1 DEF Kept, Typing, TypeOK
    <3>3. CASE previous # b
      BY <3>2, <3>3, BuildMoves DEF Over, Typing
    <3>4. CASE pc[b] \in Over
      <4>1. pc[b] = "generate"
        BY <3>4, BuildMoves DEF Over, InFlight, Synchronous, Typing
      <4>2. CASE b \in Jobs /\ Generate(b)
        <5>1. \E t : text' = [text EXCEPT ![Second(b)] = t]
          BY <4>2 DEF Generate
        <5> QED
          BY <3>3, <4>2, <5>1, SecondNames DEF Typing, TypeOK
      <4>3. CASE ~(b \in Jobs /\ Generate(b))
        <5>1. ~TextStep(b)
          BY <4>1, <4>3 DEF TextStep, StartDry, DryLater, Start, Read, Apply, Goto
        <5> QED
          BY <5>1, OtherBuilds DEF Typing
      <4> QED
        BY <4>2, <4>3
    <3> QED
      BY <3>2, <3>3, <3>4
  <2>3. previous' # None => AtMost(text[previous], solution.texts)'
    <3>1. SUFFICES ASSUME previous # None PROVE AtMost(text[previous], solution.texts)'
      BY <2>1
    <3>2. previous \in Builds
      BY <3>1 DEF Typing, TypeOK
    <3> QED
      BY <1>2, <2>1, <2>2, <3>1, <3>2 DEF Current, AtMost
  <2> QED
    BY <1>1, <2>3 DEF Current
<1> QED
  BY <1>3, <1>4

\* The histories are not forgotten.
LEMMA HistoryKept == ASSUME Typing, [Next]_vars PROVE (disturbed => disturbed') /\ (outdated => outdated')
<1>1. ASSUME NEW b \in Builds, BuildStep(b) PROVE outdated => outdated'
  BY <1>1 DEF BuildStep, historyVars, StartDry, DryLater, DryRun, Debounce, Start, Read, ReadLater, ReadFails,
     StartRazor, Generate, GenerateFails, LookUpPrevious, Send, SendFails, Apply, Compile,
     DisposePrevious, Store
<1> QED
  BY <1>1, BuildMoves, IdleSteps DEF Idling, Typing

LEMMA NextForward ==
  Typing /\ Ordered /\ Taken /\ Kept /\ Undisturbed /\ Forward /\ [Next]_vars => Forward'
<1> SUFFICES ASSUME Typing, Ordered, Taken, Kept, Undisturbed, Forward, [Next]_vars,
                    ~disturbed', ~outdated'
             PROVE  Current'
  BY DEF Forward
<1>1. Current /\ Solo /\ DryFirst
  BY HistoryKept DEF Forward, Undisturbed
<1> QED
  BY <1>1, IdleCurrent, BuildCurrent

LEMMA ForwardInductive == Spec => [](Typing /\ Ordered /\ Taken /\ Kept /\ Undisturbed /\ Forward)
  BY UndisturbedInductive, InitForward, NextForward, PTL DEF Spec

LEMMA AppGrows ==
  ASSUME Typing, Kept, Undisturbed, Forward, [Next]_vars, ~disturbed', ~outdated'
  PROVE  \A f \in Files : app'[f] >= app[f]
<1>1. Current /\ Solo /\ DryFirst /\ AsBuilt /\ Tracked
  BY HistoryKept DEF Forward, Undisturbed
<1>2. \A f \in Files : app[f] \in Nat /\ app'[f] \in Nat /\ solution.texts[f] \in Nat
                       /\ \A b \in Builds : text[b][f] \in Nat
  <2>1. TypeOK'
    BY NextTypeOK DEF Typing
  <2>2. app' \in Texts
    BY <2>1 DEF TypeOK
  <2> QED
    BY <2>2, Numbers, TextNumbers DEF Typing
<1>3. CASE DryRun
  <2>1. app = [f \in Files |-> 0]
    BY <1>1, <1>3 DEF AsBuilt, DryRun, Goto
  <2> QED
    BY <1>2, <2>1
<1>4. ASSUME NEW b \in Builds, BuildStep(b), Send(b)
      PROVE  \A f \in Files : app'[f] >= app[f]
  <2>1. pc[b] = "send" /\ app' = Patched(text[against[b]], text[b])
    BY <1>4 DEF Send, Goto
  <2>2. \A c \in Builds : c # b => pc[c] \notin InFlight
    BY <1>1, <1>4, BuildAlone
  <2>3. previous # None /\ against[b] = previous /\ UpToDate(text[previous])
    BY <1>1, <2>1, <2>2 DEF Tracked, Storing, InFlight
  <2>4. text[b] = solution.texts
    BY <1>1, <2>1 DEF Current, Fresh
  <2>5. \A f \in Files : text[previous][f] <= solution.texts[f]
    BY <1>1, <2>3 DEF Current, AtMost
  <2>6. \A f \in Files : app[f] <= solution.texts[f]
    BY <1>1, <1>2, <2>3, <2>5 DEF Tracked, UpToDate
  <2>7. \A f \in Files : app'[f] = app[f] \/ app'[f] = text[b][f]
    BY <2>1 DEF Patched
  <2> QED
    BY <1>2, <2>4, <2>6, <2>7
<1>5. ASSUME NEW b \in Builds, BuildStep(b), ~Send(b), ~DryRun PROVE app' = app
  BY <1>5 DEF BuildStep, handlerVars, StartDry, DryLater, Debounce, Start, Read, ReadLater, ReadFails,
     StartRazor, Generate, GenerateFails, LookUpPrevious, SendFails, Apply, Compile,
     DisposePrevious, Store
<1>6. (\E b \in Builds : BuildStep(b)) \/ app' = app
  BY IdleSteps DEF Typing, Idling
<1> QED
  BY <1>2, <1>3, <1>4, <1>5, <1>6

(* Without overlap, and with no Razor job that began from an old project,   *)
(* no update takes the application back to an older text of a file.         *)
THEOREM BackwardsSafe == Spec => NeverBackwards
<1>1. Typing /\ Ordered /\ Taken /\ Kept /\ Undisturbed /\ Forward /\ [Next]_vars
        => [~disturbed' /\ ~outdated' => \A f \in Files : app'[f] >= app[f]]_vars
  BY AppGrows
<1> QED
  BY <1>1, ForwardInductive, PTL DEF Spec, NeverBackwards
-----------------------------------------------------------------------------
\* What is queued is on the queue.
Waiting == \A b \in Builds : pc[b] = "queued" => \E i \in 1..Len(queue) : queue[i] = b

\* The build that will put the last text of a file that was noticed into the workspace.
Coming(b, f) ==
  \/ b \in Jobs /\ file[b] = f /\ pc[b] \in {"queued", "start", "read"}
  \/ b \in Jobs /\ file[b] = f /\ f \in Razor /\ pc[b] \in InFlight
  \/ pc[b] = "apply" /\ text[b][f] >= seen[f]

Provided(f) == solution.texts[f] >= seen[f] \/ \E b \in Builds : Coming(b, f)

Saved == refused = {} => \A f \in Files \ missed : Handled(f) => Provided(f)

LEMMA InitSaved == ASSUME Init PROVE Waiting /\ Saved
<1>1. /\ queue = <<Dry>> /\ pc = [b \in Builds |-> IF b = Dry THEN "queued" ELSE "idle"]
      /\ file = [b \in Builds |-> None]
  BY DEF Init
<1>2. \A f \in Files : ~Handled(f)
  BY <1>1, BuildNames, UpdatePipelineAssumption DEF Handled
<1>3. Waiting
  BY <1>1 DEF Waiting
<1> QED
  BY <1>2, <1>3 DEF Saved

\* A build does not touch the queue, nor what the watcher has seen, and knows its file.
LEMMA BuildKeeps == ASSUME TypeOK, NEW b \in Builds, BuildStep(b) PROVE UNCHANGED <<queue, seen, file>>
<1> USE DEF fileVars, queueVars, jobVars
<1>1. UNCHANGED <<queue, file>>
  BY OtherBuilds DEF TextStep, StartDry, DryLater, Start, Read, Generate, Apply
<1>2. seen' = seen
  BY OtherBuilds DEF TextStep, StartDry, DryLater, Start, Read, Generate, Apply
<1> QED
  BY <1>1, <1>2

LEMMA NextWaiting == ASSUME Typing, Waiting, [Next]_vars PROVE Waiting'
<1>1. /\ queue \in Seq(Builds) /\ pc \in [Builds -> {"idle", "queued", "done"} \cup InFlight]
  BY DEF Typing, TypeOK
<1>2. ASSUME NEW f \in Files, NEW j \in Jobs, Notice(f, j) PROVE Waiting'
  <2>1. queue' = Append(queue, j) /\ pc' = [pc EXCEPT ![j] = "queued"] /\ j \in Builds
    BY <1>2, BuildNames DEF Notice, Goto
  <2>2. Len(queue') = Len(queue) + 1 /\ queue'[Len(queue) + 1] = j /\ Len(queue) \in Nat
    BY <1>1, <2>1
  <2>3. \A i \in 1..Len(queue) : queue'[i] = queue[i]
    BY <1>1, <2>1
  <2>4. ASSUME NEW b \in Builds, pc'[b] = "queued" PROVE \E i \in 1..Len(queue') : queue'[i] = b
    <3>1. CASE b = j
      BY <2>2, <3>1
    <3>2. CASE b # j
      <4>1. PICK i \in 1..Len(queue) : queue[i] = b
        BY <1>1, <2>1, <2>4, <3>2 DEF Waiting
      <4> QED
        BY <2>2, <2>3, <4>1
    <3> QED
      BY <3>1, <3>2
  <2> QED
    BY <2>4 DEF Waiting
<1>3. ASSUME RunNext PROVE Waiting'
  <2>1. PICK h : h = Head(queue)
    OBVIOUS
  <2>2. queue # <<>> /\ queue' = Tail(queue) /\ pc[h] = "queued" /\ pc' = [pc EXCEPT ![h] = "start"]
    BY <1>3, <2>1 DEF RunNext, Goto
  <2>3. ASSUME NEW b \in Builds, pc'[b] = "queued" PROVE \E i \in 1..Len(queue') : queue'[i] = b
    <3>1. b # h /\ pc[b] = "queued"
      BY <1>1, <2>2, <2>3
    <3>2. PICK i \in 1..Len(queue) : queue[i] = b
      BY <3>1 DEF Waiting
    <3>3. i # 1 /\ Len(queue) \in Nat
      BY <1>1, <2>1, <2>2, <3>1, <3>2
    <3>4. Len(queue') = Len(queue) - 1 /\ i - 1 \in 1..Len(queue')
      BY <1>1, <2>2, <3>3
    <3>5. queue'[i - 1] = b
      BY <1>1, <2>2, <3>2, <3>3, <3>4
    <3> QED
      BY <3>4, <3>5
  <2> QED
    BY <2>3 DEF Waiting
<1>4. ASSUME NEW b \in Builds, BuildStep(b) PROVE Waiting'
  <2>1. queue' = queue /\ \A c \in Builds : pc'[c] = "queued" => pc[c] = "queued"
    BY <1>4, BuildMoves, BuildKeeps DEF Typing
  <2> QED
    BY <2>1 DEF Waiting
<1>5. CASE UNCHANGED vars \/ \E f \in Files : Edit(f) \/ TimePasses(f) \/ Ignore(f)
  <2>1. UNCHANGED <<queue, pc>>
    BY <1>5 DEF vars, Edit, TimePasses, Ignore, queueVars
  <2> QED
    BY <2>1 DEF Waiting
<1> QED
  BY <1>2, <1>3, <1>4, <1>5 DEF Next

\* The watcher, the clock and the queue leave what is coming to come.
LEMMA IdleSaved ==
  ASSUME Typing, Saved, [Next]_vars, ~(\E b \in Builds : BuildStep(b))
  PROVE  Saved'
<1>1. Idling
  BY IdleSteps DEF Typing
<1>2. /\ seen \in Texts /\ pc \in [Builds -> {"idle", "queued", "done"} \cup InFlight]
      /\ file \in [Builds -> Files \cup {None}]
  BY DEF Typing, TypeOK
<1>3. ASSUME NEW f \in Files, NEW b \in Builds, Coming(b, f), seen'[f] = seen[f]
      PROVE  Coming(b, f)'
  <2>1. CASE UNCHANGED <<pc[b], text[b], base[b], file[b]>>
    BY <1>3, <2>1 DEF Coming
  <2>2. CASE pc[b] = "queued" /\ pc'[b] = "start" /\ file'[b] = file[b]
    BY <1>3, <2>2 DEF Coming, InFlight, Synchronous
  <2>3. pc[b] # "idle"
    BY <1>3 DEF Coming, InFlight, Synchronous
  <2> QED
    BY <1>1, <2>1, <2>2, <2>3 DEF Idling
<1>4. ASSUME NEW f \in Files \ missed, refused = {}, Handled(f), seen'[f] = seen[f]
      PROVE  Provided(f)'
  BY <1>1, <1>3, <1>4 DEF Idling, Saved, Provided
<1>7. ASSUME NEW g \in Files, Ignore(g) PROVE Saved'
  <2>1. UNCHANGED <<file, pc>> /\ missed' = missed \cup {g} /\ seen' = [seen EXCEPT ![g] = disk[g]]
    BY <1>7 DEF Ignore, jobVars
  <2>2. ASSUME NEW f \in Files \ missed', refused' = {}, Handled(f)' PROVE Provided(f)'
    <3>1. f \notin missed /\ Handled(f) /\ seen'[f] = seen[f]
      BY <1>2, <2>1, <2>2 DEF Handled, Texts
    <3> QED
      BY <1>1, <1>4, <2>2, <3>1 DEF Idling
  <2> QED
    BY <2>2 DEF Saved
<1>5. CASE UNCHANGED vars \/ RunNext \/ \E f \in Files : Edit(f) \/ TimePasses(f)
  <2>1. UNCHANGED <<seen, file>>
    BY <1>5 DEF vars, RunNext, Edit, TimePasses, fileVars, jobVars
  <2> QED
    BY <1>1, <1>4, <2>1 DEF Idling, Saved, Handled
<1>6. ASSUME NEW g \in Files, NEW j \in Jobs, Notice(g, j) PROVE Saved'
  <2>1. /\ pc' = [pc EXCEPT ![j] = "queued"] /\ file' = [file EXCEPT ![j] = g]
        /\ seen' = [seen EXCEPT ![g] = disk[g]] /\ j \in Builds
    BY <1>6, BuildNames DEF Notice, Goto
  <2>2. Coming(j, g)'
    BY <1>2, <2>1 DEF Coming
  <2>3. \A f \in Files \ {g} : seen'[f] = seen[f] /\ (Handled(f)' => Handled(f))
    BY <1>2, <2>1, BuildNames DEF Handled, Texts
  <2>4. ASSUME NEW f \in Files \ missed', refused' = {}, Handled(f)' PROVE Provided(f)'
    <3>1. CASE f = g
      BY <2>1, <2>2, <3>1 DEF Provided
    <3>2. CASE f # g
      BY <1>1, <1>4, <2>3, <2>4, <3>2 DEF Idling
    <3> QED
      BY <3>1, <3>2
  <2> QED
    BY <2>4 DEF Saved
<1> QED
  BY <1>5, <1>6, <1>7 DEF Next
\* A build that is to bring the last text of a file either still is, or has brought it,
\* or was dropped.
LEMMA BuildBrings ==
  ASSUME Typing, Ordered, Taken, NEW b \in Builds, BuildStep(b), refused' = {},
         NEW f \in Files, f \notin missed'
  PROVE  /\ f \in missed => \E c \in Builds : Coming(c, f)'
         /\ Coming(b, f) => Provided(f)'
<1>1. /\ pc \in [Builds -> {"idle", "queued", "done"} \cup InFlight] /\ text \in [Builds -> Texts]
      /\ base \in [Builds -> Nat] /\ solution \in [texts : Texts, version : Nat]
      /\ \A c \in Builds : \A g \in Files : text[c][g] \in Nat /\ disk[g] \in Nat /\ seen[g] \in Nat
      /\ \A g \in Files : disk[g] >= seen[g]
  BY Numbers, TextNumbers DEF Typing, TypeOK, Ordered, AtMost
<1>2. seen' = seen /\ file' = file
  BY BuildKeeps DEF Typing
<1> USE <1>2 DEF Provided
<1>3. CASE b = Dry /\ StartDry
  <2>1. pc[b] = "start" /\ b \notin Jobs /\ missed' = missed
    BY <1>3, BuildNames DEF StartDry, Goto, historyVars
  <2> QED
    BY <2>1 DEF Coming
<1>13. CASE b = Dry /\ DryLater
  <2>1. UNCHANGED <<pc, file, text, missed>>
    BY <1>13 DEF DryLater, jobVars
  <2> QED
    BY <2>1 DEF Coming
<1>4. CASE b \in Jobs /\ Debounce(b)
  <2>1. /\ pc[b] = "start" /\ pc' = [pc EXCEPT ![b] = "done"] /\ file[b] \notin Razor
        /\ \/ missed' = missed /\ \E i \in Jobs : file[i] = file[b] /\ pc[i] = "read"
           \/ missed' = missed \cup {file[b]}
    BY <1>4 DEF Debounce, Goto
  <2>2. ASSUME Coming(b, f) PROVE \E c \in Builds : Coming(c, f)'
    <3>1. file[b] = f
      BY <2>1, <2>2 DEF Coming
    <3>2. PICK i \in Jobs : file[i] = f /\ pc[i] = "read"
      BY <2>1, <3>1
    <3>3. i \in Builds /\ pc'[i] = "read"
      BY <1>1, <2>1, <3>2, BuildNames
    <3> QED
      BY <3>2, <3>3 DEF Coming
  <2> QED
    BY <2>1, <2>2
<1>5. CASE b \in Jobs /\ Start(b)
  <2>1. pc[b] = "start" /\ pc'[b] = "read" /\ missed' = missed
    BY <1>1, <1>5 DEF Start, Goto, historyVars
  <2> QED
    BY <1>5, <2>1 DEF Coming, InFlight, Synchronous
<1>6. CASE b \in Jobs /\ Read(b)
  <2>1. /\ pc[b] = "read" /\ pc'[b] = "apply" /\ missed' = missed \ {file[b]}
        /\ text' = [text EXCEPT ![b][file[b]] = disk[file[b]]] /\ ~IsRazor(b)
    BY <1>1, <1>6 DEF Read, Goto, Taken
  <2>2. f = file[b] => text'[b][f] = disk[f]
    BY <1>1, <2>1 DEF Texts
  <2>3. f = file[b] => Coming(b, f)'
    BY <1>1, <2>1, <2>2 DEF Coming
  <2>4. Coming(b, f) => f = file[b]
    BY <2>1 DEF Coming
  <2> QED
    BY <2>1, <2>3, <2>4
<1>7. CASE b \in Jobs /\ ReadLater(b)
  <2>1. pc[b] = "read" /\ pc' = pc /\ missed' = missed /\ text' = text
    BY <1>7 DEF ReadLater, jobVars
  <2> QED
    BY <2>1 DEF Coming
<1>8. CASE b \in Jobs /\ (ReadFails(b) \/ GenerateFails(b))
  <2>1. pc[b] \in {"read", "generate"} /\ missed' = missed \cup {file[b]}
    BY <1>8 DEF ReadFails, GenerateFails, Goto
  <2>2. ~Coming(b, f)
    BY <2>1 DEF Coming
  <2> QED
    BY <2>1, <2>2
<1>9. CASE b \in Jobs /\ Generate(b)
  <2>0. PICK k : k = Second(b)
    OBVIOUS
  <2>1. /\ pc[b] = "generate" /\ pc' = [pc EXCEPT ![b] = "done", ![k] = "apply"]
        /\ text' = [text EXCEPT ![k] = [text[b] EXCEPT ![file[b]] = disk[file[b]]]]
        /\ missed' = missed \ {file[b]}
    BY <1>9, <2>0 DEF Generate
  <2>2. k \in Builds /\ k # b
    BY <1>9, <2>0, SecondNames
  <2>3. f = file[b] => text'[k][f] = disk[f]
    BY <1>1, <2>1, <2>2 DEF Texts
  <2>4. f = file[b] => Coming(k, f)'
    BY <1>1, <2>1, <2>2, <2>3 DEF Coming
  <2>5. Coming(b, f) => f = file[b]
    BY <2>1 DEF Coming
  <2> QED
    BY <2>1, <2>2, <2>4, <2>5
<1>10. CASE Apply(b)
  <2>1. pc[b] = "apply" /\ missed' = missed /\ ~IsRazor(b)
    BY <1>10 DEF Apply, Goto, Taken
  <2>2. solution'.texts = text[b]
    BY <1>10 DEF Apply
  <2>3. Coming(b, f) => text[b][f] >= seen[f]
    BY <2>1 DEF Coming, IsRazor
  <2> QED
    BY <2>1, <2>2, <2>3
<1>11. CASE b \in Jobs /\ StartRazor(b)
  <2>1. file[b] \in Razor /\ pc[b] = "start" /\ pc'[b] = "compile" /\ missed' = missed
    BY <1>1, <1>11 DEF StartRazor, Goto
  <2> QED
    BY <1>11, <2>1 DEF Coming, InFlight, Synchronous
<1>12. CASE (b = Dry /\ DryRun) \/ Compile(b) \/ (b # Dry /\ (LookUpPrevious(b) \/ Send(b) \/ SendFails(b)))
            \/ DisposePrevious(b) \/ Store(b)
  <2>1. /\ pc[b] \in {"compile", "update", "send"} \cup Storing
        /\ pc'[b] \in {"update", "send", After(b)} \cup Storing
        /\ missed' = missed
    BY <1>1, <1>12 DEF DryRun, Compile, LookUpPrevious, Send, SendFails, DisposePrevious, Store,
       Goto, Storing, historyVars
  <2>2. ASSUME Coming(b, f) PROVE Coming(b, f)'
    <3>1. b \in Jobs /\ file[b] = f /\ f \in Razor
      BY <2>1, <2>2 DEF Coming, Storing
    <3>2. pc'[b] \in InFlight
      BY <2>1, <3>1 DEF After, InFlight, Storing
    <3> QED
      BY <3>1, <3>2 DEF Coming
  <2> QED
    BY <2>1, <2>2
<1> QED
  BY <1>3, <1>4, <1>5, <1>6, <1>7, <1>8, <1>9, <1>10, <1>11, <1>12, <1>13 DEF BuildStep

LEMMA BuildSaved ==
  ASSUME Typing, Ordered, Taken, Saved, [Next]_vars, NEW b \in Builds, BuildStep(b)
  PROVE  Saved'
<1>1. refused \subseteq refused'
  BY DEF BuildStep, historyVars, StartDry, DryLater, DryRun, Debounce, Start, Read, ReadLater, ReadFails,
     StartRazor, Generate, GenerateFails, LookUpPrevious, Send, SendFails, Apply, Compile,
     DisposePrevious, Store
<1>2. UNCHANGED <<seen, file>>
  BY BuildKeeps DEF Typing
<1>3. ASSUME refused' = {}, NEW f \in Files \ missed', Handled(f)' PROVE Provided(f)'
  <2>1. Handled(f)
    BY <1>2, <1>3 DEF Handled
  <2>2. CASE f \in missed
    BY <1>3, <2>2, BuildBrings DEF Provided
  <2>3. CASE f \notin missed /\ solution.texts[f] >= seen[f]
    <3>1. solution'.texts[f] >= solution.texts[f]
      BY SolutionGrows
    <3>2. solution'.texts[f] \in Nat /\ solution.texts[f] \in Nat /\ seen[f] \in Nat
      <4>1. TypeOK'
        BY NextTypeOK DEF Typing
      <4>2. solution'.texts \in Texts
        BY <4>1 DEF TypeOK
      <4> QED
        BY <4>2, Numbers, TextNumbers DEF Typing
    <3> QED
      BY <1>2, <2>3, <3>1, <3>2 DEF Provided
  <2>4. ASSUME NEW c \in Builds, Coming(c, f), c # b PROVE Coming(c, f)'
    <3>1. pc'[c] = pc[c] /\ text'[c] = text[c]
      BY <2>4, BuildMoves DEF Typing, Coming, InFlight, Synchronous
    <3> QED
      BY <1>2, <2>4, <3>1 DEF Coming
  <2>5. CASE f \notin missed /\ \E c \in Builds : Coming(c, f)
    BY <1>3, <2>4, <2>5, BuildBrings DEF Provided
  <2> QED
    BY <1>1, <1>3, <2>1, <2>2, <2>3, <2>5 DEF Saved, Provided
<1> QED
  BY <1>3 DEF Saved

LEMMA SavedInductive == Spec => [](Typing /\ Ordered /\ Taken /\ Waiting /\ Saved)
<1>1. Init => Waiting /\ Saved
  BY InitSaved
<1>2. Typing /\ Ordered /\ Taken /\ Waiting /\ Saved /\ [Next]_vars => Waiting' /\ Saved'
  BY NextWaiting, IdleSaved, BuildSaved
<1> QED
  BY <1>1, <1>2, TextsInductive, PTL DEF Spec

(* When everything that was noticed has been handled, the workspace has the *)
(* file as it was saved last, unless a save was dropped, a file could not   *)
(* be read, or a solution was refused.                                      *)
THEOREM SavedSafe == Spec => []SavedIsApplied
<1>1. Typing /\ Ordered /\ Waiting /\ Saved => SavedIsApplied
  <2> SUFFICES ASSUME Typing, Ordered, Waiting, Saved, AtRest, queue = <<>>, refused = {},
                      NEW f \in Files \ missed, Handled(f), seen[f] = disk[f]
               PROVE  solution.texts[f] = disk[f]
    BY DEF SavedIsApplied
  <2>1. \A b \in Builds : pc[b] \notin InFlight /\ pc[b] # "queued"
    BY DEF AtRest, Waiting
  <2>2. ~\E b \in Builds : Coming(b, f)
    BY <2>1 DEF Coming, InFlight, Synchronous
  <2>3. solution.texts[f] >= seen[f] /\ solution.texts[f] <= disk[f]
    BY <2>2 DEF Saved, Provided, Ordered, AtMost
  <2>4. solution.texts[f] \in Nat /\ disk[f] \in Nat
    BY Numbers, TextNumbers DEF Typing
  <2> QED
    BY <2>3, <2>4
<1> QED
  BY <1>1, SavedInductive, PTL
=============================================================================
