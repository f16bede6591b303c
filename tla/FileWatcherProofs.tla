-------------------------- MODULE FileWatcherProofs --------------------------
(***************************************************************************)
(* Proofs about FileWatcher, for any number of files, timers and writes.   *)
(***************************************************************************)
EXTENDS FileWatcher, TLAPS

\* A source that has been cancelled was cancelled by a scan that has not yet
\* come to give _cts another one, or by Dispose.
Working == {"look", "compare", "store", "check", "renew"}

Ahead ==
  /\ at \in [Scanners -> {"idle"} \cup Scanning \cup Set]
  /\ closing => isDisposed
  /\ ~isDisposed /\ failed = "no" /\ cancelled => \E s \in Scanners : at[s] \in Working
  /\ ~isDisposed /\ failed = "no" => \E s \in Scanners : at[s] \in Scanning \cup Set

LEMMA InitAhead == Init => Ahead
<1> SUFFICES ASSUME Init PROVE Ahead
  OBVIOUS
<1>1. PICK t \in Timers : \A s \in Timers : at[s] = "current" <=> s = t
  BY DEF Init
<1>2. t \in Scanners /\ at[t] = "current"
  BY <1>1 DEF Scanners
<1>3. at \in [Scanners -> {"idle"} \cup Scanning \cup Set]
  BY DEF Init, Set
<1> QED
  BY <1>2, <1>3 DEF Init, Ahead, Set

LEMMA NextAhead == Ahead /\ [Next]_vars => Ahead'
<1> SUFFICES ASSUME Ahead, [Next]_vars PROVE Ahead'
  OBVIOUS
<1> USE DEF Scanning, Set, Working, failureVars
<1>1. ASSUME NEW f \in Files, Write(f) PROVE Ahead'
  BY <1>1 DEF Ahead, Write
<1>2. ASSUME NEW t \in Timers, TimerFires(t) PROVE Ahead'
  <2>1. t \in Scanners
    BY DEF Scanners
  <2>2. at' \in [Scanners -> {"idle"} \cup Scanning \cup Set]
    BY <1>2 DEF Ahead, TimerFires
  <2>3. at'[t] = "begin"
    BY <1>2, <2>1 DEF Ahead, TimerFires
  <2>4. ASSUME NEW s \in Scanners, at[s] \in Working PROVE at'[s] \in Working
    BY <1>2, <2>4 DEF Ahead, TimerFires
  <2> QED
    BY <1>2, <2>1, <2>2, <2>3, <2>4 DEF Ahead, TimerFires
<1>3. ASSUME EventFires PROVE Ahead'
  <2>1. Event \in Scanners
    BY DEF Scanners
  <2>2. at' \in [Scanners -> {"idle"} \cup Scanning \cup Set]
    BY <1>3 DEF Ahead, EventFires
  <2>3. at'[Event] = "begin"
    BY <1>3, <2>1 DEF Ahead, EventFires
  <2>4. ASSUME NEW s \in Scanners, at[s] \in Working PROVE at'[s] \in Working
    BY <1>3, <2>4 DEF Ahead, EventFires
  <2> QED
    BY <1>3, <2>1, <2>2, <2>3, <2>4 DEF Ahead, EventFires
<1>4. ASSUME NEW s \in Scanners, Scan(s) PROVE Ahead'
  <2>1. CASE Begin(s)
    <3>1. at' \in [Scanners -> {"idle"} \cup Scanning \cup Set]
      BY <2>1 DEF Ahead, Begin, Cancelled
    <3>2. at'[s] = "look"
      BY <2>1 DEF Ahead, Begin, Cancelled
    <3> QED
      BY <2>1, <3>1, <3>2 DEF Ahead, Begin
  <2>2. CASE \E f \in Files : Look(s, f)
    BY <2>2 DEF Ahead, Look
  <2>3. CASE Compare(s)
    BY <2>3 DEF Ahead, Compare
  <2>4. CASE Store(s)
    BY <2>4 DEF Ahead, Store
  <2>5. CASE Report(s)
    BY <2>5 DEF Ahead, Report
  <2>6. CASE CheckDisposed(s)
    BY <2>6 DEF Ahead, CheckDisposed
  <2>7. CASE Renew(s)
    <3>1. at' \in [Scanners -> {"idle"} \cup Scanning \cup Set]
      BY <2>7 DEF Ahead, Renew, Orphaned
    <3>2. at'[s] = "set"
      BY <2>7 DEF Ahead, Renew, Orphaned
    <3> QED
      BY <2>7, <3>1, <3>2 DEF Ahead, Renew
  <2>8. CASE SetTimer(s) /\ cancelled
    <3>1. at[s] = "set" /\ at' = [at EXCEPT ![s] = "idle"]
      BY <2>8 DEF SetTimer
    <3>2. ASSUME NEW r \in Scanners, at[r] \in Working PROVE at'[r] \in Working
      BY <3>1, <3>2 DEF Ahead
    <3>3. at' \in [Scanners -> {"idle"} \cup Scanning \cup Set]
      BY <3>1 DEF Ahead
    <3> QED
      BY <2>8, <3>2, <3>3 DEF Ahead, SetTimer
  <2>9. CASE SetTimer(s) /\ ~cancelled
    <3>1. PICK t \in Timers : at' = [[at EXCEPT ![s] = "idle"] EXCEPT ![t] = "current"]
      BY <2>9 DEF SetTimer
    <3>2. t \in Scanners
      BY DEF Scanners
    <3>3. at' \in [Scanners -> {"idle"} \cup Scanning \cup Set] /\ at'[t] = "current"
      BY <3>1, <3>2 DEF Ahead
    <3> QED
      BY <2>9, <3>2, <3>3 DEF Ahead, SetTimer
  <2> QED
    BY <1>4, <2>1, <2>2, <2>3, <2>4, <2>5, <2>6, <2>7, <2>8, <2>9 DEF Scan
<1>8. ASSUME NEW s \in Scanners, ScanFails(s) PROVE Ahead'
  <2>1. at' \in [Scanners -> {"idle"} \cup Scanning \cup Set]
    BY <1>8 DEF Ahead, ScanFails
  <2> QED
    BY <1>8, <2>1 DEF Ahead, ScanFails
<1>5. ASSUME Dispose PROVE Ahead'
  BY <1>5 DEF Ahead, Dispose
<1>6. ASSUME DisposeCancels PROVE Ahead'
  <2>1. at' \in [Scanners -> {"idle"} \cup Scanning \cup Set]
    BY <1>6 DEF Ahead, DisposeCancels, Cancelled
  <2> QED
    BY <1>6, <2>1 DEF Ahead, DisposeCancels
<1>7. CASE UNCHANGED vars
  BY <1>7 DEF Ahead, vars
<1> QED
  BY <1>1, <1>2, <1>3, <1>4, <1>5, <1>6, <1>7, <1>8 DEF Next

(* The watcher never stops watching before it is disposed, however many    *)
(* scans overlap and in whatever order they replace the shared source of   *)
(* cancellation: LiveSharpFileWatcher.ScanDocuments and QueueScan.         *)
THEOREM WatcherNeverBlind == Spec => []NeverBlind
<1>1. Ahead => NeverBlind
  BY DEF Ahead, NeverBlind
<1> QED
  BY InitAhead, NextAhead, <1>1, PTL DEF Spec

-----------------------------------------------------------------------------
(* Types.  A scan has looked at a file only while it compares and notes its *)
(* time, and has modified files only while it goes over them.               *)
Looks == {NoFile} \cup [file : Files, time : 0..MaxWrites]

Typed ==
  /\ TypeOK
  /\ looked \in [Scanners -> Looks]
  /\ \A s \in Scanners : modified[s] # {} => at[s] \in {"look", "compare", "store"}

LEMMA InitTyped == Init => Typed
<1> SUFFICES ASSUME Init PROVE Typed
  OBVIOUS
<1>1. /\ at \in [Scanners -> {"idle", "current"}] /\ at[Event] = "idle"
      /\ todo = [s \in Scanners |-> {}] /\ modified = [s \in Scanners |-> {}]
      /\ looked = [s \in Scanners |-> NoFile]
  BY DEF Init
<1>2. writeTime \in [Files -> 0..MaxWrites] /\ writeTimes = writeTime /\ reported = writeTime
  BY FileWatcherAssumption DEF Init
<1>3. {cancelled, isDisposed, closing} \subseteq BOOLEAN /\ failed = "no" /\ unreported = {}
  BY DEF Init
<1> QED BY <1>1, <1>2, <1>3 DEF Typed, TypeOK, Looks, Set

\* A step that moves scanners, and changes nothing that is theirs.
LEMMA Moved ==
  ASSUME Typed, UNCHANGED <<writeTimes, scanVars>>, at' \in [Scanners -> {"idle"} \cup Scanning \cup Set],
         writeTime' \in [Files -> 0..MaxWrites], reported' = reported,
         cancelled' \in BOOLEAN, isDisposed' \in BOOLEAN, closing' \in BOOLEAN,
         failed' \in {"no", "scan", "process"}, unreported' \subseteq Files,
         at'[Event] \notin Set,
         \A s \in Scanners : at'[s] = at[s] \/ {at[s], at'[s]} \cap {"look", "compare", "store"} = {}
  PROVE  Typed'
<1>1. UNCHANGED <<todo, looked, modified, writeTimes, reported>>
  BY DEF scanVars
<1>2. \A s \in Scanners : looked'[s] = NoFile <=> at'[s] \notin {"compare", "store"}
  BY <1>1 DEF Typed, TypeOK
<1> QED BY <1>1, <1>2 DEF Typed, TypeOK

LEMMA NextTyped == Typed /\ [Next]_vars => Typed'
<1> SUFFICES ASSUME Typed, [Next]_vars PROVE Typed'
  OBVIOUS
<1>0. /\ at \in [Scanners -> {"idle"} \cup Scanning \cup Set] /\ at[Event] \notin Set
      /\ todo \in [Scanners -> SUBSET Files] /\ modified \in [Scanners -> SUBSET Files]
      /\ looked \in [Scanners -> Looks]
      /\ writeTime \in [Files -> 0..MaxWrites] /\ writeTimes \in [Files -> 0..MaxWrites]
      /\ reported \in [Files -> 0..MaxWrites]
      /\ cancelled \in BOOLEAN /\ isDisposed \in BOOLEAN /\ closing \in BOOLEAN
      /\ failed \in {"no", "scan", "process"} /\ unreported \subseteq Files
  BY DEF Typed, TypeOK
<1> USE DEF failureVars
<1>a. Event \in Scanners /\ Event \notin Timers /\ Timers \subseteq Scanners
  BY FileWatcherAssumption DEF Scanners
<1>1. ASSUME NEW f \in Files, Write(f) PROVE Typed'
  <2>1. writeTime' \in [Files -> 0..MaxWrites]
    BY <1>0, <1>1, FileWatcherAssumption DEF Write
  <2> QED BY <1>0, <1>1, <2>1, Moved DEF Write
<1>2. ASSUME NEW t \in Timers, TimerFires(t) PROVE Typed'
  <2>1. at[t] \in Set /\ at' = [at EXCEPT ![t] = "begin"]
    BY <1>2 DEF TimerFires
  <2>2. at' \in [Scanners -> {"idle"} \cup Scanning \cup Set] /\ at'[Event] \notin Set
    BY <1>0, <1>a, <2>1 DEF Scanning
  <2>3. \A s \in Scanners : at'[s] = at[s] \/ {at[s], at'[s]} \cap {"look", "compare", "store"} = {}
    BY <1>0, <1>a, <2>1 DEF Set
  <2> QED BY <1>0, <1>2, <2>2, <2>3, Moved DEF TimerFires
<1>3. ASSUME EventFires PROVE Typed'
  <2>1. at[Event] = "idle" /\ at' = [at EXCEPT ![Event] = "begin"]
    BY <1>3 DEF EventFires
  <2>2. at' \in [Scanners -> {"idle"} \cup Scanning \cup Set] /\ at'[Event] \notin Set
    BY <1>0, <1>a, <2>1 DEF Scanning, Set
  <2>3. \A s \in Scanners : at'[s] = at[s] \/ {at[s], at'[s]} \cap {"look", "compare", "store"} = {}
    BY <1>0, <1>a, <2>1
  <2> QED BY <1>0, <1>3, <2>2, <2>3, Moved DEF EventFires
<1>4. ASSUME NEW s \in Scanners, Scan(s) PROVE Typed'
  <2>1. CASE Begin(s)
    <3>1. at[s] = "begin" /\ at' = Cancelled([at EXCEPT ![s] = "look"]) /\ todo' = [todo EXCEPT ![s] = Files]
      BY <2>1 DEF Begin
    <3>2. \A r \in Scanners : at'[r] = IF r = s THEN "look" ELSE IF at[r] = "current" THEN "idle" ELSE at[r]
      BY <1>0, <3>1 DEF Cancelled
    <3>3. at' \in [Scanners -> {"idle"} \cup Scanning \cup Set] /\ at'[Event] \notin Set
      BY <1>0, <1>a, <3>1, <3>2 DEF Cancelled, Scanning, Set
    <3>4. modified[s] = {} /\ looked[s] = NoFile
      BY <3>1 DEF Typed, TypeOK
    <3>5. /\ UNCHANGED <<writeTime, writeTimes, reported, looked, modified, isDisposed, closing, unreported>>
          /\ cancelled' \in BOOLEAN /\ failed' = "no"
      BY <2>1 DEF Begin
    <3>6. todo' \in [Scanners -> SUBSET Files] /\ \A r \in Scanners : todo'[r] \cap modified'[r] = {}
      BY <1>0, <3>1, <3>4, <3>5 DEF Typed, TypeOK
    <3>7. \A r \in Scanners : looked'[r] = NoFile <=> at'[r] \notin {"compare", "store"}
      BY <3>2, <3>4, <3>5 DEF Typed, TypeOK
    <3>8. \A r \in Scanners : modified'[r] # {} => at'[r] \in {"look", "compare", "store"}
      BY <3>2, <3>4, <3>5 DEF Typed
    <3> QED BY <1>0, <3>3, <3>5, <3>6, <3>7, <3>8 DEF Typed, TypeOK
  <2>2. ASSUME NEW f \in Files, Look(s, f) PROVE Typed'
    <3>1. /\ at[s] = "look" /\ at' = [at EXCEPT ![s] = "compare"]
          /\ looked' = [looked EXCEPT ![s] = [file |-> f, time |-> writeTime[f]]]
          /\ UNCHANGED <<writeTime, writeTimes, reported, todo, modified, cancelled, isDisposed, closing, failureVars>>
      BY <2>2 DEF Look
    <3>2. [file |-> f, time |-> writeTime[f]] \in Looks /\ [file |-> f, time |-> writeTime[f]] # NoFile
      BY <1>0, FileWatcherAssumption DEF Looks, NoFile
    <3>3. looked' \in [Scanners -> Looks]
      BY <1>0, <3>1, <3>2
    <3>4. at' \in [Scanners -> {"idle"} \cup Scanning \cup Set] /\ at'[Event] \notin Set
      BY <1>0, <1>a, <3>1 DEF Scanning, Set
    <3>5. \A r \in Scanners : looked'[r] = NoFile <=> at'[r] \notin {"compare", "store"}
      BY <1>0, <3>1, <3>2 DEF Typed, TypeOK
    <3>6. \A r \in Scanners : modified'[r] # {} => at'[r] \in {"look", "compare", "store"}
      BY <1>0, <3>1 DEF Typed
    <3> QED BY <3>1, <3>3, <3>4, <3>5, <3>6 DEF Typed, TypeOK
  <2>3. CASE Compare(s)
    <3>1. /\ at[s] = "compare" /\ at' = [at EXCEPT ![s] = "store"]
          /\ todo' = [todo EXCEPT ![s] = todo[s] \ {looked[s].file}]
          /\ modified' = modified \/ modified' = [modified EXCEPT ![s] = modified[s] \cup {looked[s].file}]
          /\ UNCHANGED <<writeTime, writeTimes, reported, looked, cancelled, isDisposed, closing, failureVars>>
      BY <2>3 DEF Compare
    <3>2. looked[s].file \in Files
      BY <1>0, <3>1 DEF Typed, TypeOK, Looks
    <3>3. todo' \in [Scanners -> SUBSET Files] /\ modified' \in [Scanners -> SUBSET Files]
      BY <1>0, <3>1, <3>2
    <3>4. \A r \in Scanners : todo'[r] \cap modified'[r] = {}
      BY <1>0, <3>1 DEF Typed, TypeOK
    <3>5. at' \in [Scanners -> {"idle"} \cup Scanning \cup Set] /\ at'[Event] \notin Set
      BY <1>0, <1>a, <3>1 DEF Scanning, Set
    <3>6. \A r \in Scanners : looked'[r] = NoFile <=> at'[r] \notin {"compare", "store"}
      BY <1>0, <3>1 DEF Typed, TypeOK
    <3>7. \A r \in Scanners : modified'[r] # {} => at'[r] \in {"look", "compare", "store"}
      BY <1>0, <3>1 DEF Typed
    <3> QED BY <3>1, <3>3, <3>4, <3>5, <3>6, <3>7 DEF Typed, TypeOK
  <2>4. CASE Store(s)
    <3>1. /\ at[s] = "store" /\ at' = [at EXCEPT ![s] = "look"]
          /\ writeTimes' = [writeTimes EXCEPT ![looked[s].file] = looked[s].time]
          /\ looked' = [looked EXCEPT ![s] = NoFile]
          /\ UNCHANGED <<writeTime, reported, todo, modified, cancelled, isDisposed, closing, failureVars>>
      BY <2>4 DEF Store
    <3>2. looked[s] \in [file : Files, time : 0..MaxWrites]
      BY <1>0, <3>1 DEF Typed, TypeOK, Looks
    <3>3. writeTimes' \in [Files -> 0..MaxWrites] /\ looked' \in [Scanners -> Looks]
      BY <1>0, <3>1, <3>2 DEF Looks
    <3>4. at' \in [Scanners -> {"idle"} \cup Scanning \cup Set] /\ at'[Event] \notin Set
      BY <1>0, <1>a, <3>1 DEF Scanning, Set
    <3>5. \A r \in Scanners : looked'[r] = NoFile <=> at'[r] \notin {"compare", "store"}
      BY <1>0, <3>1 DEF Typed, TypeOK
    <3>6. \A r \in Scanners : modified'[r] # {} => at'[r] \in {"look", "compare", "store"}
      BY <1>0, <3>1 DEF Typed
    <3> QED BY <3>1, <3>3, <3>4, <3>5, <3>6 DEF Typed, TypeOK
  <2>5. CASE Report(s)
    <3>1. /\ at[s] = "look" /\ at' = [at EXCEPT ![s] = "check"]
          /\ reported' = [f \in Files |-> IF f \in modified[s] THEN writeTime[f] ELSE reported[f]]
          /\ modified' = [modified EXCEPT ![s] = {}]
          /\ unreported' = unreported \ modified[s]
          /\ UNCHANGED <<writeTime, writeTimes, todo, looked, cancelled, isDisposed, closing, failed>>
      BY <2>5 DEF Report
    <3>2. reported' \in [Files -> 0..MaxWrites] /\ modified' \in [Scanners -> SUBSET Files]
      BY <1>0, <3>1
    <3>3. \A r \in Scanners : todo'[r] \cap modified'[r] = {}
      BY <1>0, <3>1 DEF Typed, TypeOK
    <3>4. at' \in [Scanners -> {"idle"} \cup Scanning \cup Set] /\ at'[Event] \notin Set
      BY <1>0, <1>a, <3>1 DEF Scanning, Set
    <3>5. \A r \in Scanners : looked'[r] = NoFile <=> at'[r] \notin {"compare", "store"}
      BY <1>0, <3>1 DEF Typed, TypeOK
    <3>6. \A r \in Scanners : modified'[r] # {} => at'[r] \in {"look", "compare", "store"}
      BY <1>0, <3>1 DEF Typed
    <3> QED BY <3>1, <3>2, <3>3, <3>4, <3>5, <3>6 DEF Typed, TypeOK
  <2>6. CASE CheckDisposed(s) \/ Renew(s) \/ SetTimer(s)
    <3>1. at' \in [Scanners -> {"idle"} \cup Scanning \cup Set] /\ at'[Event] \notin Set
      <4>1. CASE CheckDisposed(s)
        BY <1>0, <1>a, <4>1 DEF CheckDisposed, Scanning, Set
      <4>2. CASE Renew(s)
        BY <1>0, <1>a, <4>2 DEF Renew, Orphaned, Scanning, Set
      <4>3. CASE SetTimer(s)
        BY <1>0, <1>a, <4>3 DEF SetTimer, Scanning, Set
      <4> QED BY <2>6, <4>1, <4>2, <4>3
    <3>2. \A r \in Scanners : at'[r] = at[r] \/ {at[r], at'[r]} \cap {"look", "compare", "store"} = {}
      <4>1. CASE CheckDisposed(s)
        BY <1>0, <4>1 DEF CheckDisposed
      <4>2. CASE Renew(s)
        BY <1>0, <4>2 DEF Renew, Orphaned
      <4>3. CASE SetTimer(s)
        BY <1>0, <1>a, <4>3 DEF SetTimer
      <4> QED BY <2>6, <4>1, <4>2, <4>3
    <3>3. /\ UNCHANGED <<writeTime, writeTimes, reported, scanVars, isDisposed, closing, failureVars>>
          /\ cancelled' \in BOOLEAN
      BY <1>0, <2>6 DEF CheckDisposed, Renew, SetTimer
    <3> QED BY <1>0, <3>1, <3>2, <3>3, Moved
  <2> QED BY <1>4, <2>1, <2>2, <2>3, <2>4, <2>5, <2>6 DEF Scan
<1>8. ASSUME NEW s \in Scanners, ScanFails(s) PROVE Typed'
  <2> DEFINE ending == IF s = Event THEN Scanners ELSE {s}
  <2>1. /\ at' = [r \in Scanners |-> IF r \in ending THEN "idle" ELSE at[r]]
        /\ todo' = [r \in Scanners |-> IF r \in ending THEN {} ELSE todo[r]]
        /\ looked' = [r \in Scanners |-> IF r \in ending THEN NoFile ELSE looked[r]]
        /\ modified' = [r \in Scanners |-> IF r \in ending THEN {} ELSE modified[r]]
        /\ UNCHANGED <<writeTime, writeTimes, cancelled, isDisposed>>
    BY <1>8 DEF ScanFails
  <2>2. PICK told \in SUBSET modified[s] :
          /\ reported' = [f \in Files |-> IF f \in told THEN writeTime[f] ELSE reported[f]]
          /\ unreported' = (unreported \cup UNION {modified[r] : r \in ending}) \ told
    BY <1>8 DEF ScanFails
  <2>3. failed' \in {"no", "scan", "process"} /\ closing' \in BOOLEAN
    BY <1>0, <1>8 DEF ScanFails
  <2>4. ending \subseteq Scanners
    OBVIOUS
  <2> HIDE DEF ending
  <2>5. reported' \in [Files -> 0..MaxWrites]
    BY <1>0, <2>2
  <2>6. unreported' \subseteq Files
    BY <1>0, <2>2, <2>4
  <2>7. /\ at' \in [Scanners -> {"idle"} \cup Scanning \cup Set] /\ at'[Event] \notin Set
        /\ todo' \in [Scanners -> SUBSET Files] /\ modified' \in [Scanners -> SUBSET Files]
    BY <1>0, <1>a, <2>1 DEF Set
  <2>8. looked' \in [Scanners -> Looks]
    BY <1>0, <2>1 DEF Looks
  <2>9. \A r \in Scanners : /\ looked'[r] = NoFile <=> at'[r] \notin {"compare", "store"}
                            /\ todo'[r] \cap modified'[r] = {}
                            /\ modified'[r] # {} => at'[r] \in {"look", "compare", "store"}
    BY <2>1 DEF Typed, TypeOK
  <2> QED BY <1>0, <2>1, <2>3, <2>5, <2>6, <2>7, <2>8, <2>9 DEF Typed, TypeOK
<1>5. ASSUME Dispose PROVE Typed'
  BY <1>0, <1>5, Moved DEF Dispose
<1>6. ASSUME DisposeCancels PROVE Typed'
  <2>1. at' = Cancelled(at) /\ UNCHANGED <<writeTime, writeTimes, reported, scanVars, isDisposed, failureVars>>
        /\ cancelled' \in BOOLEAN /\ closing' \in BOOLEAN
    BY <1>6 DEF DisposeCancels
  <2>2. at' \in [Scanners -> {"idle"} \cup Scanning \cup Set] /\ at'[Event] \notin Set
    BY <1>0, <1>a, <2>1 DEF Cancelled, Set
  <2>3. \A s \in Scanners : at'[s] = at[s] \/ {at[s], at'[s]} \cap {"look", "compare", "store"} = {}
    BY <1>0, <2>1 DEF Cancelled
  <2> QED BY <1>0, <2>1, <2>2, <2>3, Moved
<1>7. CASE UNCHANGED vars
  <2>1. UNCHANGED <<at, writeTime, writeTimes, reported, scanVars, cancelled, isDisposed, closing, failureVars>>
    BY <1>7 DEF vars
  <2> QED BY <1>0, <2>1, Moved
<1> QED
  BY <1>1, <1>2, <1>3, <1>4, <1>5, <1>6, <1>7, <1>8 DEF Next

(* The variables keep their types, and no scan comes back to a file it has  *)
(* found modified: ScanDocuments looks at each file once.                   *)
THEOREM WatcherTypes == Spec => []TypeOK
<1>1. Typed => TypeOK
  BY DEF Typed
<1> QED
  BY InitTyped, NextTyped, <1>1, PTL DEF Spec

-----------------------------------------------------------------------------
(* What is noted.  A time is taken care of if it has been reported or a scan *)
(* has the file among those it will report, or had and has thrown.  That    *)
(* holds of the times in the table because it holds of those that are about *)
(* to be noted: a scan that found its time no later than the table's relies *)
(* on whoever noted that.                                                   *)
Owed(f, v) ==
  v <= reported[f] \/ f \in unreported \/ \E s \in Scanners : f \in modified[s]

Seen ==
  /\ \A f \in Files : writeTimes[f] <= writeTime[f] /\ reported[f] <= writeTime[f]
  /\ \A s \in Scanners : looked[s] # NoFile => looked[s].time <= writeTime[looked[s].file]

Noted ==
  /\ Seen
  /\ \A f \in Files : Owed(f, writeTimes[f])
  /\ \A s \in Scanners : at[s] = "store" => Owed(looked[s].file, looked[s].time)

LEMMA WriteTimeTypes ==
  ASSUME Typed
  PROVE  /\ \A f \in Files : writeTime[f] \in Nat /\ writeTimes[f] \in Nat /\ reported[f] \in Nat
         /\ \A s \in Scanners : at[s] \in {"compare", "store"} =>
              looked[s] # NoFile /\ looked[s].file \in Files /\ looked[s].time \in Nat
<1>1. 0..MaxWrites \subseteq Nat
  BY FileWatcherAssumption
<1>2. \A f \in Files : writeTime[f] \in Nat /\ writeTimes[f] \in Nat /\ reported[f] \in Nat
  BY <1>1 DEF Typed, TypeOK
<1>3. ASSUME NEW s \in Scanners, at[s] \in {"compare", "store"}
      PROVE  looked[s] # NoFile /\ looked[s].file \in Files /\ looked[s].time \in Nat
  <2>1. looked[s] # NoFile /\ looked[s] \in Looks
    BY <1>3 DEF Typed, TypeOK
  <2> QED BY <1>1, <2>1 DEF Looks
<1> QED BY <1>2, <1>3

LEMMA InitNoted == Init => Noted
<1> SUFFICES ASSUME Init PROVE Noted
  OBVIOUS
<1>0. writeTime = [f \in Files |-> 0] /\ writeTimes = writeTime /\ reported = writeTime
  BY DEF Init
<1>1. \A f \in Files : writeTime[f] = 0 /\ writeTimes[f] = 0 /\ reported[f] = 0
  BY <1>0
<1>2. \A s \in Scanners : looked[s] = NoFile /\ at[s] # "store"
  BY DEF Init
<1> QED BY <1>1, <1>2 DEF Noted, Seen, Owed

\* A step that reports nothing, notes nothing and compares nothing.
LEMMA NotedKept ==
  ASSUME Typed, Noted, UNCHANGED <<writeTimes, reported, modified, unreported>>,
         \A f \in Files : writeTime'[f] \in Nat /\ writeTime[f] <= writeTime'[f],
         \A s \in Scanners : \/ looked'[s] = looked[s]
                             \/ looked'[s] = NoFile
                             \/ /\ looked'[s].file \in Files
                                /\ looked'[s].time <= writeTime'[looked'[s].file],
         \A s \in Scanners : at'[s] = "store" => at[s] = "store" /\ looked'[s] = looked[s]
  PROVE  Noted'
<1>1. \A f \in Files : writeTimes'[f] <= writeTime'[f] /\ reported'[f] <= writeTime'[f]
  BY WriteTimeTypes DEF Noted, Seen
<1>2. ASSUME NEW s \in Scanners, looked'[s] # NoFile
      PROVE  looked'[s].time <= writeTime'[looked'[s].file]
  <2>1. CASE looked'[s] = looked[s]
    <3>1. at[s] \in {"compare", "store"}
      BY <1>2, <2>1 DEF Typed, TypeOK
    <3>2. /\ looked[s].file \in Files /\ looked[s].time \in Nat
          /\ looked[s].time <= writeTime[looked[s].file]
      BY <1>2, <2>1, <3>1, WriteTimeTypes DEF Noted, Seen
    <3> QED BY <2>1, <3>2, WriteTimeTypes
  <2> QED BY <1>2, <2>1
<1>3. \A f, v : Owed(f, v) => Owed(f, v)'
  BY DEF Owed
<1>4. \A f \in Files : Owed(f, writeTimes[f])'
  BY DEF Noted, Owed
<1>5. \A s \in Scanners : at'[s] = "store" => Owed(looked[s].file, looked[s].time)'
  BY DEF Noted, Owed
<1> QED BY <1>1, <1>2, <1>4, <1>5 DEF Noted, Seen

LEMMA NextNoted == Typed /\ Noted /\ [Next]_vars => Noted'
<1> SUFFICES ASSUME Typed, Noted, [Next]_vars PROVE Noted'
  OBVIOUS
<1> USE DEF failureVars
<1>0. /\ at \in [Scanners -> {"idle"} \cup Scanning \cup Set]
      /\ todo \in [Scanners -> SUBSET Files] /\ modified \in [Scanners -> SUBSET Files]
      /\ looked \in [Scanners -> Looks]
      /\ writeTime \in [Files -> 0..MaxWrites] /\ writeTimes \in [Files -> 0..MaxWrites]
      /\ reported \in [Files -> 0..MaxWrites]
  BY DEF Typed, TypeOK
<1>a. \A f \in Files : writeTime[f] \in Nat /\ writeTimes[f] \in Nat /\ reported[f] \in Nat
  BY WriteTimeTypes
<1>b. \A f \in Files : writeTimes[f] <= writeTime[f] /\ reported[f] <= writeTime[f]
  BY DEF Noted, Seen
<1>1. ASSUME NEW f \in Files, Write(f) PROVE Noted'
  <2>1. writeTime' = [writeTime EXCEPT ![f] = writeTime[f] + 1]
    BY <1>1 DEF Write
  <2>2. \A g \in Files : writeTime'[g] \in Nat /\ writeTime[g] <= writeTime'[g]
    BY <1>0, <1>a, <2>1
  <2> QED BY <1>1, <2>2, NotedKept DEF Write, scanVars
<1>2. ASSUME NEW t \in Timers, TimerFires(t) PROVE Noted'
  <2>1. \A s \in Scanners : at'[s] = "store" => at[s] = "store"
    BY <1>0, <1>2 DEF TimerFires
  <2> QED BY <1>a, <1>2, <2>1, NotedKept DEF TimerFires, scanVars
<1>3. ASSUME EventFires PROVE Noted'
  <2>1. \A s \in Scanners : at'[s] = "store" => at[s] = "store"
    BY <1>0, <1>3 DEF EventFires
  <2> QED BY <1>a, <1>3, <2>1, NotedKept DEF EventFires, scanVars
<1>4. ASSUME NEW s \in Scanners, Scan(s) PROVE Noted'
  <2>1. CASE Begin(s)
    <3>1. \A r \in Scanners : at'[r] = "store" => at[r] = "store"
      BY <1>0, <2>1 DEF Begin, Cancelled
    <3>2. UNCHANGED <<writeTime, writeTimes, reported, looked, modified, unreported>>
      BY <2>1 DEF Begin
    <3> QED BY <1>a, <3>1, <3>2, NotedKept
  <2>2. ASSUME NEW f \in Files, Look(s, f) PROVE Noted'
    <3>1. /\ at[s] = "look" /\ at' = [at EXCEPT ![s] = "compare"]
          /\ looked' = [looked EXCEPT ![s] = [file |-> f, time |-> writeTime[f]]]
          /\ UNCHANGED <<writeTime, writeTimes, reported, modified, unreported>>
      BY <2>2 DEF Look
    <3>2. \A r \in Scanners : at'[r] = "store" => at[r] = "store" /\ looked'[r] = looked[r]
      BY <1>0, <3>1
    <3>3. /\ looked'[s].file \in Files /\ looked'[s].time <= writeTime'[looked'[s].file]
          /\ \A r \in Scanners : r # s => looked'[r] = looked[r]
      BY <1>0, <1>a, <3>1
    <3> QED BY <1>a, <3>1, <3>2, <3>3, NotedKept
  <2>3. CASE Compare(s)
    <3> DEFINE f == looked[s].file
               v == looked[s].time
    <3>1. /\ at[s] = "compare" /\ at' = [at EXCEPT ![s] = "store"]
          /\ modified' = IF v > writeTimes[f]
                         THEN [modified EXCEPT ![s] = modified[s] \cup {f}] ELSE modified
          /\ UNCHANGED <<writeTime, writeTimes, reported, looked, unreported>>
      BY <2>3 DEF Compare
    <3>2. f \in Files /\ v \in Nat
      BY <3>1, WriteTimeTypes
    <3> HIDE DEF f, v
    <3>3. \A r \in Scanners : modified[r] \subseteq modified'[r]
      BY <1>0, <3>1
    <3>4. \A r \in Scanners : at'[r] = "store" => r = s \/ at[r] = "store"
      BY <1>0, <3>1
    <3>5. v <= reported[f] \/ f \in unreported \/ \E r \in Scanners : f \in modified'[r]
      <4>1. CASE v > writeTimes[f]
        BY <1>0, <3>1, <4>1
      <4>2. CASE v <= writeTimes[f]
        <5>1. writeTimes[f] <= reported[f] \/ f \in unreported \/ \E r \in Scanners : f \in modified[r]
          BY <3>2 DEF Noted, Owed
        <5> QED BY <1>a, <3>2, <3>3, <4>2, <5>1
      <4> QED BY <1>a, <3>2, <4>1, <4>2
    <3>6. Owed(looked[s].file, looked[s].time)'
      BY <3>1, <3>5 DEF Owed, f, v
    <3>7. \A g \in Files : Owed(g, writeTimes[g])'
      BY <3>1, <3>3 DEF Noted, Owed
    <3>8. \A r \in Scanners : at[r] = "store" => Owed(looked[r].file, looked[r].time)'
      BY <3>1, <3>3 DEF Noted, Owed
    <3>9. Seen'
      BY <3>1 DEF Noted, Seen
    <3> QED BY <3>4, <3>6, <3>7, <3>8, <3>9 DEF Noted
  <2>4. CASE Store(s)
    <3> DEFINE f == looked[s].file
               v == looked[s].time
    <3>1. /\ at[s] = "store" /\ at' = [at EXCEPT ![s] = "look"]
          /\ writeTimes' = [writeTimes EXCEPT ![f] = v]
          /\ looked' = [looked EXCEPT ![s] = NoFile]
          /\ UNCHANGED <<writeTime, reported, modified, unreported>>
      BY <2>4 DEF Store
    <3>2. f \in Files /\ v \in Nat /\ v <= writeTime[f] /\ Owed(f, v)
      BY <3>1, WriteTimeTypes DEF Noted, Seen
    <3> HIDE DEF f, v
    <3>3. \A g \in Files : writeTimes'[g] = IF g = f THEN v ELSE writeTimes[g]
      BY <1>0, <3>1
    <3>4. \A g \in Files : writeTimes'[g] <= writeTime'[g] /\ reported'[g] <= writeTime'[g]
      BY <1>b, <3>1, <3>2, <3>3
    <3>5. \A r \in Scanners : /\ looked'[r] # NoFile => looked'[r] = looked[r]
                              /\ at'[r] = "store" => at[r] = "store" /\ looked'[r] = looked[r]
      BY <1>0, <3>1
    <3>6. \A r \in Scanners : looked'[r] # NoFile => looked'[r].time <= writeTime'[looked'[r].file]
      BY <3>1, <3>5 DEF Noted, Seen
    <3>7. \A g \in Files : Owed(g, writeTimes[g])'
      BY <3>1, <3>2, <3>3 DEF Noted, Owed
    <3>8. \A r \in Scanners : at'[r] = "store" => Owed(looked[r].file, looked[r].time)'
      BY <3>1, <3>5 DEF Noted, Owed
    <3> QED BY <3>4, <3>6, <3>7, <3>8 DEF Noted, Seen
  <2>5. CASE Report(s)
    <3>1. /\ at[s] = "look" /\ at' = [at EXCEPT ![s] = "check"]
          /\ reported' = [f \in Files |-> IF f \in modified[s] THEN writeTime[f] ELSE reported[f]]
          /\ modified' = [modified EXCEPT ![s] = {}]
          /\ unreported' = unreported \ modified[s]
          /\ UNCHANGED <<writeTime, writeTimes, looked>>
      BY <2>5 DEF Report
    <3>2. \A f \in Files : reported'[f] <= writeTime[f] /\ reported[f] <= reported'[f] /\ reported'[f] \in Nat
      BY <1>a, <1>b, <3>1
    <3>3. ASSUME NEW f \in Files, NEW v \in Nat, v <= writeTime[f], Owed(f, v) PROVE Owed(f, v)'
      <4>1. CASE f \in modified[s]
        BY <3>1, <3>3, <4>1 DEF Owed
      <4>2. CASE v <= reported[f]
        <5>1. v <= reported'[f]
          BY <1>a, <3>2, <4>2
        <5> QED BY <5>1 DEF Owed
      <4>4. CASE f \in unreported \ modified[s]
        BY <3>1, <4>4 DEF Owed
      <4>3. CASE f \notin modified[s] \cup unreported /\ ~(v <= reported[f])
        <5>1. PICK r \in Scanners : f \in modified[r]
          BY <3>3, <4>3 DEF Owed
        <5>2. f \in modified'[r]
          BY <1>0, <3>1, <4>3, <5>1
        <5> QED BY <5>2 DEF Owed
      <4> QED BY <4>1, <4>2, <4>3, <4>4
    <3>4. \A f \in Files : Owed(f, writeTimes[f])'
      <4> SUFFICES ASSUME NEW f \in Files PROVE Owed(f, writeTimes[f])'
        OBVIOUS
      <4> DEFINE v == writeTimes[f]
      <4>1. v \in Nat /\ v <= writeTime[f] /\ Owed(f, v) /\ writeTimes'[f] = v
        BY <1>a, <1>b, <3>1 DEF Noted
      <4> QED BY <3>3, <4>1 DEF Owed
    <3>5. ASSUME NEW r \in Scanners, at'[r] = "store" PROVE Owed(looked[r].file, looked[r].time)'
      <4> DEFINE f == looked[r].file
                 v == looked[r].time
      <4>1. at[r] = "store" /\ looked'[r] = looked[r]
        BY <1>0, <3>1, <3>5
      <4>2. f \in Files /\ v \in Nat /\ v <= writeTime[f] /\ Owed(f, v)
        BY <4>1, WriteTimeTypes DEF Noted, Seen
      <4> QED BY <3>3, <4>1, <4>2 DEF Owed
    <3>6. Seen'
      BY <1>b, <3>1, <3>2 DEF Noted, Seen
    <3> QED BY <3>4, <3>5, <3>6 DEF Noted
  <2>6. CASE CheckDisposed(s)
    <3>1. \A r \in Scanners : at'[r] = "store" => at[r] = "store"
      BY <1>0, <2>6 DEF CheckDisposed
    <3> QED BY <1>a, <2>6, <3>1, NotedKept DEF CheckDisposed, scanVars
  <2>7. CASE Renew(s)
    <3>1. \A r \in Scanners : at'[r] = "store" => at[r] = "store"
      BY <1>0, <2>7 DEF Renew, Orphaned
    <3>2. UNCHANGED <<writeTime, writeTimes, reported, looked, modified, unreported>>
      BY <2>7 DEF Renew, scanVars
    <3> QED BY <1>a, <3>1, <3>2, NotedKept
  <2>8. CASE SetTimer(s)
    <3>1. \A r \in Scanners : at'[r] = "store" => at[r] = "store"
      BY <1>0, <2>8 DEF SetTimer
    <3> QED BY <1>a, <2>8, <3>1, NotedKept DEF SetTimer, scanVars
  <2> QED
    BY <1>4, <2>1, <2>2, <2>3, <2>4, <2>5, <2>6, <2>7, <2>8 DEF Scan
<1>8. ASSUME NEW s \in Scanners, ScanFails(s) PROVE Noted'
  <2> DEFINE ending == IF s = Event THEN Scanners ELSE {s}
  <2>1. /\ at' = [r \in Scanners |-> IF r \in ending THEN "idle" ELSE at[r]]
        /\ looked' = [r \in Scanners |-> IF r \in ending THEN NoFile ELSE looked[r]]
        /\ modified' = [r \in Scanners |-> IF r \in ending THEN {} ELSE modified[r]]
        /\ UNCHANGED <<writeTime, writeTimes>>
    BY <1>8 DEF ScanFails
  <2>2. PICK told \in SUBSET modified[s] :
          /\ reported' = [f \in Files |-> IF f \in told THEN writeTime[f] ELSE reported[f]]
          /\ unreported' = (unreported \cup UNION {modified[r] : r \in ending}) \ told
    BY <1>8 DEF ScanFails
  <2> HIDE DEF ending
  <2>3. \A f \in Files : reported'[f] <= writeTime[f] /\ reported[f] <= reported'[f] /\ reported'[f] \in Nat
    BY <1>a, <1>b, <2>2
  <2>4. ASSUME NEW f \in Files, NEW v \in Nat, v <= writeTime[f], Owed(f, v) PROVE Owed(f, v)'
    <3>1. CASE f \in told
      BY <2>2, <2>4, <3>1 DEF Owed
    <3>2. CASE v <= reported[f]
      <4>1. v <= reported'[f]
        BY <1>a, <2>3, <3>2
      <4> QED BY <4>1 DEF Owed
    <3>3. CASE f \in unreported \ told
      BY <2>2, <3>3 DEF Owed
    <3>4. CASE f \notin told /\ \E r \in Scanners : f \in modified[r]
      <4>1. PICK r \in Scanners : f \in modified[r]
        BY <3>4
      <4>2. f \in modified'[r] \/ f \in unreported'
        BY <2>1, <2>2, <3>4, <4>1
      <4> QED BY <4>2 DEF Owed
    <3> QED BY <2>4, <3>1, <3>2, <3>3, <3>4 DEF Owed
  <2>5. \A f \in Files : Owed(f, writeTimes[f])'
    <3> SUFFICES ASSUME NEW f \in Files PROVE Owed(f, writeTimes[f])'
      OBVIOUS
    <3> DEFINE v == writeTimes[f]
    <3>1. v \in Nat /\ v <= writeTime[f] /\ Owed(f, v) /\ writeTimes'[f] = v
      BY <1>a, <1>b, <2>1 DEF Noted
    <3> QED BY <2>4, <3>1 DEF Owed
  <2>6. ASSUME NEW r \in Scanners, at'[r] = "store" PROVE Owed(looked[r].file, looked[r].time)'
    <3> DEFINE f == looked[r].file
               v == looked[r].time
    <3>1. at[r] = "store" /\ looked'[r] = looked[r]
      BY <2>1, <2>6
    <3>2. f \in Files /\ v \in Nat /\ v <= writeTime[f] /\ Owed(f, v)
      BY <3>1, WriteTimeTypes DEF Noted, Seen
    <3> QED BY <2>4, <3>1, <3>2 DEF Owed
  <2>7. Seen'
    BY <1>b, <2>1, <2>3 DEF Noted, Seen
  <2> QED BY <2>5, <2>6, <2>7 DEF Noted
<1>5. ASSUME Dispose PROVE Noted'
  BY <1>a, <1>5, NotedKept DEF Dispose, scanVars
<1>6. ASSUME DisposeCancels PROVE Noted'
  <2>1. \A r \in Scanners : at'[r] = "store" => at[r] = "store"
    BY <1>0, <1>6 DEF DisposeCancels, Cancelled
  <2> QED BY <1>a, <1>6, <2>1, NotedKept DEF DisposeCancels, scanVars
<1>7. CASE UNCHANGED vars
  BY <1>a, <1>7, NotedKept DEF vars, scanVars
<1> QED
  BY <1>1, <1>2, <1>3, <1>4, <1>5, <1>6, <1>7, <1>8 DEF Next

(* No write is lost by being noted: ScanDocuments puts a time in the table  *)
(* only if the change is reported or going to be, by it or by another scan.  *)
THEOREM WatcherLosesNothing == Spec => []NotedIsReported
<1>1. Typed /\ Noted => NotedIsReported
  <2> SUFFICES ASSUME Typed, Noted, NEW f \in Files, writeTimes[f] > reported[f]
               PROVE  f \in unreported \/ \E s \in Scanners : f \in modified[s]
    BY DEF NotedIsReported
  <2>1. writeTimes[f] \in Nat /\ reported[f] \in Nat /\ Owed(f, writeTimes[f])
    BY WriteTimeTypes DEF Noted
  <2> QED BY <2>1 DEF Owed
<1> QED
  BY InitTyped, NextTyped, InitNoted, NextNoted, <1>1, PTL DEF Spec
=============================================================================
