---------------------------- MODULE FileWatcher ----------------------------
(***************************************************************************)
(* LiveSharpFileWatcher: finds the files that have changed by comparing    *)
(* write times.  A scan is started by an event of the file system or by    *)
(* the timer that the end of every scan sets; it cancels the timer that is *)
(* set.  Scans run on several threads and share _writeTimes and _cts.      *)
(*                                                                         *)
(* A timer is a Task.Delay and a continuation with a cancellation token.   *)
(* It runs on a thread of its own, which has the timer's name.  The tokens *)
(* of _cts need no names: a timer holds the one that _cts has now or an    *)
(* older one, which nobody can cancel any more.                            *)
(***************************************************************************)
EXTENDS Naturals

CONSTANTS
  Files,
  Timers,    \* bound: how many timers and scans started by timers there are at once
  None,
  Event,     \* the thread of the file system events; Rx gives it one at a time
  MaxWrites  \* bound: how often a file is written

ASSUME FileWatcherAssumption ==
  /\ Event \notin Timers
  /\ None \notin Files
  /\ Timers # {}
  /\ MaxWrites \in Nat

Scanners == Timers \cup {Event}

VARIABLES
  writeTime,   \* of each file on the disk: the number of its writes
  writeTimes,  \* _writeTimes
  reported,    \* the write time of each file when a change of it was last reported
  at,          \* where each scanner is
  todo,        \* the files a scan has yet to look at
  looked,      \* the file a scan has looked at, with the write time it has seen
  modified,    \* modifiedDocuments
  cancelled,   \* _cts has been cancelled
  isDisposed,  \* _isDisposed
  closing,     \* Dispose has set the flag and not yet cancelled
  failed,      \* history: a scan has thrown and none has begun since, or the
               \* process has ended with it
  unreported   \* history: files that a scan that threw has noted and not reported

scanVars == <<todo, looked, modified>>
failureVars == <<failed, unreported>>
vars == <<writeTime, writeTimes, reported, at, scanVars, cancelled, isDisposed, closing,
          failureVars>>

Scanning == {"begin", "look", "compare", "store", "check", "renew", "set"}

\* "current": the token is that of _cts; "orphan": it is an older one.
Set == {"current", "orphan"}

NoFile == [file |-> None, time |-> 0]  \* what is looked at between two files

(* The values the variables take; a scan never has a modified file that it  *)
(* still has to look at.                                                    *)
TypeOK ==
  /\ writeTime \in [Files -> 0..MaxWrites]
  /\ writeTimes \in [Files -> 0..MaxWrites]
  /\ reported \in [Files -> 0..MaxWrites]
  /\ at \in [Scanners -> {"idle"} \cup Scanning \cup Set]
  /\ at[Event] \notin Set
  /\ todo \in [Scanners -> SUBSET Files]
  /\ modified \in [Scanners -> SUBSET Files]
  /\ \A s \in Scanners :
       /\ looked[s] = NoFile <=> at[s] \notin {"compare", "store"}
       /\ todo[s] \cap modified[s] = {}
  /\ {cancelled, isDisposed, closing} \subseteq BOOLEAN
  /\ failed \in {"no", "scan", "process"}
  /\ unreported \subseteq Files

\* Subscribe has made the first scan, which notes the times and reports nothing.
Init ==
  /\ writeTime = [f \in Files |-> 0]
  /\ writeTimes = writeTime
  /\ reported = writeTime
  /\ at \in [Scanners -> {"idle", "current"}]
  /\ at[Event] = "idle"
  /\ \E t \in Timers : \A s \in Timers : at[s] = "current" <=> s = t
  /\ todo = [s \in Scanners |-> {}]
  /\ looked = [s \in Scanners |-> NoFile]
  /\ modified = [s \in Scanners |-> {}]
  /\ cancelled = FALSE
  /\ isDisposed = FALSE
  /\ closing = FALSE
  /\ failed = "no"
  /\ unreported = {}

\* What becomes of the timers when the source that _cts holds is cancelled, and
\* when _cts is given another.
Cancelled(f) == [s \in Scanners |-> IF f[s] = "current" THEN "idle" ELSE f[s]]
Orphaned(f)  == [s \in Scanners |-> IF f[s] = "current" THEN "orphan" ELSE f[s]]

-----------------------------------------------------------------------------
Write(f) ==
  /\ writeTime[f] < MaxWrites
  /\ writeTime' = [writeTime EXCEPT ![f] = @ + 1]
  /\ UNCHANGED <<writeTimes, reported, at, scanVars, cancelled, isDisposed, closing,
                 failureVars>>

\* Half a second has passed, or 50 ms since the last event.
TimerFires(t) ==
  /\ at[t] \in Set
  /\ at' = [at EXCEPT ![t] = "begin"]
  /\ UNCHANGED <<writeTime, writeTimes, reported, scanVars, cancelled, isDisposed, closing,
                 failureVars>>

EventFires ==
  /\ at[Event] = "idle"
  /\ failed # "process"
  /\ ~isDisposed \/ closing
  /\ at' = [at EXCEPT ![Event] = "begin"]
  /\ UNCHANGED <<writeTime, writeTimes, reported, scanVars, cancelled, isDisposed, closing,
                 failureVars>>

-----------------------------------------------------------------------------
\* ScanDocuments.

\* _cts?.Cancel().
Begin(s) ==
  /\ at[s] = "begin"
  /\ at' = Cancelled([at EXCEPT ![s] = "look"])
  /\ cancelled' = TRUE
  /\ todo' = [todo EXCEPT ![s] = Files]
  /\ failed' = "no"
  /\ UNCHANGED <<writeTime, writeTimes, reported, looked, modified, isDisposed, closing,
                 unreported>>

\* GetLastWriteTime.
Look(s, f) ==
  /\ at[s] = "look"
  /\ f \in todo[s]
  /\ at' = [at EXCEPT ![s] = "compare"]
  /\ looked' = [looked EXCEPT ![s] = [file |-> f, time |-> writeTime[f]]]
  /\ UNCHANGED <<writeTime, writeTimes, reported, todo, modified, cancelled,
                 isDisposed, closing, failureVars>>

\* TryGetValue: only a later time than the one noted is a modification ...
Compare(s) ==
  LET f == looked[s].file IN
  /\ at[s] = "compare"
  /\ at' = [at EXCEPT ![s] = "store"]
  /\ todo' = [todo EXCEPT ![s] = @ \ {f}]
  /\ modified' = IF looked[s].time > writeTimes[f]
                 THEN [modified EXCEPT ![s] = @ \cup {f}] ELSE modified
  /\ UNCHANGED <<writeTime, writeTimes, reported, looked, cancelled, isDisposed, closing,
                 failureVars>>

\* Mutant: the time that is noted is that of the store.
StoreLate(s) ==
  /\ at[s] = "store"
  /\ at' = [at EXCEPT ![s] = "look"]
  /\ writeTimes' = [writeTimes EXCEPT ![looked[s].file] = writeTime[looked[s].file]]
  /\ looked' = [looked EXCEPT ![s] = NoFile]
  /\ UNCHANGED <<writeTime, reported, todo, modified, cancelled, isDisposed, closing,
                 failureVars>>

\* ... and the time is noted, even if another scan has noted a later one.
Store(s) ==
  /\ at[s] = "store"
  /\ at' = [at EXCEPT ![s] = "look"]
  /\ writeTimes' = [writeTimes EXCEPT ![looked[s].file] = looked[s].time]
  /\ looked' = [looked EXCEPT ![s] = NoFile]
  /\ UNCHANGED <<writeTime, reported, todo, modified, cancelled, isDisposed, closing,
                 failureVars>>

\* CsFileChanged and its like put a job on the queue, which will read the file.
Report(s) ==
  /\ at[s] = "look"
  /\ todo[s] = {}
  /\ at' = [at EXCEPT ![s] = "check"]
  /\ reported' = [f \in Files |-> IF f \in modified[s] THEN writeTime[f] ELSE reported[f]]
  /\ modified' = [modified EXCEPT ![s] = {}]
  /\ unreported' = unreported \ modified[s]
  /\ UNCHANGED <<writeTime, writeTimes, todo, looked, cancelled, isDisposed, closing,
                 failed>>

\* GetLastWriteTime throws, or what is called for a modified file does: FileChanged
\* may find no directory, or a custom handler that cannot be started.  The files
\* before it have been reported.  A timer's thread just ends, and has set no timer;
\* on the thread of an event nobody catches it, and the process ends.
ScanFails(s) ==
  LET ending == IF s = Event THEN Scanners ELSE {s} IN
  /\ at[s] = "look"
  /\ todo[s] # {} \/ modified[s] # {}
  /\ \E told \in SUBSET modified[s] :
       /\ todo[s] # {} => told = {}
       /\ reported' = [f \in Files |-> IF f \in told THEN writeTime[f] ELSE reported[f]]
       /\ unreported' = (unreported \cup UNION {modified[r] : r \in ending}) \ told
  /\ at' = [r \in Scanners |-> IF r \in ending THEN "idle" ELSE at[r]]
  /\ todo' = [r \in Scanners |-> IF r \in ending THEN {} ELSE todo[r]]
  /\ looked' = [r \in Scanners |-> IF r \in ending THEN NoFile ELSE looked[r]]
  /\ modified' = [r \in Scanners |-> IF r \in ending THEN {} ELSE modified[r]]
  /\ failed' = IF s = Event THEN "process" ELSE "scan"
  /\ closing' = (closing /\ s # Event)
  /\ UNCHANGED <<writeTime, writeTimes, cancelled, isDisposed>>

\* Mutant: the flag is not looked at.
CheckNothing(s) ==
  /\ at[s] = "check"
  /\ at' = [at EXCEPT ![s] = "renew"]
  /\ UNCHANGED <<writeTime, writeTimes, reported, scanVars, cancelled, isDisposed, closing,
                 failureVars>>

CheckDisposed(s) ==
  /\ at[s] = "check"
  /\ at' = [at EXCEPT ![s] = IF isDisposed THEN "idle" ELSE "renew"]
  /\ UNCHANGED <<writeTime, writeTimes, reported, scanVars, cancelled, isDisposed, closing,
                 failureVars>>

\* Mutant: _cts keeps the source that this scan has cancelled.
RenewNothing(s) ==
  /\ at[s] = "renew"
  /\ at' = [at EXCEPT ![s] = "set"]
  /\ UNCHANGED <<writeTime, writeTimes, reported, scanVars, cancelled, isDisposed, closing,
                 failureVars>>

\* QueueScan gives _cts another source ...
Renew(s) ==
  /\ at[s] = "renew"
  /\ at' = Orphaned([at EXCEPT ![s] = "set"])
  /\ cancelled' = FALSE
  /\ UNCHANGED <<writeTime, writeTimes, reported, scanVars, isDisposed, closing,
                 failureVars>>

\* ... and sets a timer with the token that _cts has by then.  If that has been
\* cancelled there is no timer.  The delay's own token makes no difference: a
\* delay that is cancelled just ends at once.
SetTimer(s) ==
  /\ at[s] = "set"
  /\ IF cancelled
     THEN at' = [at EXCEPT ![s] = "idle"]
     ELSE \E t \in Timers :
            /\ at[t] = "idle" \/ t = s
            /\ at' = [[at EXCEPT ![s] = "idle"] EXCEPT ![t] = "current"]
  /\ UNCHANGED <<writeTime, writeTimes, reported, scanVars, cancelled, isDisposed, closing,
                 failureVars>>

-----------------------------------------------------------------------------
\* Dispose sets the flag, unsubscribes from the events, and cancels _cts.
Dispose ==
  /\ ~isDisposed
  /\ failed # "process"
  /\ isDisposed' = TRUE
  /\ closing' = TRUE
  /\ UNCHANGED <<writeTime, writeTimes, reported, at, scanVars, cancelled, failureVars>>

DisposeCancels ==
  /\ closing
  /\ closing' = FALSE
  /\ at' = Cancelled(at)
  /\ cancelled' = TRUE
  /\ UNCHANGED <<writeTime, writeTimes, reported, scanVars, isDisposed, failureVars>>

-----------------------------------------------------------------------------
Scan(s) ==
  \/ Begin(s) \/ (\E f \in Files : Look(s, f)) \/ Compare(s) \/ Store(s)
  \/ Report(s) \/ CheckDisposed(s) \/ Renew(s) \/ SetTimer(s)

Next ==
  \/ \E f \in Files : Write(f)
  \/ \E t \in Timers : TimerFires(t)
  \/ EventFires
  \/ \E s \in Scanners : Scan(s) \/ ScanFails(s)
  \/ Dispose \/ DisposeCancels

Spec == Init /\ [][Next]_vars

\* Timers fire and threads run.  No event ever has to be raised: the scan that
\* the timer makes is there for the events that the file system loses.
FairSpec ==
  /\ Spec
  /\ \A t \in Timers : WF_vars(TimerFires(t))
  /\ \A s \in Scanners : WF_vars(Scan(s))
  /\ WF_vars(DisposeCancels)

-----------------------------------------------------------------------------
(* Until the watcher is disposed there is a scan under way or a timer set  *)
(* for one: no order in which scans cancel and replace each other's timers *)
(* ends the watching.  A scan that throws does, until an event of the file *)
(* system starts the next.                                                 *)
NeverBlind ==
  ~isDisposed /\ failed = "no" => \E s \in Scanners : at[s] \in Scanning \cup Set

(* No write is lost by being noted: if the table of times has a later time  *)
(* for a file than was reported, a scan under way has the file among those  *)
(* it will report, though scans compare and note the times of one file      *)
(* crosswise; or one that had it has thrown before it came to the file.     *)
NotedIsReported ==
  \A f \in Files : writeTimes[f] > reported[f] =>
    f \in unreported \/ \E s \in Scanners : f \in modified[s]

(* Every write is reported, at that time or later, though scans overlap,   *)
(* share the table of times, and may look at a file before it is written   *)
(* and note the time after another scan has; unless Dispose comes first,   *)
(* or a scan throws.                                                       *)
EveryWriteReported ==
  \A f \in Files : \A v \in 1..MaxWrites :
    writeTime[f] = v ~> (reported[f] >= v \/ isDisposed \/ failed # "no" \/ f \in unreported)

(* Scanning ends after Dispose: a scan that was already past the flag sets *)
(* a timer once more, and its scan is the last.                            *)
StopsAfterDispose ==
  isDisposed ~> [](\A s \in Scanners : at[s] = "idle")
=============================================================================
