---------------------------- MODULE Matchmaking ----------------------------
(***************************************************************************)
(* The matchmaking service of LiveSharp.Server: a user application posts   *)
(* its project info, the server answers with the address of the dashboard  *)
(* ("workspace") process of that project, and starts that process if none  *)
(* is registered.  A dashboard process posts its address back when it is   *)
(* listening.  Requests run on thread-pool threads, so every access to a   *)
(* shared dictionary is a step of its own.                                 *)
(*                                                                         *)
(* A request starts at most one process, so a process, and the address it  *)
(* listens on, are named by the request that started it.                   *)
(***************************************************************************)
EXTENDS Naturals

CONSTANTS
  Projects,   \* project ids (solution path + project name + package path)
  Mangled,    \* projects whose id a started process does not post back:
              \*   its command line is split at '=' and a value holding one is lost
  Requests,   \* HTTP requests to /connect/runtime; also names of processes
  None

ASSUME MatchmakingAssumption ==
  /\ Mangled \subseteq Projects
  /\ None \notin Requests
  /\ None \notin [process : Requests, address : Requests]

VARIABLES
  project,     \* the project each request asks for
  pc,          \* where each request is in ProjectInfoReceived
  found,       \* workspaceInfo, the entry a request looked up and has yet to use
  reply,       \* the address a request will answer with
  workspaces,  \* _workspaces
  waiting,     \* _waitingForWorkspacesToLoad
  process,     \* the state of each dashboard process
  posted,      \* processes whose address has reached the server (history)
  acked,       \* processes that no longer post their address
  sweep,       \* what is left of the snapshot RemoveDeadWorkspaces iterates
  page         \* the workspace infos the server's index page shows

requestVars == <<project, pc, found, reply>>
vars == <<project, pc, found, reply, workspaces, waiting,
          process, posted, acked, sweep, page>>

WorkspaceInfo == [process : Requests, address : Requests]

Steps == {"new", "check", "lookup", "refresh", "evict", "mark", "start",
          "subscribe", "awaiting", "register", "leave", "done"}

\* Steps between setting the waiting flag and the finally block.
Loading == {"start", "subscribe", "awaiting", "register", "leave"}

(* The values the variables take; a reply is the address of a process.     *)
TypeOK ==
  /\ project \in [Requests -> Projects]
  /\ pc \in [Requests -> Steps]
  /\ found \in [Requests -> WorkspaceInfo \cup {None}]
  /\ reply \in [Requests -> Requests \cup {None}]
  /\ workspaces \in [Projects -> WorkspaceInfo \cup {None}]
  /\ waiting \in SUBSET Projects
  /\ process \in [Requests -> {"none", "running", "exited"}]
  /\ posted \in SUBSET Requests
  /\ acked \in SUBSET Requests
  /\ sweep \in SUBSET (Projects \X Requests)
  /\ page \in SUBSET (Projects \X Requests)

Init ==
  /\ project \in [Requests -> Projects]
  /\ pc = [r \in Requests |-> "new"]
  /\ found = [r \in Requests |-> None]
  /\ reply = [r \in Requests |-> None]
  /\ workspaces = [p \in Projects |-> None]
  /\ waiting = {}
  /\ process = [r \in Requests |-> "none"]
  /\ posted = {}
  /\ acked = {}
  /\ sweep = {}
  /\ page = {}

Goto(r, from, to) ==
  /\ pc[r] = from
  /\ pc' = [pc EXCEPT ![r] = to]

\* GetWorkspaces and _workspaces.Values: who is registered for which project.
Listed == {e \in Projects \X Requests :
             workspaces[e[1]] # None /\ workspaces[e[1]].process = e[2]}

-----------------------------------------------------------------------------
\* A request: ConnectController.Runtime and ProjectInfoReceived.

Arrive(r) ==
  /\ Goto(r, "new", "check")
  /\ UNCHANGED <<project, found, reply, workspaces, waiting,
                 process, posted, acked, sweep, page>>

\* A request that finds the flag set throws, and so runs the finally block.
CheckWaiting(r) ==
  /\ Goto(r, "check", IF project[r] \in waiting THEN "leave" ELSE "lookup")
  /\ UNCHANGED <<project, found, reply, workspaces, waiting,
                 process, posted, acked, sweep, page>>

\* TryGetValue and HasExited decide between answering, evicting and starting.
LookUp(r) ==
  LET info == workspaces[project[r]] IN
  /\ Goto(r, "lookup", IF info = None THEN "mark"
                       ELSE IF process[info.process] = "running" THEN "refresh"
                       ELSE "evict")
  /\ found' = [found EXCEPT ![r] = info]
  /\ UNCHANGED <<project, reply, workspaces, waiting,
                 process, posted, acked, sweep, page>>

\* The entry that was looked up is written back with the new project info.
Refresh(r) ==
  /\ Goto(r, "refresh", "leave")
  /\ workspaces' = [workspaces EXCEPT ![project[r]] = found[r]]
  /\ reply' = [reply EXCEPT ![r] = found[r].address]
  /\ found' = [found EXCEPT ![r] = None]
  /\ UNCHANGED <<project, waiting, process, posted, acked, sweep, page>>

Evict(r) ==
  /\ Goto(r, "evict", "mark")
  /\ workspaces' = [workspaces EXCEPT ![project[r]] = None]
  /\ found' = [found EXCEPT ![r] = None]
  /\ UNCHANGED <<project, reply, waiting, process, posted, acked, sweep, page>>

Mark(r) ==
  /\ Goto(r, "mark", "start")
  /\ waiting' = waiting \cup {project[r]}
  /\ UNCHANGED <<project, found, reply, workspaces,
                 process, posted, acked, sweep, page>>

\* Process.Start throws: no process, and the finally block is next.
StartFails(r) ==
  /\ Goto(r, "start", "leave")
  /\ UNCHANGED <<project, found, reply, workspaces, waiting,
                 process, posted, acked, sweep, page>>

StartProcess(r) ==
  /\ Goto(r, "start", "subscribe")
  /\ process' = [process EXCEPT ![r] = "running"]
  /\ UNCHANGED <<project, found, reply, workspaces, waiting,
                 posted, acked, sweep, page>>

\* The subject is hot: only what is posted from now on is seen.
Subscribe(r) ==
  /\ Goto(r, "subscribe", "awaiting")
  /\ UNCHANGED <<project, found, reply, workspaces, waiting,
                 process, posted, acked, sweep, page>>

\* Mutants: a timeout that does not run the finally block, and an await without one.
TimeoutSkipsFinally(r) ==
  /\ Goto(r, "awaiting", "done")
  /\ UNCHANGED <<project, found, reply, workspaces, waiting,
                 process, posted, acked, sweep, page>>

TimeoutNever(r) == pc[r] = "awaiting" /\ UNCHANGED vars

\* No address within 20 seconds: the TimeoutException runs the finally block,
\* and the process that was started is left running.
Timeout(r) ==
  /\ Goto(r, "awaiting", "leave")
  /\ UNCHANGED <<project, found, reply, workspaces, waiting,
                 process, posted, acked, sweep, page>>

Register(r) ==
  /\ Goto(r, "register", "leave")
  /\ workspaces' = [workspaces EXCEPT
                      ![project[r]] = [process |-> r, address |-> reply[r]]]
  /\ UNCHANGED <<project, found, reply, waiting,
                 process, posted, acked, sweep, page>>

\* The finally block clears the project's flag, whoever set it.
Leave(r) ==
  /\ Goto(r, "leave", "done")
  /\ waiting' = waiting \ {project[r]}
  /\ UNCHANGED <<project, found, reply, workspaces,
                 process, posted, acked, sweep, page>>

-----------------------------------------------------------------------------
\* A dashboard process and what its post does on the server.

\* Mutant: no filter, so a post reaches whoever waits.
HearsAll(q) == {r \in Requests : pc[r] = "awaiting"}

\* The requests that a post of process q reaches: the subscribers' filter.
Hears(q) == {r \in Requests : /\ pc[r] = "awaiting"
                              /\ project[r] = project[q]
                              /\ project[q] \notin Mangled}

\* WorkspaceAddressReceived: OnNext reaches every matching subscriber.  A post
\* whose response is lost is sent again, until one is acknowledged.
PostAddress(q) ==
  /\ process[q] = "running"
  /\ q \notin acked
  /\ posted' = posted \cup {q}
  /\ reply' = [r \in Requests |-> IF r \in Hears(q) THEN q ELSE reply[r]]
  /\ pc' = [r \in Requests |-> IF r \in Hears(q) THEN "register" ELSE pc[r]]
  /\ UNCHANGED <<project, found, workspaces, waiting, process, acked, sweep, page>>

\* A response arrives, or the three rounds over the ports are used up.
StopPosting(q) ==
  /\ process[q] = "running"
  /\ q \notin acked
  /\ acked' = acked \cup {q}
  /\ UNCHANGED <<requestVars, workspaces, waiting, process, posted, sweep, page>>

\* The process quits (its client disconnected) or crashes.
Exit(q) ==
  /\ process[q] = "running"
  /\ process' = [process EXCEPT ![q] = "exited"]
  /\ UNCHANGED <<requestVars, workspaces, waiting, posted, acked, sweep, page>>

-----------------------------------------------------------------------------
\* The sweeper and the index page.

\* One tick of the one-second interval takes a snapshot of the values ...
SweepStart ==
  /\ sweep = {}
  /\ Listed # {}
  /\ sweep' = Listed
  /\ UNCHANGED <<requestVars, workspaces, waiting, process, posted, acked, page>>

\* Mutant: the sweeper looks and does not remove.
SweepKeeps(e) ==
  /\ e \in sweep
  /\ sweep' = sweep \ {e}
  /\ UNCHANGED <<requestVars, workspaces, waiting, process, posted, acked, page>>

\* ... and removes, by project id, each one whose process has exited.
SweepOne(e) ==
  /\ e \in sweep
  /\ sweep' = sweep \ {e}
  /\ workspaces' = IF process[e[2]] = "exited"
                   THEN [workspaces EXCEPT ![e[1]] = None] ELSE workspaces
  /\ UNCHANGED <<requestVars, waiting, process, posted, acked, page>>

\* The page shows what was registered when it last rendered.
RenderPage ==
  /\ page' = Listed
  /\ UNCHANGED <<requestVars, workspaces, waiting, process, posted, acked, sweep>>

StopWorkspace(e) ==
  /\ e \in page
  /\ process[e[2]] = "running"
  /\ process' = [process EXCEPT ![e[2]] = "exited"]
  /\ workspaces' = [workspaces EXCEPT ![e[1]] = None]
  /\ UNCHANGED <<requestVars, waiting, posted, acked, sweep, page>>

-----------------------------------------------------------------------------
RequestStep(r) ==
  \/ CheckWaiting(r) \/ LookUp(r) \/ Refresh(r) \/ Evict(r) \/ Mark(r)
  \/ StartFails(r) \/ StartProcess(r) \/ Subscribe(r) \/ Timeout(r)
  \/ Register(r) \/ Leave(r)

Sweeper == SweepStart \/ \E e \in Projects \X Requests : SweepOne(e)

Next ==
  \/ \E r \in Requests : Arrive(r) \/ RequestStep(r)
  \/ \E q \in Requests : PostAddress(q) \/ StopPosting(q) \/ Exit(q)
  \/ Sweeper
  \/ RenderPage
  \/ \E e \in Projects \X Requests : StopWorkspace(e)

Spec == Init /\ [][Next]_vars

\* Threads of the pool run, the timeout of an await fires, and the interval
\* ticks.  Nothing makes an application connect, or a process post or exit.
FairSpec ==
  /\ Spec
  /\ \A r \in Requests : WF_vars(RequestStep(r))
  /\ WF_vars(SweepStart)
  /\ \A e \in Projects \X Requests : WF_vars(SweepOne(e))

-----------------------------------------------------------------------------
(* Every registered workspace is registered with an address that a process *)
(* started for that very project has posted, and so is every answer: the   *)
(* filter on the subject keeps projects that load at once apart.           *)
AddressOfProject ==
  /\ \A p \in Projects : workspaces[p] # None =>
        /\ workspaces[p].address \in posted
        /\ project[workspaces[p].address] = p
        /\ project[workspaces[p].process] = p
  /\ \A r \in Requests : reply[r] # None =>
        reply[r] \in posted /\ project[reply[r]] = project[r]

(* The waiting flag of a project is set only while some request is between *)
(* setting it and the finally block: no path through a timeout leaves it   *)
(* behind, which would lock the project out of the server for good.        *)
NoOrphanFlag ==
  \A p \in waiting : \E r \in Requests : project[r] = p /\ pc[r] \in Loading

(* A request that arrives while another is loading the workspace of its    *)
(* project is turned away, whatever came in between: the check that throws *)
(* "Wait for the original workspace".                                      *)
RefusedWhileLoading ==
  [][\A r \in Requests :
       (pc[r] = "check" /\ pc'[r] = "lookup") =>
         ~\E s \in Requests : project[s] = project[r] /\ pc[s] = "awaiting"]_vars

(* Every request is answered or refused, whatever the processes do.        *)
RequestsComplete == \A r \in Requests : pc[r] = "check" ~> pc[r] = "done"

(* A registered workspace whose process is gone does not stay registered.  *)
DeadRemoved ==
  \A p \in Projects, q \in Requests :
    (workspaces[p] # None /\ workspaces[p].process = q /\ process[q] = "exited")
      ~> ~(workspaces[p] # None /\ workspaces[p].process = q)

-----------------------------------------------------------------------------
(* The service implements the directory: a request is answered, once and   *)
(* for all, with an address posted for its own project, or refused.        *)
Status(r) == IF pc[r] = "new" THEN "idle"
             ELSE IF pc[r] # "done" THEN "asked"
             ELSE IF reply[r] = None THEN "refused" ELSE "answered"

Directory == INSTANCE WorkspaceDirectory WITH
  wants  <- project,
  status <- [r \in Requests |-> Status(r)],
  answer <- [r \in Requests |-> IF pc[r] = "done" THEN reply[r] ELSE None]

ImplementsDirectory == Directory!Spec

=============================================================================
