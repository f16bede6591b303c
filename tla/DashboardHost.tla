--------------------------- MODULE DashboardHost ---------------------------
(***************************************************************************)
(* The dashboard process as its applications see it: LiveHost accepts      *)
(* their connections and broadcasts updates to them, Client chains the     *)
(* sends of one connection, and WorkspaceInitializer makes a new workspace *)
(* for every project info it receives and quits when a client is gone.     *)
(*                                                                         *)
(* Callbacks of the listener and of the sockets and the threads that       *)
(* broadcast share _clients, each Client's _sendQueue and the static       *)
(* Workspace without a lock.  The accept callback that gets a connection,  *)
(* the connection's receive callbacks, and the workspace that is made for  *)
(* its project info all have the connection's name.                        *)
(***************************************************************************)
EXTENDS Naturals, Sequences, FiniteSets

CONSTANTS
  Clients,     \* the connections that are ever made
  Broadcasts,  \* one for each call of SendBroadcast, on a thread of its own
  None

ASSUME DashboardHostAssumption ==
  /\ Clients \cap Broadcasts = {}
  /\ None \notin Clients \cup Broadcasts
  /\ IsFiniteSet(Clients)

Threads == Clients \cup Broadcasts

VARIABLES
  alive,      \* the process has not been killed
  net,        \* each connection as its peer has it
  broken,     \* connections whose socket has failed in use: not IsConnected
  accepts,    \* BeginAcceptSockets that have not completed
  at,         \* where each thread is
  clients,    \* _clients
  copy,       \* the list a thread has read and is about to replace
  todo,       \* the clients a broadcast has yet to send to, or to remove
  target,     \* the client a broadcast is sending to, or removing
  tail,       \* _sendQueue of each client: the broadcast whose task it is
  after,      \* the task each send has been chained to
  chained,    \* the sends that have not begun, as <<broadcast, client>>
  begun,      \* history: the broadcasts each socket was asked to send, in order
  failed,     \* history: those <<broadcast, client>> for which it threw
  sent,       \* history: the broadcasts chained to each client, in order
  workspace,  \* the static Workspace
  disposed,   \* workspaces that have been disposed
  loading,    \* the workspace that each project info has begun to load
  watcher,    \* _fileWatcher of each workspace: who has subscribed it
  watching,   \* file watchers that have been subscribed and not disposed
  informed,   \* connections that have sent their project info
  crossed,    \* history: clients to which two broadcasts were sent at once
  overlapped, \* history: two connections were added at once
  disturbed   \* history: project infos came at once, or one while another's
              \* solution was loading

hostVars == <<accepts, clients, copy>>
sendVars == <<todo, target, tail, after, chained, begun, failed, sent>>
workspaceVars == <<workspace, disposed, loading, watcher, watching, informed>>
historyVars == <<crossed, overlapped, disturbed>>
vars == <<alive, net, broken, at, hostVars, sendVars, workspaceVars, historyVars>>

Accepting == {"begin", "accept", "add", "added"}
Handling  == {"create", "assign", "load"}
Sending   == {"each", "link", "linked"}
Removing  == {"filter", "remove"}
Places == {"idle", "listen", "receiving", "gone", "done"}
            \cup Accepting \cup Handling \cup Sending \cup Removing

(* The values the variables take.                                          *)
TypeOK ==
  /\ {alive, overlapped, disturbed} \subseteq BOOLEAN
  /\ net \in [Clients -> {"away", "connected", "closed"}]
  /\ accepts \in 0..(Cardinality(Clients) + 1)
  /\ at \in [Threads -> Places]
  /\ {broken, clients, crossed, disposed, watching, informed} \subseteq SUBSET Clients
  /\ copy \in [Threads -> SUBSET Clients]
  /\ todo \in [Broadcasts -> SUBSET Clients]
  /\ target \in [Broadcasts -> Clients \cup {None}]
  /\ tail \in [Clients -> Broadcasts \cup {None}]
  /\ after \in [Broadcasts -> [Clients -> Broadcasts \cup {None}]]
  /\ chained \subseteq Broadcasts \X Clients
  /\ failed \subseteq Broadcasts \X Clients
  /\ begun \in [Clients -> Seq(Broadcasts)]
  /\ sent \in [Clients -> Seq(Broadcasts)]
  /\ workspace \in Clients \cup {None}
  /\ loading \in [Clients -> Clients \cup {None}]
  /\ watcher \in [Clients -> Clients \cup {None}]

\* StartServer has called LiveHost.Start.
Init ==
  /\ alive = TRUE
  /\ net = [c \in Clients |-> "away"]
  /\ broken = {}
  /\ accepts = 1
  /\ at = [t \in Threads |-> "idle"]
  /\ clients = {}
  /\ copy = [t \in Threads |-> {}]
  /\ todo = [b \in Broadcasts |-> {}]
  /\ target = [b \in Broadcasts |-> None]
  /\ tail = [c \in Clients |-> None]
  /\ after = [b \in Broadcasts |-> [c \in Clients |-> None]]
  /\ chained = {}
  /\ begun = [c \in Clients |-> <<>>]
  /\ failed = {}
  /\ sent = [c \in Clients |-> <<>>]
  /\ workspace = None
  /\ disposed = {}
  /\ loading = [c \in Clients |-> None]
  /\ watcher = [c \in Clients |-> None]
  /\ watching = {}
  /\ informed = {}
  /\ crossed = {}
  /\ overlapped = FALSE
  /\ disturbed = FALSE

Goto(t, from, to) ==
  /\ alive
  /\ at[t] = from
  /\ at' = [at EXCEPT ![t] = to]

-----------------------------------------------------------------------------
\* The network.

Connect(c) ==
  /\ alive
  /\ net[c] = "away"
  /\ net' = [net EXCEPT ![c] = "connected"]
  /\ UNCHANGED <<alive, broken, at, hostVars, sendVars, workspaceVars, historyVars>>

Close(c) ==
  /\ net[c] = "connected"
  /\ net' = [net EXCEPT ![c] = "closed"]
  /\ UNCHANGED <<alive, broken, at, hostVars, sendVars, workspaceVars, historyVars>>

-----------------------------------------------------------------------------
\* AcceptClient.  Every exception is logged and ends the callback.

AcceptCompletes(c) ==
  /\ net[c] # "away"
  /\ accepts > 0
  /\ Goto(c, "idle", "begin")
  /\ accepts' = accepts - 1
  /\ UNCHANGED <<alive, net, broken, clients, copy, sendVars, workspaceVars, historyVars>>

BeginAccept(c) ==
  /\ Goto(c, "begin", "accept")
  /\ accepts' = accepts + 1
  /\ UNCHANGED <<alive, net, broken, clients, copy, sendVars, workspaceVars, historyVars>>

\* Mutant: the connection is taken before the next accept is begun, and one that
\* is broken already ends the callback.
EndAcceptFirst(c) ==
  /\ \/ Goto(c, "accept", "add")
     \/ net[c] = "closed" /\ Goto(c, "begin", "gone")
  /\ UNCHANGED <<alive, net, broken, hostVars, sendVars, workspaceVars, historyVars>>

EndAccept(c) ==
  /\ \/ Goto(c, "accept", "add")
     \/ net[c] = "closed" /\ Goto(c, "accept", "gone")
  /\ UNCHANGED <<alive, net, broken, hostVars, sendVars, workspaceVars, historyVars>>

\* `_clients = _clients.Add(client)` reads the list ...
ReadToAdd(c) ==
  /\ Goto(c, "add", "added")
  /\ copy' = [copy EXCEPT ![c] = clients]
  /\ overlapped' = (overlapped \/ \E d \in Clients : at[d] = "added")
  /\ UNCHANGED <<alive, net, broken, accepts, clients, sendVars, workspaceVars,
                 crossed, disturbed>>

\* ... and replaces it.
Add(c) ==
  /\ Goto(c, "added", "listen")
  /\ clients' = copy[c] \cup {c}
  /\ copy' = [copy EXCEPT ![c] = {}]
  /\ UNCHANGED <<alive, net, broken, accepts, sendVars, workspaceVars, historyVars>>

\* StartReceiving.  If BeginReceive throws, one more accept is begun.
Listen(c) ==
  /\ \/ Goto(c, "listen", "receiving") /\ UNCHANGED <<accepts, broken>>
     \/ /\ net[c] = "closed"
        /\ Goto(c, "listen", "gone")
        /\ accepts' = accepts + 1
        /\ broken' = broken \cup {c}
  /\ UNCHANGED <<alive, net, clients, copy, sendVars, workspaceVars, historyVars>>

-----------------------------------------------------------------------------
\* EndReceive, and what a received message does.

\* Logs and events change nothing here.
ReceiveOther(c) ==
  /\ net[c] # "away"
  /\ Goto(c, "receiving", "listen")
  /\ UNCHANGED <<alive, net, broken, hostVars, sendVars, workspaceVars, historyVars>>

\* Mutant: a client that is gone is only logged.
DisconnectStays(c) ==
  /\ net[c] = "closed"
  /\ Goto(c, "receiving", "gone")
  /\ UNCHANGED <<alive, net, broken, hostVars, sendVars, workspaceVars, historyVars>>

\* No bytes, an exception of the socket: DisconnectClient, which quits.
Disconnect(c) ==
  /\ net[c] = "closed"
  /\ Goto(c, "receiving", "gone")
  /\ alive' = FALSE
  /\ UNCHANGED <<net, broken, hostVars, sendVars, workspaceVars, historyVars>>

\* A Quit message, or one whose handler throws.
ReceiveQuit(c) ==
  /\ Goto(c, "receiving", "gone")
  /\ alive' = FALSE
  /\ UNCHANGED <<net, broken, hostVars, sendVars, workspaceVars, historyVars>>

\* ProjectInfoReceived; the runtime sends one for each connection.
ReceiveProjectInfo(c) ==
  /\ c \notin informed
  /\ Goto(c, "receiving", "create")
  /\ informed' = informed \cup {c}
  /\ disturbed' = (disturbed \/ \E d \in Clients : at[d] \in Handling \/ loading[d] # None)
  /\ UNCHANGED <<alive, net, broken, hostVars, sendVars, workspace, disposed, loading,
                 watcher, watching, crossed, overlapped>>

\* Mutant: the workspace forgets about the watcher it has.
DisposeQueueOnly(c) ==
  /\ Goto(c, "create", "assign")
  /\ disposed' = disposed \cup ({workspace} \ {None})
  /\ UNCHANGED <<alive, net, broken, hostVars, sendVars, workspace, loading, watcher,
                 watching, informed, historyVars>>

\* CreateWorkspace: `Workspace?.Dispose()`, with the file watcher it has by now.
DisposeWorkspace(c) ==
  /\ Goto(c, "create", "assign")
  /\ disposed' = disposed \cup ({workspace} \ {None})
  /\ watching' = IF workspace = None THEN watching ELSE watching \ {watcher[workspace]}
  /\ UNCHANGED <<alive, net, broken, hostVars, sendVars, workspace, loading, watcher,
                 informed, historyVars>>

\* Mutant: the first workspace is kept.
AssignOnce(c) ==
  /\ Goto(c, "assign", "load")
  /\ workspace' = IF workspace = None THEN c ELSE workspace
  /\ UNCHANGED <<alive, net, broken, hostVars, sendVars, disposed, loading, watcher,
                 watching, informed, historyVars>>

AssignWorkspace(c) ==
  /\ Goto(c, "assign", "load")
  /\ workspace' = c
  /\ UNCHANGED <<alive, net, broken, hostVars, sendVars, disposed, loading, watcher,
                 watching, informed, historyVars>>

\* LoadSolution of whatever the static Workspace is by now.  It runs on this
\* thread unless a file of the solution is locked, and may fail.
LoadSolution(c) ==
  /\ Goto(c, "load", "listen")
  /\ \/ loading' = [loading EXCEPT ![c] = workspace] /\ UNCHANGED <<watcher, watching>>
     \/ /\ watcher' = [watcher EXCEPT ![workspace] = c]
        /\ watching' = watching \cup {c}
        /\ UNCHANGED loading
     \/ UNCHANGED <<loading, watcher, watching>>
  /\ UNCHANGED <<alive, net, broken, hostVars, sendVars, workspace, disposed,
                 informed, historyVars>>

\* A solution that was waiting for a file is loaded and subscribes a watcher,
\* even if its workspace has been disposed.
LoadLater(c) ==
  /\ alive
  /\ loading[c] # None
  /\ \/ /\ watcher' = [watcher EXCEPT ![loading[c]] = c]
        /\ watching' = watching \cup {c}
     \/ UNCHANGED <<watcher, watching>>
  /\ loading' = [loading EXCEPT ![c] = None]
  /\ UNCHANGED <<alive, net, broken, at, hostVars, sendVars, workspace, disposed,
                 informed, historyVars>>

-----------------------------------------------------------------------------
\* SendBroadcast.

\* The foreach goes over the list it was begun with.
StartBroadcast(b) ==
  /\ Goto(b, "idle", "each")
  /\ todo' = [todo EXCEPT ![b] = clients]
  /\ UNCHANGED <<alive, net, broken, hostVars, target, tail, after, chained, begun, failed, sent,
                 workspaceVars, historyVars>>

NextClient(b, c) ==
  /\ c \in todo[b]
  /\ Goto(b, "each", "link")
  /\ todo' = [todo EXCEPT ![b] = @ \ {c}]
  /\ target' = [target EXCEPT ![b] = c]
  /\ UNCHANGED <<alive, net, broken, hostVars, tail, after, chained, begun, failed, sent,
                 workspaceVars, historyVars>>

\* Mutant: the task is remembered before it is chained, and so is chained to itself.
ChainToItself(b) ==
  LET c == target[b] IN
  /\ Goto(b, "link", "linked")
  /\ after' = [after EXCEPT ![b][c] = b]
  /\ chained' = chained \cup {<<b, c>>}
  /\ sent' = [sent EXCEPT ![c] = Append(@, b)]
  /\ UNCHANGED <<alive, net, broken, hostVars, todo, target, tail, begun, failed,
                 workspaceVars, historyVars>>

\* Client.Send: `_sendQueue = _sendQueue.ContinueWith(...)` chains a task ...
Chain(b) ==
  LET c == target[b] IN
  /\ Goto(b, "link", "linked")
  /\ after' = [after EXCEPT ![b][c] = tail[c]]
  /\ chained' = chained \cup {<<b, c>>}
  /\ sent' = [sent EXCEPT ![c] = Append(@, b)]
  /\ crossed' = IF \E d \in Broadcasts : at[d] = "linked" /\ target[d] = c
                THEN crossed \cup {c} ELSE crossed
  /\ UNCHANGED <<alive, net, broken, hostVars, todo, target, tail, begun, failed,
                 workspaceVars, overlapped, disturbed>>

\* Mutant: the new task is not remembered.
LinkNothing(b) ==
  /\ Goto(b, "linked", "each")
  /\ target' = [target EXCEPT ![b] = None]
  /\ UNCHANGED <<alive, net, broken, hostVars, todo, tail, after, chained, begun, failed, sent,
                 workspaceVars, historyVars>>

\* ... and makes it the one that the next send is chained to.
Link(b) ==
  /\ Goto(b, "linked", "each")
  /\ tail' = [tail EXCEPT ![target[b]] = b]
  /\ target' = [target EXCEPT ![b] = None]
  /\ UNCHANGED <<alive, net, broken, hostVars, todo, after, chained, begun, failed, sent,
                 workspaceVars, historyVars>>

\* BeginSend works or throws, whatever the reason; a socket finds out by it that its
\* connection is closed.
BeginSend(b, c) ==
  /\ begun' = [begun EXCEPT ![c] = Append(@, b)]
  /\ \/ UNCHANGED <<failed, broken>>
     \/ failed' = failed \cup {<<b, c>>} /\ UNCHANGED broken
     \/ net[c] = "closed" /\ failed' = failed \cup {<<b, c>>} /\ broken' = broken \cup {c}

\* Mutant: the task runs only if the one before it has not failed.
RunSendUnlessFailed(b, c) ==
  /\ alive
  /\ <<b, c>> \in chained
  /\ <<after[b][c], c>> \notin chained \cup failed
  /\ chained' = chained \ {<<b, c>>}
  /\ BeginSend(b, c)
  /\ UNCHANGED <<alive, net, at, hostVars, todo, target, tail, after, sent,
                 workspaceVars, historyVars>>

\* The task runs once the one before it has: an exception is caught and logged, and
\* what becomes of the bytes after that, SendCallback only logs.
RunSend(b, c) ==
  /\ alive
  /\ <<b, c>> \in chained
  /\ <<after[b][c], c>> \notin chained
  /\ chained' = chained \ {<<b, c>>}
  /\ BeginSend(b, c)
  /\ after' = [after EXCEPT ![b][c] = None]
  /\ UNCHANGED <<alive, net, at, hostVars, todo, target, tail, sent,
                 workspaceVars, historyVars>>

\* Mutant: the list is replaced by those that are connected, if any is not or none.
FilterReplaces(b) ==
  /\ todo[b] = {}
  /\ Goto(b, "each", "remove")
  /\ copy' = [copy EXCEPT ![b] = clients \ broken]
  /\ UNCHANGED <<alive, net, broken, accepts, clients, sendVars, workspaceVars, historyVars>>

\* The list is read again for those that are not connected.
Filter(b) ==
  /\ todo[b] = {}
  /\ Goto(b, "each", "filter")
  /\ todo' = [todo EXCEPT ![b] = clients \cap broken]
  /\ UNCHANGED <<alive, net, broken, hostVars, target, tail, after, chained, begun, failed, sent,
                 workspaceVars, historyVars>>

\* `_clients = _clients.Remove(disconnectedClient)`, in two steps again.
ReadToRemove(b, c) ==
  /\ c \in todo[b]
  /\ Goto(b, "filter", "remove")
  /\ todo' = [todo EXCEPT ![b] = @ \ {c}]
  /\ target' = [target EXCEPT ![b] = c]
  /\ copy' = [copy EXCEPT ![b] = clients]
  /\ UNCHANGED <<alive, net, broken, accepts, clients, tail, after, chained, begun, failed, sent,
                 workspaceVars, historyVars>>

Remove(b) ==
  /\ Goto(b, "remove", "filter")
  /\ clients' = copy[b] \ {target[b]}
  /\ copy' = [copy EXCEPT ![b] = {}]
  /\ target' = [target EXCEPT ![b] = None]
  /\ UNCHANGED <<alive, net, broken, accepts, todo, tail, after, chained, begun, failed, sent,
                 workspaceVars, historyVars>>

EndBroadcast(b) ==
  /\ todo[b] = {}
  /\ Goto(b, "filter", "done")
  /\ UNCHANGED <<alive, net, broken, hostVars, sendVars, workspaceVars, historyVars>>

-----------------------------------------------------------------------------
\* A thread goes on by itself; reads from a connection are complete at its end.
Callback(c) ==
  \/ AcceptCompletes(c) \/ BeginAccept(c) \/ EndAccept(c) \/ ReadToAdd(c) \/ Add(c)
  \/ Listen(c) \/ Disconnect(c) \/ DisposeWorkspace(c) \/ AssignWorkspace(c)
  \/ LoadSolution(c)

Message(c) == ReceiveOther(c) \/ ReceiveQuit(c) \/ ReceiveProjectInfo(c)

Broadcasting(b) ==
  \/ \E c \in Clients : NextClient(b, c) \/ ReadToRemove(b, c)
  \/ Chain(b) \/ Link(b) \/ Filter(b) \/ Remove(b) \/ EndBroadcast(b)

Next ==
  \/ \E c \in Clients : Connect(c) \/ Close(c) \/ Callback(c) \/ Message(c) \/ LoadLater(c)
  \/ \E b \in Broadcasts : StartBroadcast(b) \/ Broadcasting(b)
  \/ \E b \in Broadcasts, c \in Clients : RunSend(b, c)

Spec == Init /\ [][Next]_vars

\* The thread pool runs what it was given, and what a closed connection has still
\* to say comes to an end: no message is received forever.
FairSpec ==
  /\ Spec
  /\ \A c \in Clients : WF_vars(Callback(c)) /\ SF_vars(Disconnect(c))
  /\ \A b \in Broadcasts : WF_vars(Broadcasting(b))
  /\ \A b \in Broadcasts, c \in Clients : WF_vars(RunSend(b, c))

-----------------------------------------------------------------------------
(* The listener never goes deaf: as long as the process lives an accept is *)
(* pending or a callback is about to begin one, whatever connections break *)
(* while they are accepted.                                                *)
NeverDeaf == alive => accepts > 0 \/ \E c \in Clients : at[c] = "begin"

(* However project infos race each other, the current workspace has not    *)
(* been disposed, except by a thread that is about to replace it.          *)
WorkspaceUsable ==
  workspace \in disposed => \E c \in Clients : at[c] = "assign"

(* At most one file watcher is alive, so no edit is compiled and sent by   *)
(* two workspaces, as long as project infos come one after another and not *)
(* while a solution waits for a locked file.                               *)
WatchesOnce == disturbed \/ Cardinality(watching) <= 1

(* Broadcasts, however many run at once, do not lose a connected client    *)
(* from the list: it takes a client that is being removed, or two that are *)
(* added at once.                                                          *)
NoClientLost ==
  (broken = {} /\ ~overlapped) =>
    \A c \in Clients : at[c] \in {"listen", "receiving"} \cup Handling => c \in clients

(* A client is sent the broadcasts in the order they were chained, unless  *)
(* two were being chained at once: none is passed over or overtaken, also  *)
(* when some of them fail.                                                 *)
InOrder ==
  \A c \in Clients \ crossed : begun[c] = SubSeq(sent[c], 1, Len(begun[c]))

(* A client whose connection ends while it is being received from takes    *)
(* the process with it, unless BeginReceive has failed on it.              *)
DisconnectQuits ==
  \A c \in Clients :
    (net[c] = "closed" /\ at[c] = "receiving") ~> (~alive \/ c \in broken)

(* The sends to a client never wait for each other in a circle: as long as  *)
(* there are any, one of them can run, even if two broadcasts were chained  *)
(* at once.                                                                *)
NoSendStuck ==
  \A c \in Clients :
    (\E b \in Broadcasts : <<b, c>> \in chained) =>
       \E b \in Broadcasts : <<b, c>> \in chained /\ <<after[b][c], c>> \notin chained

(* Every client in the list that a broadcast was begun with is sent it:    *)
(* neither a send of an earlier broadcast to the same client that failed,  *)
(* for whatever reason, nor one that was chained at once, holds it up.     *)
Begun(b, c) == \E i \in DOMAIN begun[c] : begun[c][i] = b
BroadcastReaches ==
  \A b \in Broadcasts, c \in Clients :
    (at[b] = "each" /\ c \in todo[b]) ~> (Begun(b, c) \/ ~alive)
=============================================================================
