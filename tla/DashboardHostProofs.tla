------------------------ MODULE DashboardHostProofs ------------------------
(***************************************************************************)
(* For any number of connections and broadcasts: the variables keep their  *)
(* types, the listener never goes deaf, races of project infos never leave *)
(* a disposed workspace behind as the current one, no client is lost from  *)
(* the list, no two file watchers are alive, a client gets broadcasts in   *)
(* the order they were chained, under the conditions of each property, and *)
(* its chain of sends never waits for itself.                              *)
(***************************************************************************)
EXTENDS DashboardHost, FiniteSetTheorems, WellFoundedInduction, TLAPS

-----------------------------------------------------------------------------
(* Types                                                                    *)

(* All of the types but the bound on the accepts, which takes counting.     *)
Typed ==
  /\ alive \in BOOLEAN
  /\ overlapped \in BOOLEAN
  /\ disturbed \in BOOLEAN
  /\ accepts \in Nat
  /\ at \in [Threads -> Places]
  /\ net \in [Clients -> {"away", "connected", "closed"}]
  /\ broken \subseteq Clients /\ clients \subseteq Clients /\ crossed \subseteq Clients
  /\ disposed \subseteq Clients /\ watching \subseteq Clients /\ informed \subseteq Clients
  /\ copy \in [Threads -> SUBSET Clients]
  /\ todo \in [Broadcasts -> SUBSET Clients]
  /\ target \in [Broadcasts -> Clients \cup {None}]
  /\ tail \in [Clients -> Broadcasts \cup {None}]
  /\ after \in [Broadcasts -> [Clients -> Broadcasts \cup {None}]]
  /\ chained \subseteq Broadcasts \X Clients /\ failed \subseteq Broadcasts \X Clients
  /\ begun \in [Clients -> Seq(Broadcasts)]
  /\ sent \in [Clients -> Seq(Broadcasts)]
  /\ workspace \in Clients \cup {None}
  /\ loading \in [Clients -> Clients \cup {None}]
  /\ watcher \in [Clients -> Clients \cup {None}]

\* A broadcast has a target while it sends to it or removes it.
Aimed == \A b \in Broadcasts :
  at[b] \in {"link", "linked", "remove"} => target[b] \in Clients

Grounded == Typed /\ Aimed

LEMMA Moves ==
  ASSUME Typed, NEW t \in Threads, NEW from \in Places, NEW to \in Places, Goto(t, from, to)
  PROVE  at' \in [Threads -> Places]
  BY DEF Typed, Goto

LEMMA GroundedStep == ASSUME Grounded, [Next]_vars PROVE Grounded'
<1> USE DashboardHostAssumption DEF Threads, Grounded
<1>1. CASE UNCHANGED vars
  BY <1>1 DEF Typed, Aimed, vars, hostVars, sendVars, workspaceVars, historyVars
<1>2. ASSUME NEW c \in Clients, Connect(c) \/ Close(c) PROVE Grounded'
  BY <1>2 DEF Connect, Close, Typed, Aimed, hostVars, sendVars, workspaceVars, historyVars
<1>3. ASSUME NEW c \in Clients, AcceptCompletes(c) PROVE Grounded'
  <2>1. at' \in [Threads -> Places]
    BY <1>3 DEF AcceptCompletes, Goto, Typed, Places, Accepting, Handling, Sending, Removing
  <2>2. Aimed'
    BY <1>3 DEF AcceptCompletes, Goto, Typed, Aimed, sendVars
  <2> QED
    BY <1>3, <2>1, <2>2 DEF AcceptCompletes, Typed, hostVars, sendVars, workspaceVars, historyVars, Goto
<1>4. ASSUME NEW c \in Clients, BeginAccept(c) PROVE Grounded'
  <2>1. at' \in [Threads -> Places]
    BY <1>4 DEF BeginAccept, Goto, Typed, Places, Accepting, Handling, Sending, Removing
  <2>2. Aimed'
    BY <1>4 DEF BeginAccept, Goto, Typed, Aimed, sendVars
  <2> QED
    BY <1>4, <2>1, <2>2 DEF BeginAccept, Typed, hostVars, sendVars, workspaceVars, historyVars, Goto
<1>5. ASSUME NEW c \in Clients, EndAccept(c) PROVE Grounded'
  <2>1. at' \in [Threads -> Places]
    BY <1>5 DEF EndAccept, Goto, Typed, Places, Accepting, Handling, Sending, Removing
  <2>2. Aimed'
    BY <1>5 DEF EndAccept, Goto, Typed, Aimed, sendVars
  <2> QED
    BY <1>5, <2>1, <2>2 DEF EndAccept, Typed, hostVars, sendVars, workspaceVars, historyVars, Goto
<1>6. ASSUME NEW c \in Clients, ReadToAdd(c) PROVE Grounded'
  <2>1. at' \in [Threads -> Places]
    BY <1>6 DEF ReadToAdd, Goto, Typed, Places, Accepting, Handling, Sending, Removing
  <2>2. Aimed'
    BY <1>6 DEF ReadToAdd, Goto, Typed, Aimed, sendVars
  <2> QED
    BY <1>6, <2>1, <2>2 DEF ReadToAdd, Typed, hostVars, sendVars, workspaceVars, historyVars, Goto
<1>7. ASSUME NEW c \in Clients, Add(c) PROVE Grounded'
  <2>1. at' \in [Threads -> Places]
    BY <1>7 DEF Add, Goto, Typed, Places, Accepting, Handling, Sending, Removing
  <2>2. Aimed'
    BY <1>7 DEF Add, Goto, Typed, Aimed, sendVars
  <2> QED
    BY <1>7, <2>1, <2>2 DEF Add, Typed, hostVars, sendVars, workspaceVars, historyVars, Goto
<1>8. ASSUME NEW c \in Clients, Listen(c) PROVE Grounded'
  <2>1. at' \in [Threads -> Places]
    BY <1>8 DEF Listen, Goto, Typed, Places, Accepting, Handling, Sending, Removing
  <2>2. Aimed'
    BY <1>8 DEF Listen, Goto, Typed, Aimed, sendVars
  <2> QED
    BY <1>8, <2>1, <2>2 DEF Listen, Typed, hostVars, sendVars, workspaceVars, historyVars, Goto
<1>9. ASSUME NEW c \in Clients, Disconnect(c) PROVE Grounded'
  <2>1. at' \in [Threads -> Places]
    BY <1>9 DEF Disconnect, Goto, Typed, Places, Accepting, Handling, Sending, Removing
  <2>2. Aimed'
    BY <1>9 DEF Disconnect, Goto, Typed, Aimed, sendVars
  <2> QED
    BY <1>9, <2>1, <2>2 DEF Disconnect, Typed, hostVars, sendVars, workspaceVars, historyVars, Goto
<1>10. ASSUME NEW c \in Clients, ReceiveOther(c) PROVE Grounded'
  <2>1. at' \in [Threads -> Places]
    BY <1>10 DEF ReceiveOther, Goto, Typed, Places, Accepting, Handling, Sending, Removing
  <2>2. Aimed'
    BY <1>10 DEF ReceiveOther, Goto, Typed, Aimed, sendVars
  <2> QED
    BY <1>10, <2>1, <2>2 DEF ReceiveOther, Typed, hostVars, sendVars, workspaceVars, historyVars, Goto
<1>11. ASSUME NEW c \in Clients, ReceiveQuit(c) PROVE Grounded'
  <2>1. at' \in [Threads -> Places]
    BY <1>11 DEF ReceiveQuit, Goto, Typed, Places, Accepting, Handling, Sending, Removing
  <2>2. Aimed'
    BY <1>11 DEF ReceiveQuit, Goto, Typed, Aimed, sendVars
  <2> QED
    BY <1>11, <2>1, <2>2 DEF ReceiveQuit, Typed, hostVars, sendVars, workspaceVars, historyVars, Goto
<1>12. ASSUME NEW c \in Clients, ReceiveProjectInfo(c) PROVE Grounded'
  <2>1. at' \in [Threads -> Places]
    BY <1>12 DEF ReceiveProjectInfo, Goto, Typed, Places, Accepting, Handling, Sending, Removing
  <2>2. Aimed'
    BY <1>12 DEF ReceiveProjectInfo, Goto, Typed, Aimed, sendVars
  <2> QED
    BY <1>12, <2>1, <2>2 DEF ReceiveProjectInfo, Typed, hostVars, sendVars, workspaceVars, historyVars, Goto
<1>13. ASSUME NEW c \in Clients, DisposeWorkspace(c) PROVE Grounded'
  <2>1. at' \in [Threads -> Places]
    BY <1>13 DEF DisposeWorkspace, Goto, Typed, Places, Accepting, Handling, Sending, Removing
  <2>2. Aimed'
    BY <1>13 DEF DisposeWorkspace, Goto, Typed, Aimed, sendVars
  <2> QED
    BY <1>13, <2>1, <2>2 DEF DisposeWorkspace, Typed, hostVars, sendVars, workspaceVars, historyVars, Goto
<1>14. ASSUME NEW c \in Clients, AssignWorkspace(c) PROVE Grounded'
  <2>1. at' \in [Threads -> Places]
    BY <1>14 DEF AssignWorkspace, Goto, Typed, Places, Accepting, Handling, Sending, Removing
  <2>2. Aimed'
    BY <1>14 DEF AssignWorkspace, Goto, Typed, Aimed, sendVars
  <2> QED
    BY <1>14, <2>1, <2>2 DEF AssignWorkspace, Typed, hostVars, sendVars, workspaceVars, historyVars, Goto
<1>15. ASSUME NEW c \in Clients, LoadSolution(c) PROVE Grounded'
  <2>1. at' \in [Threads -> Places]
    BY <1>15 DEF LoadSolution, Goto, Typed, Places, Accepting, Handling, Sending, Removing
  <2>2. Aimed'
    BY <1>15 DEF LoadSolution, Goto, Typed, Aimed, sendVars
  <2>3. \/ loading' = [loading EXCEPT ![c] = workspace] /\ UNCHANGED <<watcher, watching>>
        \/ /\ watcher' = [watcher EXCEPT ![workspace] = c]
           /\ watching' = watching \cup {c} /\ UNCHANGED loading
        \/ UNCHANGED <<loading, watcher, watching>>
    BY <1>15 DEF LoadSolution
  <2>4. /\ loading' \in [Clients -> Clients \cup {None}] /\ watching' \subseteq Clients
        /\ watcher' \in [Clients -> Clients \cup {None}]
    <3>1. CASE loading' = [loading EXCEPT ![c] = workspace] /\ UNCHANGED <<watcher, watching>>
      BY <3>1 DEF Typed
    <3>2. CASE /\ watcher' = [watcher EXCEPT ![workspace] = c]
               /\ watching' = watching \cup {c} /\ UNCHANGED loading
      BY <3>2 DEF Typed
    <3>3. CASE UNCHANGED <<loading, watcher, watching>>
      BY <3>3 DEF Typed
    <3> QED BY <2>3, <3>1, <3>2, <3>3
  <2>5. UNCHANGED <<alive, net, broken, hostVars, sendVars, workspace, disposed, informed, historyVars>>
    BY <1>15 DEF LoadSolution
  <2> QED
    BY <2>1, <2>2, <2>3, <2>4, <2>5 DEF Typed, hostVars, sendVars, historyVars
<1>16. ASSUME NEW c \in Clients, LoadLater(c) PROVE Grounded'
  <2>1. at' \in [Threads -> Places]
    BY <1>16 DEF LoadLater, Goto, Typed, Places, Accepting, Handling, Sending, Removing
  <2>2. Aimed'
    BY <1>16 DEF LoadLater, Goto, Typed, Aimed, sendVars
  <2>3. /\ loading' \in [Clients -> Clients \cup {None}] /\ watching' \subseteq Clients
        /\ watcher' \in [Clients -> Clients \cup {None}]
    <3>1. CASE /\ watcher' = [watcher EXCEPT ![loading[c]] = c]
               /\ watching' = watching \cup {c}
      BY <1>16, <3>1 DEF LoadLater, Typed
    <3>2. CASE UNCHANGED <<watcher, watching>>
      BY <1>16, <3>2 DEF LoadLater, Typed
    <3> QED BY <1>16, <3>1, <3>2 DEF LoadLater
  <2>4. UNCHANGED <<alive, net, broken, hostVars, sendVars, workspace, disposed, informed, historyVars>>
    BY <1>16 DEF LoadLater
  <2> QED
    BY <2>1, <2>2, <2>3, <2>4 DEF Typed, hostVars, sendVars, historyVars
<1>17. ASSUME NEW b \in Broadcasts, StartBroadcast(b) PROVE Grounded'
  <2>1. at' \in [Threads -> Places]
    BY <1>17 DEF StartBroadcast, Goto, Typed, Places, Accepting, Handling, Sending, Removing
  <2>2. Aimed'
    BY <1>17 DEF StartBroadcast, Goto, Typed, Aimed, sendVars
  <2> QED
    BY <1>17, <2>1, <2>2 DEF StartBroadcast, Typed, hostVars, sendVars, workspaceVars, historyVars, Goto
<1>18. ASSUME NEW b \in Broadcasts, Filter(b) PROVE Grounded'
  <2>1. at' \in [Threads -> Places]
    BY <1>18 DEF Filter, Goto, Typed, Places, Accepting, Handling, Sending, Removing
  <2>2. Aimed'
    BY <1>18 DEF Filter, Goto, Typed, Aimed, sendVars
  <2> QED
    BY <1>18, <2>1, <2>2 DEF Filter, Typed, hostVars, sendVars, workspaceVars, historyVars, Goto
<1>19. ASSUME NEW b \in Broadcasts, EndBroadcast(b) PROVE Grounded'
  <2>1. at' \in [Threads -> Places]
    BY <1>19 DEF EndBroadcast, Goto, Typed, Places, Accepting, Handling, Sending, Removing
  <2>2. Aimed'
    BY <1>19 DEF EndBroadcast, Goto, Typed, Aimed, sendVars
  <2> QED
    BY <1>19, <2>1, <2>2 DEF EndBroadcast, Typed, hostVars, sendVars, workspaceVars, historyVars, Goto
<1>20. ASSUME NEW b \in Broadcasts, Remove(b) PROVE Grounded'
  <2>1. at' \in [Threads -> Places]
    BY <1>20 DEF Remove, Goto, Typed, Places, Accepting, Handling, Sending, Removing
  <2>2. Aimed'
    BY <1>20 DEF Remove, Goto, Typed, Aimed, sendVars
  <2> QED
    BY <1>20, <2>1, <2>2 DEF Remove, Typed, hostVars, sendVars, workspaceVars, historyVars, Goto
<1>21. ASSUME NEW b \in Broadcasts, Link(b) PROVE Grounded'
  <2>1. at' \in [Threads -> Places]
    BY <1>21 DEF Link, Goto, Typed, Places, Accepting, Handling, Sending, Removing
  <2>2. Aimed'
    BY <1>21 DEF Link, Goto, Typed, Aimed, sendVars
  <2> QED
    BY <1>21, <2>1, <2>2 DEF Link, Typed, hostVars, sendVars, workspaceVars, historyVars, Goto
<1>22. ASSUME NEW b \in Broadcasts, Chain(b) PROVE Grounded'
  <2>1. at' \in [Threads -> Places]
    BY <1>22 DEF Chain, Goto, Typed, Places, Accepting, Handling, Sending, Removing
  <2>2. Aimed'
    BY <1>22 DEF Chain, Goto, Typed, Aimed, sendVars
  <2>3. target[b] \in Clients
    BY <1>22 DEF Chain, Goto, Aimed
  <2>4. after' \in [Broadcasts -> [Clients -> Broadcasts \cup {None}]]
    BY <1>22, <2>3 DEF Chain, Typed
  <2>5. chained' \subseteq Broadcasts \X Clients /\ crossed' \subseteq Clients
    BY <1>22, <2>3 DEF Chain, Typed
  <2>6. sent' \in [Clients -> Seq(Broadcasts)]
    BY <1>22, <2>3 DEF Chain, Typed
  <2>7. UNCHANGED <<alive, net, broken, hostVars, todo, target, tail, begun, failed, workspaceVars, overlapped, disturbed>>
    BY <1>22 DEF Chain
  <2> QED
    BY <2>1, <2>2, <2>3, <2>4, <2>5, <2>6, <2>7 DEF Typed, hostVars, workspaceVars
<1>23. ASSUME NEW b \in Broadcasts, NEW c \in Clients, NextClient(b, c) PROVE Grounded'
  <2>1. at' \in [Threads -> Places]
    BY <1>23 DEF NextClient, Goto, Typed, Places, Accepting, Handling, Sending, Removing
  <2>2. Aimed'
    BY <1>23 DEF NextClient, Goto, Typed, Aimed, sendVars
  <2> QED
    BY <1>23, <2>1, <2>2 DEF NextClient, Typed, hostVars, sendVars, workspaceVars, historyVars, Goto
<1>24. ASSUME NEW b \in Broadcasts, NEW c \in Clients, ReadToRemove(b, c) PROVE Grounded'
  <2>1. at' \in [Threads -> Places]
    BY <1>24 DEF ReadToRemove, Goto, Typed, Places, Accepting, Handling, Sending, Removing
  <2>2. Aimed'
    BY <1>24 DEF ReadToRemove, Goto, Typed, Aimed, sendVars
  <2> QED
    BY <1>24, <2>1, <2>2 DEF ReadToRemove, Typed, hostVars, sendVars, workspaceVars, historyVars, Goto
<1>25. ASSUME NEW b \in Broadcasts, NEW c \in Clients, RunSend(b, c) PROVE Grounded'
  <2>1. at' \in [Threads -> Places]
    BY <1>25 DEF RunSend, Goto, Typed, Places, Accepting, Handling, Sending, Removing
  <2>2. Aimed'
    BY <1>25 DEF RunSend, Goto, Typed, Aimed, sendVars
  <2>3. after' \in [Broadcasts -> [Clients -> Broadcasts \cup {None}]]
    BY <1>25 DEF RunSend, Typed
  <2>4. /\ begun' \in [Clients -> Seq(Broadcasts)] /\ broken' \subseteq Clients
        /\ failed' \subseteq Broadcasts \X Clients
    <3>1. Append(begun[c], b) \in Seq(Broadcasts)
      BY DEF Typed
    <3>2. /\ begun' = [begun EXCEPT ![c] = Append(begun[c], b)]
          /\ broken' = broken \/ broken' = broken \cup {c}
          /\ failed' = failed \/ failed' = failed \cup {<<b, c>>}
      BY <1>25 DEF RunSend, BeginSend
    <3>3. /\ begun \in [Clients -> Seq(Broadcasts)] /\ broken \subseteq Clients
          /\ failed \subseteq Broadcasts \X Clients
      BY DEF Typed
    <3> QED BY <3>1, <3>2, <3>3
  <2>5. chained' \subseteq Broadcasts \X Clients
    BY <1>25 DEF RunSend, Typed
  <2>6. UNCHANGED <<alive, net, at, hostVars, todo, target, tail, sent, workspaceVars, historyVars>>
    BY <1>25 DEF RunSend
  <2> QED
    BY <2>1, <2>2, <2>3, <2>4, <2>5, <2>6 DEF Typed, hostVars, workspaceVars, historyVars
<1> QED
  BY <1>1, <1>2, <1>3, <1>4, <1>5, <1>6, <1>7, <1>8, <1>9, <1>10, <1>11, <1>12, <1>13, <1>14,
     <1>15, <1>16, <1>17, <1>18, <1>19, <1>20, <1>21, <1>22, <1>23, <1>24, <1>25
  DEF Next, Callback, Message, Broadcasting

LEMMA InitGrounded == Init => Grounded
<1> SUFFICES ASSUME Init PROVE Grounded
  OBVIOUS
<1>1. begun \in [Clients -> Seq(Broadcasts)] /\ sent \in [Clients -> Seq(Broadcasts)]
  BY DEF Init
<1>2. \A b \in Broadcasts : at[b] = "idle"
  BY DEF Init, Threads
<1> QED BY <1>1, <1>2 DEF Init, Grounded, Typed, Aimed, Places

-----------------------------------------------------------------------------
(* Counting the accepts: one more than there are callbacks that have failed *)
(* to begin receiving, less the callbacks that are about to begin one.      *)
In(place) == {c \in Clients : at[c] = place}

Balanced ==
  accepts + Cardinality(In("begin")) <= 1 + Cardinality(In("gone"))

LEMMA Finite ==
  ASSUME NEW S \in SUBSET Clients
  PROVE  IsFiniteSet(S) /\ Cardinality(S) \in Nat /\ Cardinality(S) <= Cardinality(Clients)
         /\ Cardinality(Clients) \in Nat
  BY DashboardHostAssumption, FS_Subset, FS_CardinalityType

LEMMA BalancedStep == ASSUME Grounded, Balanced, [Next]_vars PROVE Balanced'
<1> USE DEF Threads
<1>0. /\ Cardinality(In("begin")) \in Nat /\ Cardinality(In("gone")) \in Nat
      /\ IsFiniteSet(In("begin")) /\ IsFiniteSet(In("gone"))
      /\ accepts \in Nat /\ at \in [Threads -> Places]
  BY Finite DEF In, Grounded, Typed
\* A callback that moves, and none that begins an accept or is gone.
<1>a. ASSUME accepts' = accepts, \A d \in Clients : at'[d] \in {"begin", "gone"} \/ at[d] \in {"begin", "gone"} => at'[d] = at[d]
      PROVE  Balanced'
  <2>1. In("begin")' = In("begin") /\ In("gone")' = In("gone")
    BY <1>a DEF In
  <2> QED BY <1>a, <2>1 DEF Balanced
\* One that is gone.
<1>b. ASSUME NEW c \in Clients, at[c] \notin {"begin", "gone"}, at' = [at EXCEPT ![c] = "gone"],
             accepts' \in {accepts, accepts + 1}
      PROVE  Balanced'
  <2>1. In("begin")' = In("begin") /\ In("gone")' = In("gone") \cup {c} /\ c \notin In("gone")
    BY <1>0, <1>b DEF In
  <2>2. Cardinality(In("gone") \cup {c}) = Cardinality(In("gone")) + 1
    BY <1>0, <2>1, FS_AddElement
  <2> QED BY <1>0, <1>b, <2>1, <2>2 DEF Balanced
<1>1. ASSUME NEW c \in Clients, AcceptCompletes(c) PROVE Balanced'
  <2>1. at[c] = "idle" /\ at' = [at EXCEPT ![c] = "begin"] /\ accepts' = accepts - 1
    BY <1>1 DEF AcceptCompletes, Goto
  <2>2. In("begin")' = In("begin") \cup {c} /\ In("gone")' = In("gone") /\ c \notin In("begin")
    BY <1>0, <2>1 DEF In
  <2>3. Cardinality(In("begin") \cup {c}) = Cardinality(In("begin")) + 1
    BY <1>0, <2>2, FS_AddElement
  <2>4. Cardinality(In("begin")') = Cardinality(In("begin")) + 1 /\ Cardinality(In("gone")') = Cardinality(In("gone"))
    BY <2>2, <2>3
  <2> QED BY <1>0, <2>1, <2>4 DEF Balanced
<1>2. ASSUME NEW c \in Clients, BeginAccept(c) PROVE Balanced'
  <2>1. at[c] = "begin" /\ at' = [at EXCEPT ![c] = "accept"] /\ accepts' = accepts + 1
    BY <1>2 DEF BeginAccept, Goto
  <2>2. In("begin")' = In("begin") \ {c} /\ In("gone")' = In("gone") /\ c \in In("begin")
    BY <1>0, <2>1 DEF In
  <2>3. Cardinality(In("begin") \ {c}) = Cardinality(In("begin")) - 1
    BY <1>0, <2>2, FS_RemoveElement
  <2>4. Cardinality(In("begin")') = Cardinality(In("begin")) - 1 /\ Cardinality(In("gone")') = Cardinality(In("gone"))
    BY <2>2, <2>3
  <2> QED BY <1>0, <2>1, <2>4 DEF Balanced
<1>3. ASSUME NEW c \in Clients, EndAccept(c) PROVE Balanced'
  <2>1. /\ at[c] = "accept" /\ accepts' = accepts
        /\ at' = [at EXCEPT ![c] = "add"] \/ at' = [at EXCEPT ![c] = "gone"]
    BY <1>3 DEF EndAccept, Goto, hostVars
  <2> QED BY <1>0, <1>a, <1>b, <2>1
<1>4. ASSUME NEW c \in Clients, Listen(c) PROVE Balanced'
  <2>1. /\ at[c] = "listen"
        /\ \/ accepts' = accepts /\ at' = [at EXCEPT ![c] = "receiving"]
           \/ accepts' = accepts + 1 /\ at' = [at EXCEPT ![c] = "gone"]
    BY <1>4 DEF Listen, Goto
  <2> QED BY <1>0, <1>a, <1>b, <2>1
<1>5. ASSUME NEW c \in Clients, Disconnect(c) \/ ReceiveQuit(c) PROVE Balanced'
  <2>1. at[c] = "receiving" /\ at' = [at EXCEPT ![c] = "gone"] /\ accepts' = accepts
    BY <1>5 DEF Disconnect, ReceiveQuit, Goto, hostVars
  <2> QED BY <1>b, <2>1
<1>6. ASSUME NEW c \in Clients,
             \/ ReadToAdd(c) \/ Add(c) \/ ReceiveOther(c) \/ ReceiveProjectInfo(c)
             \/ DisposeWorkspace(c) \/ AssignWorkspace(c) \/ LoadSolution(c)
      PROVE  Balanced'
  <2>1. /\ at[c] \notin {"begin", "gone"} /\ accepts' = accepts
        /\ \A d \in Clients : at'[d] = at[d] \/ (d = c /\ at'[d] \notin {"begin", "gone"})
    BY <1>0, <1>6 DEF ReadToAdd, Add, ReceiveOther, ReceiveProjectInfo, DisposeWorkspace, AssignWorkspace,
       LoadSolution, Goto, hostVars
  <2> QED BY <1>a, <2>1
<1>7. ASSUME \/ UNCHANGED vars
             \/ \E c \in Clients : Connect(c) \/ Close(c) \/ LoadLater(c)
             \/ \E b \in Broadcasts, c \in Clients : RunSend(b, c)
      PROVE  Balanced'
  <2>1. accepts' = accepts /\ at' = at
    BY <1>7 DEF Connect, Close, LoadLater, RunSend, vars, hostVars
  <2> QED BY <1>a, <2>1
<1>8. ASSUME NEW b \in Broadcasts, StartBroadcast(b) \/ Broadcasting(b) PROVE Balanced'
  <2>1. accepts' = accepts /\ \A d \in Clients : at'[d] = at[d]
    BY <1>0, <1>8, DashboardHostAssumption DEF StartBroadcast, Broadcasting, NextClient, ReadToRemove, Chain, Link,
       Filter, Remove, EndBroadcast, Goto, hostVars
  <2> QED BY <1>a, <2>1
<1> QED
  BY <1>1, <1>2, <1>3, <1>4, <1>5, <1>6, <1>7, <1>8 DEF Next, Callback, Message

(* The variables keep their types, and there are never more accepts pending *)
(* than connections, and one: each callback of AcceptClient begins one.     *)
THEOREM HostTypes == Spec => []TypeOK
<1>1. Init => Grounded /\ Balanced
  <2> SUFFICES ASSUME Init PROVE Balanced
    BY InitGrounded
  <2>1. In("begin") = {} /\ In("gone") = {} /\ accepts = 1
    BY DEF Init, In, Threads
  <2> QED BY <2>1, FS_EmptySet DEF Balanced
<1>2. Grounded /\ Balanced /\ [Next]_vars => (Grounded /\ Balanced)'
  BY GroundedStep, BalancedStep
<1>3. Grounded /\ Balanced => TypeOK
  <2> SUFFICES ASSUME Grounded, Balanced PROVE TypeOK
    OBVIOUS
  <2>1. /\ Cardinality(In("begin")) \in Nat /\ Cardinality(In("gone")) \in Nat
        /\ Cardinality(In("gone")) <= Cardinality(Clients) /\ Cardinality(Clients) \in Nat
    BY Finite DEF In
  <2>2. accepts \in 0..(Cardinality(Clients) + 1)
    BY <2>1 DEF Balanced, Grounded, Typed
  <2> QED BY <2>2 DEF TypeOK, Grounded, Typed
<1> QED BY <1>1, <1>2, <1>3, PTL DEF Spec

-----------------------------------------------------------------------------
(* The listener: as long as the process lives, an accept is pending or a   *)
(* callback is about to begin one.                                         *)
LEMMA DeafStep == ASSUME Grounded, NeverDeaf, [Next]_vars PROVE NeverDeaf'
<1> USE DashboardHostAssumption DEF Threads
<1>0. accepts \in Nat /\ accepts' \in Nat /\ at \in [Threads -> Places]
  BY GroundedStep DEF Grounded, Typed
<1> SUFFICES ASSUME alive', ~(accepts' > 0) PROVE \E d \in Clients : at'[d] = "begin"
  BY DEF NeverDeaf
\* What a step must not disturb.
<1>a. ASSUME alive, accepts' >= accepts, \A d \in Clients : at[d] = "begin" => at'[d] = "begin"
      PROVE  \E d \in Clients : at'[d] = "begin"
  <2>1. ~(accepts > 0)
    BY <1>0, <1>a
  <2> QED BY <1>a, <2>1 DEF NeverDeaf
<1>1. CASE UNCHANGED vars
  <2>1. alive /\ accepts' = accepts /\ at' = at
    BY <1>1, Zenon DEF vars, hostVars
  <2> QED BY <1>0, <1>a, <2>1
<1>2. ASSUME NEW c \in Clients, AcceptCompletes(c) PROVE at'[c] = "begin"
  BY <1>0, <1>2 DEF AcceptCompletes, Goto
<1>3. ASSUME NEW c \in Clients, BeginAccept(c) PROVE FALSE
  BY <1>0, <1>3 DEF BeginAccept
<1>4. ASSUME NEW c \in Clients,
             \/ EndAccept(c) \/ ReadToAdd(c) \/ Add(c) \/ Listen(c) \/ Disconnect(c)
             \/ DisposeWorkspace(c) \/ AssignWorkspace(c) \/ LoadSolution(c) \/ Message(c)
      PROVE  \E d \in Clients : at'[d] = "begin"
  <2>1. alive
    BY <1>4, Zenon DEF Message, EndAccept, ReadToAdd, Add, Listen, Disconnect, DisposeWorkspace,
       AssignWorkspace, LoadSolution, ReceiveOther, ReceiveQuit, ReceiveProjectInfo, Goto
  <2>2. accepts' = accepts \/ accepts' = accepts + 1
    BY <1>4 DEF Message, EndAccept, ReadToAdd, Add, Listen, Disconnect, DisposeWorkspace,
       AssignWorkspace, LoadSolution, ReceiveOther, ReceiveQuit, ReceiveProjectInfo, hostVars
  <2>3. at[c] # "begin" /\ \A d \in Clients \ {c} : at'[d] = at[d]
    BY <1>0, <1>4 DEF Message, EndAccept, ReadToAdd, Add, Listen, Disconnect, DisposeWorkspace,
       AssignWorkspace, LoadSolution, ReceiveOther, ReceiveQuit, ReceiveProjectInfo, Goto
  <2>4. accepts' >= accepts
    BY <1>0, <2>2
  <2> QED BY <1>a, <2>1, <2>3, <2>4
<1>5. ASSUME NEW c \in Clients, Connect(c) \/ Close(c) \/ LoadLater(c)
      PROVE  \E d \in Clients : at'[d] = "begin"
  <2>1. alive /\ accepts' = accepts /\ at' = at
    BY <1>5, Zenon DEF Connect, Close, LoadLater, hostVars
  <2> QED BY <1>0, <1>a, <2>1
<1>6. ASSUME NEW b \in Broadcasts, StartBroadcast(b) \/ Broadcasting(b)
      PROVE  \E d \in Clients : at'[d] = "begin"
  <2>1. alive
    BY <1>6, Zenon DEF StartBroadcast, Broadcasting, NextClient, ReadToRemove, Chain, Link,
       Filter, Remove, EndBroadcast, Goto
  <2>2. accepts' = accepts /\ \A d \in Clients : at'[d] = at[d]
    BY <1>0, <1>6 DEF StartBroadcast, Broadcasting, NextClient, ReadToRemove, Chain, Link,
       Filter, Remove, EndBroadcast, Goto, hostVars
  <2> QED BY <1>0, <1>a, <2>1, <2>2
<1>7. ASSUME NEW b \in Broadcasts, NEW c \in Clients, RunSend(b, c)
      PROVE  \E d \in Clients : at'[d] = "begin"
  <2>1. alive /\ accepts' = accepts /\ at' = at
    BY <1>7, Zenon DEF RunSend, hostVars
  <2> QED BY <1>0, <1>a, <2>1
<1> QED BY <1>1, <1>2, <1>3, <1>4, <1>5, <1>6, <1>7 DEF Next, Callback

(* No broken connection, whichever step of its acceptance it breaks in,    *)
(* ends accepting: AcceptClient begins the next accept before anything can *)
(* throw.                                                                  *)
THEOREM ListenerSafe == Spec => []NeverDeaf
<1>1. Init => Grounded /\ NeverDeaf
  BY InitGrounded DEF Init, NeverDeaf
<1>2. Grounded /\ NeverDeaf /\ [Next]_vars => (Grounded /\ NeverDeaf)'
  BY GroundedStep, DeafStep
<1> QED BY <1>1, <1>2, PTL DEF Spec

-----------------------------------------------------------------------------
(* A workspace exists once its connection has gone past the assignment, and *)
(* only then can it be the current one or be disposed.                      *)
Made(w) == w \in informed /\ at[w] \notin {"create", "assign"}
Existing ==
  /\ DOMAIN at = Threads
  /\ informed \subseteq Clients
  /\ \A c \in Clients : at[c] \in Handling => c \in informed
  /\ \A c \in informed : at[c] \notin {"idle"} \cup Accepting
  /\ disposed \subseteq {c \in Clients : Made(c)}
  /\ workspace # None => workspace \in Clients /\ Made(workspace)

CurrentInv == Existing /\ WorkspaceUsable

LEMMA CurrentStep == ASSUME CurrentInv, [Next]_vars PROVE CurrentInv'
<1> USE DashboardHostAssumption DEF Threads, Made, Handling, Accepting
<1>1. CASE UNCHANGED vars
  BY <1>1 DEF CurrentInv, Existing, WorkspaceUsable, vars, workspaceVars
<1>2. ASSUME NEW c \in Clients,
             \/ AcceptCompletes(c) \/ BeginAccept(c) \/ EndAccept(c) \/ ReadToAdd(c)
             \/ Add(c) \/ Listen(c) \/ Disconnect(c) \/ ReceiveOther(c) \/ ReceiveQuit(c)
             \/ LoadSolution(c)
      PROVE  CurrentInv'
  <2>1. /\ UNCHANGED <<workspace, disposed, informed>>
        /\ at' = [at EXCEPT ![c] = at'[c]]
        /\ at[c] \notin {"create", "assign"} /\ at'[c] \notin {"create", "assign", "load"}
        /\ at'[c] \in {"idle"} \cup Accepting => at[c] \in {"idle"} \cup Accepting
    BY <1>2 DEF AcceptCompletes, BeginAccept, EndAccept, ReadToAdd, Add, Listen, Disconnect,
       ReceiveOther, ReceiveQuit, LoadSolution, Goto, workspaceVars, CurrentInv, Existing
  <2>2. Existing'
    BY <2>1 DEF CurrentInv, Existing
  <2> QED BY <2>1, <2>2 DEF CurrentInv, Existing, WorkspaceUsable
<1>3. ASSUME NEW c \in Clients, ReceiveProjectInfo(c) PROVE CurrentInv'
  <2>1. /\ UNCHANGED <<workspace, disposed>> /\ informed' = informed \cup {c}
        /\ c \notin informed /\ at[c] = "receiving" /\ at' = [at EXCEPT ![c] = "create"]
    BY <1>3 DEF ReceiveProjectInfo, Goto
  <2>2. Existing'
    BY <2>1 DEF CurrentInv, Existing
  <2> QED BY <2>1, <2>2 DEF CurrentInv, Existing, WorkspaceUsable
<1>4. ASSUME NEW c \in Clients, DisposeWorkspace(c) PROVE CurrentInv'
  <2>1. /\ UNCHANGED <<workspace, informed>> /\ disposed' = disposed \cup ({workspace} \ {None})
        /\ at[c] = "create" /\ at' = [at EXCEPT ![c] = "assign"]
    BY <1>4 DEF DisposeWorkspace, Goto
  <2>2. at'[c] = "assign" /\ Existing'
    BY <2>1 DEF CurrentInv, Existing
  <2> QED BY <2>2 DEF CurrentInv, WorkspaceUsable
<1>5. ASSUME NEW c \in Clients, AssignWorkspace(c) PROVE CurrentInv'
  <2>1. /\ UNCHANGED <<disposed, informed>> /\ workspace' = c
        /\ at[c] = "assign" /\ at' = [at EXCEPT ![c] = "load"]
    BY <1>5 DEF AssignWorkspace, Goto
  <2>2. c \notin disposed
    BY <2>1 DEF CurrentInv, Existing
  <2>3. Existing'
    BY <2>1 DEF CurrentInv, Existing
  <2> QED BY <2>1, <2>2, <2>3 DEF CurrentInv, WorkspaceUsable
<1>6. ASSUME NEW c \in Clients, Connect(c) \/ Close(c) \/ LoadLater(c) PROVE CurrentInv'
  BY <1>6 DEF Connect, Close, LoadLater, CurrentInv, Existing, WorkspaceUsable, workspaceVars
<1>7. ASSUME NEW b \in Broadcasts, StartBroadcast(b) \/ Broadcasting(b) PROVE CurrentInv'
  <2>1. UNCHANGED workspaceVars /\ DOMAIN at' = Threads /\ \A d \in Clients : at'[d] = at[d]
    BY <1>7 DEF StartBroadcast, Broadcasting, NextClient, ReadToRemove, Chain, Link,
       Filter, Remove, EndBroadcast, Goto, CurrentInv, Existing, workspaceVars
  <2> QED BY <2>1 DEF CurrentInv, Existing, WorkspaceUsable, workspaceVars
<1>8. ASSUME NEW b \in Broadcasts, NEW c \in Clients, RunSend(b, c) PROVE CurrentInv'
  BY <1>8 DEF RunSend, CurrentInv, Existing, WorkspaceUsable, workspaceVars
<1> QED BY <1>1, <1>2, <1>3, <1>4, <1>5, <1>6, <1>7, <1>8 DEF Next, Callback, Message

(* However many connections send their project info at once, the current   *)
(* workspace is disposed only while somebody is about to replace it:       *)
(* whoever disposes it has read it, and assigns its own after it.          *)
THEOREM WorkspaceSafe == Spec => []WorkspaceUsable
<1>1. Init => CurrentInv
  BY DEF Init, CurrentInv, Existing, WorkspaceUsable, Made, Handling, Accepting, Threads
<1>2. CurrentInv /\ [Next]_vars => CurrentInv'
  BY CurrentStep
<1>3. CurrentInv => WorkspaceUsable
  BY DEF CurrentInv
<1> QED BY <1>1, <1>2, <1>3, PTL DEF Spec

-----------------------------------------------------------------------------
(* The list of clients.  Nobody removes a client while no socket has failed, *)
(* and while no two connections are added at once whoever has read the list *)
(* to add one has read the list that there still is.                        *)
Listable ==
  /\ \A b \in Broadcasts : at[b] \in {"filter", "remove"} => todo[b] \subseteq broken
  /\ \A b \in Broadcasts : at[b] = "remove" => broken # {}
  /\ ~overlapped => \A c, d \in Clients : at[c] = "added" /\ at[d] = "added" => c = d
  /\ (broken = {} /\ ~overlapped) => \A c \in Clients : at[c] = "added" => copy[c] = clients
  /\ NoClientLost

Present == {"listen", "receiving"} \cup Handling

\* What most steps leave alone.
LEMMA ListKept ==
  ASSUME Listable, UNCHANGED <<clients, overlapped>>, broken \subseteq broken',
         \A c \in Clients : at[c] = "added" <=> at'[c] = "added",
         \A c \in Clients : at'[c] = "added" => copy'[c] = copy[c],
         \A c \in Clients : at'[c] \in Present => at[c] \in Present,
         \A b \in Broadcasts : at'[b] \in {"filter", "remove"} =>
           \/ at[b] \in {"filter", "remove"} /\ todo'[b] = todo[b]
           \/ todo'[b] \subseteq broken',
         \A b \in Broadcasts : at'[b] = "remove" => at[b] = "remove" \/ broken' # {}
  PROVE  Listable'
<1>1. broken' = {} => broken = {}
  OBVIOUS
<1>2. NoClientLost'
  BY <1>1 DEF Listable, NoClientLost, Present
<1> QED BY <1>1, <1>2 DEF Listable

LEMMA ListStep == ASSUME Grounded, Listable, [Next]_vars PROVE Listable'
<1> USE DashboardHostAssumption DEF Threads
<1>0. /\ at \in [Threads -> Places] /\ clients \subseteq Clients /\ copy \in [Threads -> SUBSET Clients]
      /\ todo \in [Broadcasts -> SUBSET Clients]
  BY DEF Grounded, Typed
<1>1. ASSUME \/ UNCHANGED vars
             \/ \E c \in Clients : Connect(c) \/ Close(c) \/ LoadLater(c)
      PROVE  Listable'
  <2>1. UNCHANGED <<at, clients, overlapped, copy, todo, broken>>
    BY <1>1 DEF Connect, Close, LoadLater, vars, hostVars, sendVars, historyVars
  <2> QED BY <2>1, ListKept
<1>2. ASSUME NEW b \in Broadcasts, NEW c \in Clients, RunSend(b, c) PROVE Listable'
  <2>1. UNCHANGED <<at, clients, overlapped, copy, todo>> /\ broken \subseteq broken'
    BY <1>2 DEF RunSend, BeginSend, hostVars, historyVars
  <2> QED BY <2>1, ListKept
<1>3. ASSUME NEW c \in Clients,
             \/ AcceptCompletes(c) \/ BeginAccept(c) \/ EndAccept(c) \/ Listen(c) \/ Message(c)
             \/ Disconnect(c) \/ DisposeWorkspace(c) \/ AssignWorkspace(c) \/ LoadSolution(c)
      PROVE  Listable'
  <2>1. UNCHANGED <<clients, overlapped, copy, todo>> /\ broken \subseteq broken'
    BY <1>3 DEF Message, AcceptCompletes, BeginAccept, EndAccept, Listen, ReceiveOther, ReceiveQuit,
       ReceiveProjectInfo, Disconnect, DisposeWorkspace, AssignWorkspace, LoadSolution,
       hostVars, sendVars, historyVars
  <2>2. /\ at' = [at EXCEPT ![c] = at'[c]] /\ at[c] # "added" /\ at'[c] # "added"
        /\ at'[c] \in Present => at[c] \in Present
    BY <1>0, <1>3 DEF Message, AcceptCompletes, BeginAccept, EndAccept, Listen, ReceiveOther, ReceiveQuit,
       ReceiveProjectInfo, Disconnect, DisposeWorkspace, AssignWorkspace, LoadSolution, Goto,
       Present, Handling
  <2>3. /\ \A d \in Clients \ {c} : at'[d] = at[d]
        /\ \A b \in Broadcasts : at'[b] = at[b]
    BY <1>0, <2>2
  <2> QED BY <2>1, <2>2, <2>3, ListKept
<1>4. ASSUME NEW c \in Clients, ReadToAdd(c) PROVE Listable'
  <2>1. /\ at[c] = "add" /\ at' = [at EXCEPT ![c] = "added"] /\ copy' = [copy EXCEPT ![c] = clients]
        /\ overlapped' = (overlapped \/ \E d \in Clients : at[d] = "added")
        /\ UNCHANGED <<clients, broken, todo>>
    BY <1>4 DEF ReadToAdd, Goto, sendVars
  <2>2. \A b \in Broadcasts : at'[b] = at[b]
    BY <1>0, <2>1
  <2>3. at'[c] = "added" /\ copy'[c] = clients /\ \A d \in Clients \ {c} : at'[d] = at[d] /\ copy'[d] = copy[d]
    BY <1>0, <2>1
  <2>4. ~overlapped' => ~overlapped /\ \A d \in Clients : at[d] # "added"
    BY <2>1
  <2>5. NoClientLost'
    BY <2>1, <2>3, <2>4 DEF Listable, NoClientLost, Handling
  <2> QED BY <2>1, <2>2, <2>3, <2>4, <2>5 DEF Listable
<1>5. ASSUME NEW c \in Clients, Add(c) PROVE Listable'
  <2>1. /\ at[c] = "added" /\ at' = [at EXCEPT ![c] = "listen"]
        /\ clients' = copy[c] \cup {c} /\ copy' = [copy EXCEPT ![c] = {}]
        /\ UNCHANGED <<overlapped, broken, todo>>
    BY <1>5 DEF Add, Goto, sendVars, historyVars
  <2>2. \A b \in Broadcasts : at'[b] = at[b]
    BY <1>0, <2>1
  <2>3. at'[c] = "listen" /\ \A d \in Clients \ {c} : at'[d] = at[d] /\ copy'[d] = copy[d]
    BY <1>0, <2>1
  <2>4. (broken = {} /\ ~overlapped) => clients' = clients \cup {c}
    BY <2>1 DEF Listable
  <2>5. NoClientLost'
    BY <2>1, <2>3, <2>4 DEF Listable, NoClientLost
  <2>6. ~overlapped => \A d \in Clients \ {c} : at[d] # "added"
    BY <2>1 DEF Listable
  <2> QED BY <2>1, <2>2, <2>3, <2>5, <2>6 DEF Listable
<1>6. ASSUME NEW b \in Broadcasts, StartBroadcast(b) \/ Broadcasting(b), ~Remove(b) PROVE Listable'
  <2>1. UNCHANGED <<clients, overlapped, broken>>
    BY <1>6 DEF StartBroadcast, Broadcasting, NextClient, ReadToRemove, Chain, Link,
       Filter, EndBroadcast, hostVars, historyVars
  <2>2. /\ \A x \in Threads \ {b} : at'[x] = at[x] /\ copy'[x] = copy[x]
        /\ \A d \in Broadcasts \ {b} : todo'[d] = todo[d]
    BY <1>0, <1>6 DEF StartBroadcast, Broadcasting, NextClient, ReadToRemove, Chain, Link,
       Filter, EndBroadcast, Goto, hostVars, sendVars
  <2>3. at'[b] \in {"filter", "remove"} => todo'[b] \subseteq broken
    BY <1>0, <1>6 DEF StartBroadcast, Broadcasting, NextClient, ReadToRemove, Chain, Link,
       Filter, EndBroadcast, Goto, Listable
  <2>4. at'[b] = "remove" => broken # {}
    BY <1>0, <1>6 DEF StartBroadcast, Broadcasting, NextClient, ReadToRemove, Chain, Link,
       Filter, EndBroadcast, Goto, Listable
  <2>5. \A c \in Clients : c \in Threads \ {b}
    OBVIOUS
  <2> QED BY <2>1, <2>2, <2>3, <2>4, <2>5, ListKept
<1>7. ASSUME NEW b \in Broadcasts, Remove(b) PROVE Listable'
  <2>1. /\ at[b] = "remove" /\ at' = [at EXCEPT ![b] = "filter"] /\ copy' = [copy EXCEPT ![b] = {}]
        /\ UNCHANGED <<overlapped, broken, todo>>
    BY <1>7 DEF Remove, Goto, historyVars
  <2>2. broken' # {}
    BY <2>1 DEF Listable
  <2>3. at'[b] = "filter" /\ \A x \in Threads \ {b} : at'[x] = at[x]
    BY <1>0, <2>1
  <2> QED BY <2>1, <2>2, <2>3 DEF Listable, NoClientLost
<1> QED
  BY <1>1, <1>2, <1>3, <1>4, <1>5, <1>6, <1>7 DEF Next, Callback, Broadcasting

(* However many broadcasts run while connections are accepted, a client     *)
(* that is received from is in the list: the list is replaced unread only   *)
(* by two that are added at once or by one that is being removed.           *)
THEOREM ListSafe == Spec => []NoClientLost
<1>1. Init => Listable
  <2> SUFFICES ASSUME Init PROVE Listable
    OBVIOUS
  <2>1. \A t \in Threads : at[t] = "idle"
    BY DEF Init
  <2> QED BY <2>1 DEF Threads, Listable, NoClientLost, Handling
<1>2. Grounded /\ Listable /\ [Next]_vars => (Grounded /\ Listable)'
  BY GroundedStep, ListStep
<1>3. Listable => NoClientLost
  BY DEF Listable
<1> QED BY InitGrounded, <1>1, <1>2, <1>3, PTL DEF Spec

-----------------------------------------------------------------------------
(* The file watchers.  While project infos come one after another at most   *)
(* one of them is being handled or waits for its solution, nobody watches   *)
(* from the disposal of the old workspace until that one is through, and it *)
(* is the current workspace that gets its watcher.                          *)
Busy(c) == at[c] \in Handling \/ loading[c] # None

InTurn ==
  ~disturbed =>
    /\ \A c, d \in Clients : Busy(c) /\ Busy(d) => c = d
    /\ \A c \in Clients : loading[c] # None =>
         at[c] \notin Handling /\ loading[c] = workspace /\ watching = {}
    /\ \A c \in Clients : at[c] = "assign" => watching = {}
    /\ \A c \in Clients : at[c] = "load" => watching = {} /\ workspace = c
    /\ workspace = None => watching = {}
    /\ workspace # None => watching \subseteq {watcher[workspace]}

\* Callbacks that have to do with no workspace, and broadcasts.
LEMMA TurnKept ==
  ASSUME InTurn, UNCHANGED <<workspace, loading, watcher, watching, disturbed>>,
         \A c \in Clients : at'[c] = at[c] \/ (at[c] \notin Handling /\ at'[c] \notin Handling)
  PROVE  InTurn'
  BY DEF InTurn, Busy, Handling

LEMMA TurnStep == ASSUME Grounded, InTurn, [Next]_vars PROVE InTurn'
<1> USE DashboardHostAssumption DEF Threads
<1>0. /\ at \in [Threads -> Places] /\ watching \subseteq Clients /\ workspace \in Clients \cup {None}
      /\ loading \in [Clients -> Clients \cup {None}] /\ watcher \in [Clients -> Clients \cup {None}]
  BY DEF Grounded, Typed
<1>1. ASSUME \/ UNCHANGED vars
             \/ \E c \in Clients : Connect(c) \/ Close(c)
             \/ \E b \in Broadcasts, c \in Clients : RunSend(b, c)
      PROVE  InTurn'
  <2>1. UNCHANGED <<at, workspace, loading, watcher, watching, disturbed>>
    BY <1>1 DEF Connect, Close, RunSend, vars, workspaceVars, historyVars
  <2> QED BY <2>1, TurnKept
<1>2. ASSUME NEW c \in Clients,
             \/ AcceptCompletes(c) \/ BeginAccept(c) \/ EndAccept(c) \/ ReadToAdd(c) \/ Add(c)
             \/ Listen(c) \/ Disconnect(c) \/ ReceiveOther(c) \/ ReceiveQuit(c)
      PROVE  InTurn'
  <2>1. UNCHANGED <<workspace, loading, watcher, watching, disturbed>>
    BY <1>2 DEF AcceptCompletes, BeginAccept, EndAccept, ReadToAdd, Add, Listen, Disconnect,
       ReceiveOther, ReceiveQuit, workspaceVars, historyVars
  <2>2. \A d \in Clients : at'[d] = at[d] \/ (at[d] \notin Handling /\ at'[d] \notin Handling)
    BY <1>0, <1>2 DEF AcceptCompletes, BeginAccept, EndAccept, ReadToAdd, Add, Listen, Disconnect,
       ReceiveOther, ReceiveQuit, Goto, Handling
  <2> QED BY <2>1, <2>2, TurnKept
<1>3. ASSUME NEW b \in Broadcasts, StartBroadcast(b) \/ Broadcasting(b) PROVE InTurn'
  <2>1. UNCHANGED <<workspace, loading, watcher, watching, disturbed>>
    BY <1>3 DEF StartBroadcast, Broadcasting, NextClient, ReadToRemove, Chain, Link,
       Filter, Remove, EndBroadcast, workspaceVars, historyVars
  <2>2. \A d \in Clients : at'[d] = at[d]
    BY <1>0, <1>3 DEF StartBroadcast, Broadcasting, NextClient, ReadToRemove, Chain, Link,
       Filter, Remove, EndBroadcast, Goto
  <2> QED BY <2>1, <2>2, TurnKept
<1>4. ASSUME NEW c \in Clients, ReceiveProjectInfo(c), ~disturbed' PROVE InTurn'
  <2>1. /\ at' = [at EXCEPT ![c] = "create"] /\ at[c] = "receiving"
        /\ ~disturbed /\ \A d \in Clients : ~Busy(d)
        /\ UNCHANGED <<workspace, loading, watcher, watching>>
    BY <1>4 DEF ReceiveProjectInfo, Goto, Busy
  <2>2. at'[c] = "create" /\ \A d \in Clients \ {c} : at'[d] = at[d]
    BY <1>0, <2>1
  <2> QED BY <2>1, <2>2 DEF InTurn, Busy, Handling
<1>5. ASSUME NEW c \in Clients, DisposeWorkspace(c), ~disturbed' PROVE InTurn'
  <2>1. /\ at[c] = "create" /\ at' = [at EXCEPT ![c] = "assign"] /\ ~disturbed
        /\ watching' = IF workspace = None THEN watching ELSE watching \ {watcher[workspace]}
        /\ UNCHANGED <<workspace, loading, watcher>>
    BY <1>5 DEF DisposeWorkspace, Goto, historyVars
  <2>2. at'[c] = "assign" /\ \A d \in Clients \ {c} : at'[d] = at[d]
    BY <1>0, <2>1
  <2>3. watching' = {}
    BY <2>1 DEF InTurn
  <2>4. \A d \in Clients \ {c} : ~Busy(d)
    BY <2>1 DEF InTurn, Busy, Handling
  <2> QED BY <2>1, <2>2, <2>3, <2>4 DEF InTurn, Busy, Handling
<1>6. ASSUME NEW c \in Clients, AssignWorkspace(c), ~disturbed' PROVE InTurn'
  <2>1. /\ at[c] = "assign" /\ at' = [at EXCEPT ![c] = "load"] /\ ~disturbed /\ workspace' = c
        /\ UNCHANGED <<loading, watcher, watching>>
    BY <1>6 DEF AssignWorkspace, Goto, historyVars
  <2>2. at'[c] = "load" /\ \A d \in Clients \ {c} : at'[d] = at[d]
    BY <1>0, <2>1
  <2>3. watching' = {} /\ loading[c] = None /\ \A d \in Clients \ {c} : ~Busy(d)
    BY <2>1 DEF InTurn, Busy, Handling
  <2> QED BY <2>1, <2>2, <2>3 DEF InTurn, Busy, Handling
<1>7. ASSUME NEW c \in Clients, LoadSolution(c), ~disturbed' PROVE InTurn'
  <2>1. /\ at[c] = "load" /\ at' = [at EXCEPT ![c] = "listen"] /\ ~disturbed /\ workspace' = workspace
    BY <1>7 DEF LoadSolution, Goto, historyVars
  <2>2. at'[c] = "listen" /\ \A d \in Clients \ {c} : at'[d] = at[d]
    BY <1>0, <2>1
  <2>3. /\ watching = {} /\ workspace = c /\ loading[c] = None
        /\ \A d \in Clients \ {c} : at[d] \notin Handling /\ loading[d] = None
    BY <2>1 DEF InTurn, Busy, Handling
  <2>4. CASE loading' = [loading EXCEPT ![c] = workspace] /\ UNCHANGED <<watcher, watching>>
    <3>1. loading'[c] = workspace /\ \A d \in Clients \ {c} : loading'[d] = None
      BY <1>0, <2>3, <2>4
    <3> QED BY <2>1, <2>2, <2>3, <2>4, <3>1 DEF InTurn, Busy, Handling
  <2>5. CASE /\ watcher' = [watcher EXCEPT ![workspace] = c]
             /\ watching' = watching \cup {c} /\ UNCHANGED loading
    <3>1. watcher'[workspace] = c
      BY <1>0, <2>3, <2>5
    <3> QED BY <2>1, <2>2, <2>3, <2>5, <3>1 DEF InTurn, Busy, Handling
  <2>6. CASE UNCHANGED <<loading, watcher, watching>>
    BY <2>1, <2>2, <2>3, <2>6 DEF InTurn, Busy, Handling
  <2> QED BY <1>7, <2>4, <2>5, <2>6 DEF LoadSolution
<1>8. ASSUME NEW c \in Clients, LoadLater(c), ~disturbed' PROVE InTurn'
  <2>1. /\ loading[c] # None /\ loading' = [loading EXCEPT ![c] = None]
        /\ \/ watcher' = [watcher EXCEPT ![loading[c]] = c] /\ watching' = watching \cup {c}
           \/ UNCHANGED <<watcher, watching>>
        /\ ~disturbed /\ UNCHANGED <<at, workspace>>
    BY <1>8 DEF LoadLater, historyVars
  <2>2. /\ watching = {} /\ loading[c] = workspace /\ at[c] \notin Handling
        /\ \A d \in Clients \ {c} : at[d] \notin Handling /\ loading[d] = None
    BY <2>1 DEF InTurn, Busy
  <2>3. /\ workspace # None
        /\ watching' = {} \/ (watcher'[workspace] = c /\ watching' = {c})
    BY <1>0, <2>1, <2>2
  <2>4. \A d \in Clients : loading'[d] = None /\ at'[d] \notin Handling
    BY <1>0, <2>1, <2>2
  <2> QED BY <2>1, <2>2, <2>3, <2>4 DEF InTurn, Busy, Handling
<1>9. CASE disturbed'
  BY <1>9 DEF InTurn
<1> QED
  BY <1>1, <1>2, <1>3, <1>4, <1>5, <1>6, <1>7, <1>8, <1>9 DEF Next, Callback, Message

(* While project infos come one after another no two file watchers are alive, *)
(* even if the solutions are only loaded when a locked file has become free.  *)
THEOREM OneWatcher == Spec => []WatchesOnce
<1>1. Init => InTurn
  <2> SUFFICES ASSUME Init PROVE InTurn
    OBVIOUS
  <2>1. \A c \in Clients : at[c] = "idle" /\ loading[c] = None
    BY DEF Init, Threads
  <2> QED BY <2>1, DashboardHostAssumption DEF Init, InTurn, Busy, Handling
<1>2. Grounded /\ InTurn /\ [Next]_vars => (Grounded /\ InTurn)'
  BY GroundedStep, TurnStep
<1>3. Grounded /\ InTurn => WatchesOnce
  <2> SUFFICES ASSUME InTurn, ~disturbed PROVE Cardinality(watching) <= 1
    BY DEF WatchesOnce
  <2>1. PICK w : watching \subseteq {w}
    BY DEF InTurn
  <2>2. IsFiniteSet({w}) /\ Cardinality({w}) = 1
    BY FS_Singleton
  <2>3. Cardinality(watching) <= Cardinality({w})
    BY <2>1, <2>2, FS_Subset
  <2> QED BY <2>2, <2>3
<1> QED BY InitGrounded, <1>1, <1>2, <1>3, PTL DEF Spec

-----------------------------------------------------------------------------
(* The order of the broadcasts.  The tasks of a client that have not run    *)
(* are those of the last broadcasts chained to it, each chained to the task *)
(* before it; _sendQueue is the last of them, unless a send has chained its *)
(* own and not remembered it yet.                                           *)
SentTo(b, c) == \E i \in 1..Len(sent[c]) : sent[c][i] = b

Linking(b, c) == at[b] = "linked" /\ target[b] = c

(* A broadcast is sent to a client once.                                    *)
Once ==
  /\ \A b \in Broadcasts, c \in Clients : at[b] = "idle" => ~SentTo(b, c)
  /\ \A b \in Broadcasts, c \in Clients : at[b] \in Sending /\ c \in todo[b] => ~SentTo(b, c)
  /\ \A b \in Broadcasts : at[b] = "link" => ~SentTo(b, target[b]) /\ target[b] \notin todo[b]
  /\ \A c \in Clients : \A i, j \in 1..Len(sent[c]) : sent[c][i] = sent[c][j] => i = j

(* The tasks of a client to which no two broadcasts were sent at once.      *)
Queue(c) ==
  /\ Len(begun[c]) <= Len(sent[c])
  /\ \A i \in 1..Len(begun[c]) : begun[c][i] = sent[c][i]
  /\ \A i \in 1..Len(sent[c]) : <<sent[c][i], c>> \in chained <=> i > Len(begun[c])
  /\ \A b \in Broadcasts : <<b, c>> \in chained => SentTo(b, c)
  /\ \A i \in 1..Len(sent[c]) : i > Len(begun[c]) + 1 => after[sent[c][i]][c] = sent[c][i - 1]

Last(c) ==
  /\ \A b, d \in Broadcasts : Linking(b, c) /\ Linking(d, c) => b = d
  /\ \A b \in Broadcasts : Linking(b, c) => Len(sent[c]) > 0 /\ sent[c][Len(sent[c])] = b
  /\ (\A b \in Broadcasts : ~Linking(b, c)) =>
       tail[c] = IF Len(sent[c]) = 0 THEN None ELSE sent[c][Len(sent[c])]

Ordered == \A c \in Clients \ crossed : Queue(c) /\ Last(c)

LEMMA OrderKept ==
  ASSUME Once, Ordered, UNCHANGED <<sent, begun, chained, after, tail, crossed>>,
         \A b \in Broadcasts : \/ at'[b] = at[b] /\ todo'[b] = todo[b] /\ target'[b] = target[b]
                               \/ /\ at[b] \notin {"link", "linked"} /\ at'[b] \notin {"idle", "link", "linked"}
                                  /\ at'[b] \in Sending => at[b] = "idle"
  PROVE  Once' /\ Ordered'
<1>1. Once'
  BY DEF Once, SentTo, Sending
<1>2. \A b \in Broadcasts, c \in Clients : Linking(b, c) <=> Linking(b, c)'
  BY DEF Linking
<1>3. ASSUME NEW c \in Clients \ crossed' PROVE Queue(c)' /\ Last(c)'
  <2>1. c \notin crossed
    BY <1>3
  <2> QED BY <1>2, <2>1 DEF Ordered, Queue, Last, SentTo
<1> QED BY <1>1, <1>3 DEF Ordered

LEMMA NextClientOrder ==
  ASSUME Grounded, Once, Ordered, NEW b \in Broadcasts, NEW c \in Clients, NextClient(b, c)
  PROVE  Once' /\ Ordered'
<1>0. at \in [Threads -> Places] /\ todo \in [Broadcasts -> SUBSET Clients] /\ b \in Threads
      /\ target \in [Broadcasts -> Clients \cup {None}]
  BY DEF Grounded, Typed, Threads
<1>1. /\ at[b] = "each" /\ at' = [at EXCEPT ![b] = "link"] /\ c \in todo[b]
      /\ todo' = [todo EXCEPT ![b] = todo[b] \ {c}] /\ target' = [target EXCEPT ![b] = c]
      /\ UNCHANGED <<sent, begun, chained, after, tail, crossed>>
  BY DEF NextClient, Goto, historyVars
<1>2. /\ at'[b] = "link" /\ todo'[b] = todo[b] \ {c} /\ target'[b] = c
      /\ \A d \in Broadcasts \ {b} : at'[d] = at[d] /\ todo'[d] = todo[d] /\ target'[d] = target[d]
  BY <1>0, <1>1 DEF Threads
<1>3. Once'
  <2>1. \A d \in Broadcasts, e \in Clients : SentTo(d, e)' <=> SentTo(d, e)
    BY <1>1 DEF SentTo
  <2>2. \A d \in Broadcasts : /\ at'[d] = "idle" => at[d] = "idle"
                              /\ at'[d] \in Sending => at[d] \in Sending
                              /\ at'[d] = "link" => d = b \/ at[d] = "link"
                              /\ todo'[d] \subseteq todo[d]
    BY <1>1, <1>2 DEF Sending
  <2>3. \A d \in Broadcasts : at[d] = "link" => target[d] \in Clients
    BY DEF Grounded, Aimed
  <2>4. ~SentTo(b, c)
    BY <1>1 DEF Once, Sending
  <2>5. ASSUME NEW d \in Broadcasts, at'[d] = "link"
        PROVE  target'[d] \notin todo'[d] /\ \A i \in 1..Len(sent[target'[d]]) : sent[target'[d]][i] # d
    <3>1. CASE d = b
      BY <1>2, <2>4, <3>1 DEF SentTo
    <3>2. CASE d # b
      BY <1>2, <2>5, <3>2 DEF Once, SentTo
    <3> QED BY <3>1, <3>2
  <2>6. (\A d \in Broadcasts : at[d] = "link" => ~SentTo(d, target[d]) /\ target[d] \notin todo[d])'
    BY <1>1, <2>5 DEF SentTo
  <2>7. (\A e \in Clients : \A i, j \in 1..Len(sent[e]) : sent[e][i] = sent[e][j] => i = j)'
    BY <1>1 DEF Once
  <2>8. (\A d \in Broadcasts, e \in Clients : at[d] = "idle" => ~SentTo(d, e))'
    BY <2>1, <2>2 DEF Once
  <2>9. (\A d \in Broadcasts, e \in Clients : at[d] \in Sending /\ e \in todo[d] => ~SentTo(d, e))'
    BY <2>1, <2>2 DEF Once
  <2> QED BY <2>6, <2>7, <2>8, <2>9 DEF Once
<1>4. \A d \in Broadcasts, e \in Clients : Linking(d, e) <=> Linking(d, e)'
  BY <1>1, <1>2 DEF Linking
<1>5. Ordered'
  BY <1>1, <1>4 DEF Ordered, Queue, Last, SentTo
<1> QED BY <1>3, <1>5

LEMMA LinkOrder ==
  ASSUME Grounded, Once, Ordered, NEW b \in Broadcasts, Link(b)
  PROVE  Once' /\ Ordered'
<1>0. at \in [Threads -> Places] /\ b \in Threads /\ target \in [Broadcasts -> Clients \cup {None}]
      /\ tail \in [Clients -> Broadcasts \cup {None}] /\ None \notin Clients
  BY DashboardHostAssumption DEF Grounded, Typed, Threads
<1>1. at[b] = "linked" /\ at' = [at EXCEPT ![b] = "each"]
  BY DEF Link, Goto
<1>2. PICK c \in Clients : target[b] = c
  BY <1>1 DEF Grounded, Aimed
<1>3. /\ tail' = [tail EXCEPT ![c] = b] /\ target' = [target EXCEPT ![b] = None]
      /\ UNCHANGED <<todo, sent, begun, chained, after, crossed>>
  BY <1>2 DEF Link, historyVars
<1>4. /\ at'[b] = "each" /\ \A d \in Broadcasts \ {b} : at'[d] = at[d] /\ target'[d] = target[d]
      /\ tail'[c] = b /\ \A e \in Clients \ {c} : tail'[e] = tail[e]
  BY <1>0, <1>1, <1>2, <1>3 DEF Threads
<1>5. \A d \in Broadcasts, e \in Clients : SentTo(d, e)' <=> SentTo(d, e)
  BY <1>3 DEF SentTo
<1>6. Once'
  <2>1. \A d \in Broadcasts : /\ at'[d] = "idle" => at[d] = "idle"
                              /\ at'[d] \in Sending => at[d] \in Sending
                              /\ at'[d] = "link" => at[d] = "link" /\ target'[d] = target[d]
    BY <1>1, <1>4 DEF Sending
  <2>2. \A d \in Broadcasts : at[d] = "link" => target[d] \in Clients
    BY DEF Grounded, Aimed
  <2> QED BY <1>3, <1>5, <2>1, <2>2 DEF Once
<1>7. \A d \in Broadcasts, e \in Clients : Linking(d, e)' <=> (Linking(d, e) /\ d # b)
  BY <1>1, <1>4 DEF Linking
<1>8. Linking(b, c) /\ \A e \in Clients \ {c} : ~Linking(b, e)
  BY <1>1, <1>2 DEF Linking
<1>9. ASSUME NEW e \in Clients \ crossed' PROVE Queue(e)' /\ Last(e)'
  <2>1. Queue(e) /\ Last(e)
    BY <1>3, <1>9 DEF Ordered
  <2>2. Queue(e)'
    BY <1>3, <1>5, <2>1 DEF Queue
  <2>3. CASE e = c
    <3>1. \A d \in Broadcasts : ~Linking(d, c)'
      BY <1>7, <1>8, <2>1, <2>3 DEF Last
    <3>2. Len(sent[c]) > 0 /\ sent[c][Len(sent[c])] = b
      BY <1>8, <2>1, <2>3 DEF Last
    <3> QED BY <1>3, <1>4, <2>2, <2>3, <3>1, <3>2 DEF Last
  <2>4. CASE e # c
    <3>1. \A d \in Broadcasts : Linking(d, e)' <=> Linking(d, e)
      BY <1>7, <1>8, <2>4
    <3> QED BY <1>3, <1>4, <2>1, <2>2, <2>4, <3>1 DEF Last
  <2> QED BY <2>3, <2>4
<1> QED BY <1>6, <1>9 DEF Ordered

LEMMA Chained ==
  ASSUME NEW S \in Seq(Broadcasts), NEW b \in Broadcasts
  PROVE  /\ Append(S, b) \in Seq(Broadcasts) /\ Len(Append(S, b)) = Len(S) + 1 /\ Len(S) \in Nat
         /\ \A i \in 1..Len(S) : Append(S, b)[i] = S[i] /\ S[i] \in Broadcasts
         /\ Append(S, b)[Len(S) + 1] = b
  OBVIOUS

LEMMA ChainOrder ==
  ASSUME Grounded, Once, Ordered, NEW b \in Broadcasts, Chain(b)
  PROVE  Once' /\ Ordered'
<1>0. /\ at \in [Threads -> Places] /\ b \in Threads /\ after \in [Broadcasts -> [Clients -> Broadcasts \cup {None}]]
      /\ sent \in [Clients -> Seq(Broadcasts)] /\ begun \in [Clients -> Seq(Broadcasts)]
      /\ chained \subseteq Broadcasts \X Clients
  BY DEF Grounded, Typed, Threads
<1>1. at[b] = "link" /\ at' = [at EXCEPT ![b] = "linked"]
  BY DEF Chain, Goto
<1>2. PICK c \in Clients : target[b] = c
  BY <1>1 DEF Grounded, Aimed
<1>3. /\ after' = [after EXCEPT ![b][c] = tail[c]] /\ chained' = chained \cup {<<b, c>>}
      /\ sent' = [sent EXCEPT ![c] = Append(sent[c], b)]
      /\ crossed' = IF \E d \in Broadcasts : Linking(d, c) THEN crossed \cup {c} ELSE crossed
      /\ UNCHANGED <<todo, target, begun, tail>>
  BY <1>2 DEF Chain, Linking
<1>4. /\ at'[b] = "linked" /\ \A d \in Broadcasts \ {b} : at'[d] = at[d]
      /\ \A e \in Clients \ {c} : sent'[e] = sent[e]
      /\ after'[b][c] = tail[c]
      /\ \A d \in Broadcasts, e \in Clients : d # b \/ e # c => after'[d][e] = after[d][e]
  BY <1>0, <1>3, <1>2, <1>1 DEF Threads
<1>5. /\ Len(sent[c]) \in Nat /\ Len(sent'[c]) = Len(sent[c]) + 1 /\ sent'[c][Len(sent[c]) + 1] = b
      /\ \A i \in 1..Len(sent[c]) : sent'[c][i] = sent[c][i] /\ sent[c][i] \in Broadcasts
  <2>1. sent'[c] = Append(sent[c], b) /\ sent[c] \in Seq(Broadcasts)
    BY <1>0, <1>3, <1>2
  <2> QED BY <2>1, Chained
<1>6. ~SentTo(b, c) /\ c \notin todo[b]
  BY <1>2, <1>1 DEF Once
<1>7. \A d \in Broadcasts, e \in Clients : SentTo(d, e)' <=> (SentTo(d, e) \/ (d = b /\ e = c))
  <2>1. \A d \in Broadcasts : SentTo(d, c)' <=> (SentTo(d, c) \/ d = b)
    BY <1>5 DEF SentTo
  <2>2. \A d \in Broadcasts, e \in Clients \ {c} : SentTo(d, e)' <=> SentTo(d, e)
    BY <1>4 DEF SentTo
  <2> QED BY <1>2, <2>1, <2>2
<1>8. Once'
  <2>1. \A i, j \in 1..Len(sent'[c]) : sent'[c][i] = sent'[c][j] => i = j
    <3>1. \A i \in 1..Len(sent[c]) : sent[c][i] # b
      BY <1>6 DEF SentTo
    <3>2. \A i, j \in 1..Len(sent[c]) : sent[c][i] = sent[c][j] => i = j
      BY DEF Once
    <3>3. \A i \in 1..Len(sent'[c]) : i \in 1..Len(sent[c]) \/ i = Len(sent[c]) + 1
      BY <1>5
    <3> QED BY <1>5, <3>1, <3>2, <3>3
  <2>2. \A e \in Clients \ {c} : \A i, j \in 1..Len(sent'[e]) : sent'[e][i] = sent'[e][j] => i = j
    BY <1>4 DEF Once
  <2>3. \A d \in Broadcasts : /\ at'[d] = "idle" => at[d] = "idle" /\ d # b
                              /\ at'[d] \in Sending => at[d] \in Sending
                              /\ at'[d] = "link" => at[d] = "link" /\ d # b
    BY <1>4, <1>1 DEF Sending
  <2>4. \A d \in Broadcasts : at[d] = "link" => target[d] \in Clients
    BY DEF Grounded, Aimed
  <2>5. \A d \in Broadcasts, e \in Clients : at'[d] \in Sending /\ e \in todo'[d] => ~SentTo(d, e)'
    BY <1>3, <1>6, <1>7, <2>3 DEF Once
  <2>6. ASSUME NEW d \in Broadcasts, at'[d] = "link"
        PROVE  target[d] \notin todo[d] /\ \A i \in 1..Len(sent'[target[d]]) : sent'[target[d]][i] # d
    <3>1. at[d] = "link" /\ d # b /\ target[d] \in Clients /\ ~SentTo(d, target[d]) /\ target[d] \notin todo[d]
      BY <2>3, <2>4, <2>6 DEF Once
    <3>2. CASE target[d] = c
      BY <1>5, <3>1, <3>2 DEF SentTo
    <3>3. CASE target[d] # c
      BY <1>4, <3>1, <3>3 DEF SentTo
    <3> QED BY <3>1, <3>2, <3>3
  <2>7. (\A d \in Broadcasts : at[d] = "link" => ~SentTo(d, target[d]) /\ target[d] \notin todo[d])'
    BY <1>3, <2>6 DEF SentTo
  <2>8. (\A d \in Broadcasts, e \in Clients : at[d] = "idle" => ~SentTo(d, e))'
    BY <1>7, <2>3 DEF Once
  <2>9. (\A e \in Clients : \A i, j \in 1..Len(sent[e]) : sent[e][i] = sent[e][j] => i = j)'
    BY <1>2, <2>1, <2>2
  <2>10. (\A d \in Broadcasts, e \in Clients : at[d] \in Sending /\ e \in todo[d] => ~SentTo(d, e))'
    BY <2>5
  <2> QED BY <2>7, <2>8, <2>9, <2>10 DEF Once
<1>9. \A d \in Broadcasts, e \in Clients : Linking(d, e)' <=> (Linking(d, e) \/ (d = b /\ e = c))
  BY <1>3, <1>2, <1>4, <1>1 DEF Linking
<1>10. ASSUME NEW e \in Clients \ crossed', e # c PROVE Queue(e)' /\ Last(e)'
  <2>1. Queue(e) /\ Last(e)
    BY <1>3, <1>10 DEF Ordered
  <2>2. \A d \in Broadcasts : <<d, e>> \in chained' <=> <<d, e>> \in chained
    BY <1>3, <1>10
  <2>3. \A i \in 1..Len(sent[e]) : sent[e][i] \in Broadcasts
    BY <1>0
  <2>4. Queue(e)'
    BY <1>3, <1>4, <1>7, <1>10, <2>1, <2>2, <2>3 DEF Queue
  <2>5. Last(e)'
    BY <1>3, <1>4, <1>9, <1>10, <2>1 DEF Last
  <2> QED BY <2>4, <2>5
<1>11. ASSUME c \notin crossed' PROVE Queue(c)' /\ Last(c)'
  <2>1. Queue(c) /\ Last(c) /\ \A d \in Broadcasts : ~Linking(d, c)
    BY <1>3, <1>2, <1>11 DEF Ordered
  <2>2. tail[c] = IF Len(sent[c]) = 0 THEN None ELSE sent[c][Len(sent[c])]
    BY <2>1 DEF Last
  <2>3. \A d \in Broadcasts : <<d, c>> \in chained' <=> (<<d, c>> \in chained \/ d = b)
    BY <1>3, <1>2
  <2>4. Len(begun[c]) \in Nat /\ Len(begun[c]) <= Len(sent[c]) /\ begun'[c] = begun[c]
    BY <1>0, <1>3, <1>2, <2>1 DEF Queue
  <2>5. \A i \in 1..Len(sent[c]) : sent[c][i] # b
    BY <1>6 DEF SentTo
  <2>6. ASSUME NEW i \in 1..Len(sent'[c])
        PROVE  /\ <<sent'[c][i], c>> \in chained' <=> i > Len(begun'[c])
               /\ i > Len(begun'[c]) + 1 => after'[sent'[c][i]][c] = sent'[c][i - 1]
    <3>1. CASE i \in 1..Len(sent[c])
      <4>1. sent'[c][i] = sent[c][i] /\ sent[c][i] \in Broadcasts /\ sent[c][i] # b
        BY <1>5, <2>5, <3>1
      <4>2. <<sent[c][i], c>> \in chained' <=> i > Len(begun[c])
        BY <2>1, <2>3, <3>1, <4>1 DEF Queue
      <4>3. i > Len(begun[c]) + 1 => i - 1 \in 1..Len(sent[c]) /\ after[sent[c][i]][c] = sent[c][i - 1]
        BY <2>1, <2>4, <3>1 DEF Queue
      <4> QED BY <1>2, <1>4, <1>5, <2>4, <4>1, <4>2, <4>3
    <3>2. CASE i = Len(sent[c]) + 1
      <4>1. sent'[c][i] = b /\ i > Len(begun[c]) /\ i - 1 = Len(sent[c])
        BY <1>5, <2>4, <3>2
      <4>2. i > Len(begun[c]) + 1 => i - 1 \in 1..Len(sent[c]) /\ tail[c] = sent[c][i - 1]
        BY <1>5, <2>2, <2>4, <4>1
      <4> QED BY <1>4, <1>5, <2>3, <2>4, <4>1, <4>2
    <3> QED BY <1>5, <3>1, <3>2
  <2>7. \A i \in 1..Len(begun'[c]) : begun'[c][i] = sent'[c][i]
    BY <1>5, <2>1, <2>4 DEF Queue
  <2>8. \A d \in Broadcasts : <<d, c>> \in chained' => SentTo(d, c)'
    BY <1>2, <1>7, <2>1, <2>3 DEF Queue
  <2>9. Len(begun'[c]) <= Len(sent'[c])
    BY <1>5, <2>4
  <2>10. Queue(c)'
    BY <2>6, <2>7, <2>8, <2>9 DEF Queue
  <2>11. Last(c)'
    BY <1>2, <1>5, <1>9, <2>1 DEF Last
  <2> QED BY <2>10, <2>11
<1> QED BY <1>8, <1>10, <1>11 DEF Ordered

LEMMA RunOrder ==
  ASSUME Grounded, Once, Ordered, NEW b \in Broadcasts, NEW c \in Clients, RunSend(b, c)
  PROVE  Once' /\ Ordered'
<1>0. /\ after \in [Broadcasts -> [Clients -> Broadcasts \cup {None}]]
      /\ sent \in [Clients -> Seq(Broadcasts)] /\ begun \in [Clients -> Seq(Broadcasts)]
  BY DEF Grounded, Typed
<1>1. /\ <<b, c>> \in chained /\ <<after[b][c], c>> \notin chained
      /\ chained' = chained \ {<<b, c>>} /\ after' = [after EXCEPT ![b][c] = None]
      /\ UNCHANGED <<at, todo, target, sent, tail, crossed>>
      /\ begun' = [begun EXCEPT ![c] = Append(begun[c], b)]
  BY DEF RunSend, BeginSend, historyVars
<1>2. Once'
  BY <1>1 DEF Once, SentTo
<1>3. \A d \in Broadcasts, e \in Clients :
        /\ SentTo(d, e)' <=> SentTo(d, e)
        /\ Linking(d, e)' <=> Linking(d, e)
        /\ d # b \/ e # c => after'[d][e] = after[d][e]
  BY <1>0, <1>1 DEF SentTo, Linking
<1>4. ASSUME NEW e \in Clients \ crossed', e # c PROVE Queue(e)' /\ Last(e)'
  <2>1. Queue(e) /\ Last(e)
    BY <1>1, <1>4 DEF Ordered
  <2>2. begun'[e] = begun[e]
    BY <1>0, <1>1, <1>4
  <2>3. \A i \in 1..Len(sent[e]) : sent[e][i] \in Broadcasts
    BY <1>0
  <2>4. \A d \in Broadcasts : <<d, e>> \in chained' <=> <<d, e>> \in chained
    BY <1>1, <1>4
  <2> QED BY <1>1, <1>3, <1>4, <2>1, <2>2, <2>3, <2>4 DEF Queue, Last
<1>5. ASSUME c \notin crossed' PROVE Queue(c)' /\ Last(c)'
  <2>1. Queue(c) /\ Last(c)
    BY <1>1, <1>5 DEF Ordered
  <2>2. begun'[c] = Append(begun[c], b)
    BY <1>0, <1>1, <1>5
  <2>3. /\ Len(begun[c]) \in Nat /\ Len(begun'[c]) = Len(begun[c]) + 1 /\ begun'[c][Len(begun[c]) + 1] = b
        /\ \A i \in 1..Len(begun[c]) : begun'[c][i] = begun[c][i]
    BY <1>0, <2>2, Chained
  <2>4. PICK k \in 1..Len(sent[c]) : sent[c][k] = b
    BY <1>1, <2>1 DEF Queue, SentTo
  <2>5. Len(sent[c]) \in Nat /\ \A i \in 1..Len(sent[c]) : sent[c][i] \in Broadcasts
    BY <1>0
  <2>6. k > Len(begun[c])
    BY <1>1, <2>1, <2>4 DEF Queue
  <2>7. k = Len(begun[c]) + 1
    <3> SUFFICES ASSUME k > Len(begun[c]) + 1 PROVE FALSE
      BY <2>3, <2>5, <2>6
    <3>1. after[b][c] = sent[c][k - 1] /\ k - 1 \in 1..Len(sent[c]) /\ k - 1 > Len(begun[c])
      BY <2>1, <2>3, <2>4, <2>5 DEF Queue
    <3>2. <<sent[c][k - 1], c>> \in chained
      BY <2>1, <3>1 DEF Queue
    <3> QED BY <1>1, <3>1, <3>2
  <2>8. \A i \in 1..Len(sent[c]) : sent[c][i] = b <=> i = k
    BY <2>4 DEF Once
  <2>9. Len(begun'[c]) <= Len(sent'[c]) /\ \A i \in 1..Len(begun'[c]) : begun'[c][i] = sent'[c][i]
    BY <1>1, <2>1, <2>3, <2>4, <2>5, <2>7 DEF Queue
  <2>10. ASSUME NEW i \in 1..Len(sent[c])
         PROVE  /\ <<sent[c][i], c>> \in chained' <=> i > Len(begun'[c])
                /\ i > Len(begun'[c]) + 1 => after'[sent[c][i]][c] = sent[c][i - 1]
    <3>1. <<sent[c][i], c>> \in chained' <=> (<<sent[c][i], c>> \in chained /\ i # k)
      BY <1>1, <2>8
    <3>2. <<sent[c][i], c>> \in chained <=> i > Len(begun[c])
      BY <2>1 DEF Queue
    <3>3. i # k => after'[sent[c][i]][c] = after[sent[c][i]][c]
      BY <1>3, <2>5, <2>8
    <3>4. i > Len(begun[c]) + 1 => after[sent[c][i]][c] = sent[c][i - 1]
      BY <2>1 DEF Queue
    <3> QED BY <2>3, <2>7, <3>1, <3>2, <3>3, <3>4
  <2>11. \A d \in Broadcasts : <<d, c>> \in chained' => SentTo(d, c)'
    BY <1>1, <1>3, <2>1 DEF Queue
  <2>12. Queue(c)'
    BY <1>1, <2>9, <2>10, <2>11 DEF Queue
  <2> QED BY <1>1, <1>3, <2>1, <2>12 DEF Last
<1> QED BY <1>2, <1>4, <1>5 DEF Ordered

LEMMA OrderStep == ASSUME Grounded, Once, Ordered, [Next]_vars PROVE Once' /\ Ordered'
<1> USE DashboardHostAssumption DEF Threads
<1>0. at \in [Threads -> Places] /\ todo \in [Broadcasts -> SUBSET Clients]
      /\ target \in [Broadcasts -> Clients \cup {None}]
  BY DEF Grounded, Typed
<1>1. ASSUME \/ UNCHANGED vars
             \/ \E c \in Clients : Connect(c) \/ Close(c) \/ LoadLater(c)
      PROVE  Once' /\ Ordered'
  <2>1. UNCHANGED <<at, todo, target, sent, begun, chained, after, tail, crossed>>
    BY <1>1 DEF Connect, Close, LoadLater, vars, sendVars, historyVars
  <2> QED BY <2>1, OrderKept
<1>2. ASSUME NEW c \in Clients, Callback(c) \/ Message(c) PROVE Once' /\ Ordered'
  <2>1. UNCHANGED <<todo, target, sent, begun, chained, after, tail, crossed>>
    BY <1>2 DEF Callback, Message, AcceptCompletes, BeginAccept, EndAccept, ReadToAdd, Add, Listen, Disconnect,
       DisposeWorkspace, AssignWorkspace, LoadSolution, ReceiveOther, ReceiveQuit, ReceiveProjectInfo,
       sendVars, historyVars
  <2>2. \A b \in Broadcasts : at'[b] = at[b]
    BY <1>0, <1>2 DEF Callback, Message, AcceptCompletes, BeginAccept, EndAccept, ReadToAdd, Add, Listen, Disconnect,
       DisposeWorkspace, AssignWorkspace, LoadSolution, ReceiveOther, ReceiveQuit, ReceiveProjectInfo, Goto
  <2> QED BY <2>1, <2>2, OrderKept
<1>3. ASSUME NEW b \in Broadcasts,
             \/ StartBroadcast(b) \/ Filter(b) \/ Remove(b) \/ EndBroadcast(b)
             \/ \E c \in Clients : ReadToRemove(b, c)
      PROVE  Once' /\ Ordered'
  <2>1. UNCHANGED <<sent, begun, chained, after, tail, crossed>>
    BY <1>3 DEF StartBroadcast, Filter, Remove, EndBroadcast, ReadToRemove, sendVars, historyVars
  <2>2. /\ at[b] \notin {"link", "linked"} /\ at'[b] \notin {"idle", "link", "linked"}
        /\ at'[b] \in Sending => at[b] = "idle"
    BY <1>0, <1>3 DEF StartBroadcast, Filter, Remove, EndBroadcast, ReadToRemove, Goto, Sending
  <2>3. \A d \in Broadcasts \ {b} : at'[d] = at[d] /\ todo'[d] = todo[d] /\ target'[d] = target[d]
    BY <1>0, <1>3 DEF StartBroadcast, Filter, Remove, EndBroadcast, ReadToRemove, Goto, sendVars
  <2> QED BY <2>1, <2>2, <2>3, OrderKept
<1> QED
  BY <1>1, <1>2, <1>3, NextClientOrder, LinkOrder, ChainOrder, RunOrder DEF Next, Broadcasting

(* Client.Send chains each broadcast to the one before it, so a client gets *)
(* them in the order of SendBroadcast, unless two were chained at once.     *)
THEOREM OrderSafe == Spec => []InOrder
<1>1. Init => Once /\ Ordered
  <2> SUFFICES ASSUME Init PROVE Once /\ Ordered
    OBVIOUS
  <2>1. /\ \A b \in Broadcasts : at[b] = "idle" /\ todo[b] = {}
        /\ \A c \in Clients : sent[c] = <<>> /\ begun[c] = <<>> /\ tail[c] = None
        /\ chained = {}
    BY DEF Init, Threads
  <2> QED BY <2>1 DEF Once, Ordered, Queue, Last, SentTo, Linking, Sending
<1>2. Grounded /\ Once /\ Ordered /\ [Next]_vars => (Grounded /\ Once /\ Ordered)'
  BY GroundedStep, OrderStep
<1>3. Grounded /\ Ordered => InOrder
  <2> SUFFICES ASSUME Grounded, Ordered, NEW c \in Clients \ crossed
               PROVE  begun[c] = SubSeq(sent[c], 1, Len(begun[c]))
    BY DEF InOrder
  <2>1. begun[c] \in Seq(Broadcasts) /\ sent[c] \in Seq(Broadcasts) /\ Queue(c)
    BY DEF Grounded, Typed, Ordered
  <2> QED BY <2>1 DEF Queue
<1> QED BY InitGrounded, <1>1, <1>2, <1>3, PTL DEF Spec

-----------------------------------------------------------------------------
(* The chain of a client, whoever chains to it at once: a task waits for    *)
(* none or for one that was chained to the client before it, and so will    *)
(* the next, since _sendQueue is such a task.                              *)
Behind(c) ==
  /\ \A b \in Broadcasts : <<b, c>> \in chained \/ Linking(b, c) => SentTo(b, c)
  /\ tail[c] = None \/ SentTo(tail[c], c)
  /\ \A i \in 1..Len(sent[c]) :
       \/ after[sent[c][i]][c] = None
       \/ \E k \in 1..(i - 1) : after[sent[c][i]][c] = sent[c][k]

Backwards == \A c \in Clients : Behind(c)

LEMMA BackwardsKept ==
  ASSUME Backwards, UNCHANGED <<sent, tail, after>>, chained' \subseteq chained,
         \A b \in Broadcasts, c \in Clients : Linking(b, c)' => Linking(b, c)
  PROVE  Backwards'
<1> SUFFICES ASSUME NEW c \in Clients PROVE Behind(c)'
  BY DEF Backwards
<1>1. Behind(c)
  BY DEF Backwards
<1> QED BY <1>1 DEF Behind, SentTo

LEMMA LinkBackwards ==
  ASSUME Grounded, Backwards, NEW b \in Broadcasts, Link(b)
  PROVE  Backwards'
<1>0. at \in [Threads -> Places] /\ b \in Threads /\ target \in [Broadcasts -> Clients \cup {None}]
      /\ tail \in [Clients -> Broadcasts \cup {None}] /\ Broadcasts \subseteq Threads
  BY DEF Grounded, Typed, Threads
<1>1. at[b] = "linked" /\ at' = [at EXCEPT ![b] = "each"]
  BY DEF Link, Goto
<1>2. PICK c \in Clients : target[b] = c
  BY <1>1 DEF Grounded, Aimed
<1>3. /\ tail' = [tail EXCEPT ![c] = b] /\ target' = [target EXCEPT ![b] = None]
      /\ UNCHANGED <<sent, chained, after>>
  BY <1>2 DEF Link
<1>4. \A d \in Broadcasts, e \in Clients : Linking(d, e)' => Linking(d, e)
  BY <1>0, <1>1, <1>3 DEF Linking
<1>5. SentTo(b, c)
  BY <1>1, <1>2 DEF Backwards, Behind, Linking
<1> SUFFICES ASSUME NEW e \in Clients PROVE Behind(e)'
  BY DEF Backwards
<1>6. Behind(e)
  BY DEF Backwards
<1>7. tail'[e] = None \/ SentTo(tail[e], e)'
  BY <1>0, <1>3, <1>5, <1>6 DEF Behind, SentTo
<1>8. \A d \in Broadcasts : <<d, e>> \in chained' \/ Linking(d, e)' => SentTo(d, e)'
  BY <1>3, <1>4, <1>6 DEF Behind, SentTo
<1>9. (\A i \in 1..Len(sent[e]) : \/ after[sent[e][i]][e] = None
                                  \/ \E k \in 1..(i - 1) : after[sent[e][i]][e] = sent[e][k])'
  BY <1>3, <1>6 DEF Behind
<1> QED BY <1>7, <1>8, <1>9 DEF Behind

LEMMA ChainBackwards ==
  ASSUME Grounded, Once, Backwards, NEW b \in Broadcasts, Chain(b)
  PROVE  Backwards'
<1>0. /\ at \in [Threads -> Places] /\ b \in Threads /\ Broadcasts \subseteq Threads
      /\ after \in [Broadcasts -> [Clients -> Broadcasts \cup {None}]]
      /\ sent \in [Clients -> Seq(Broadcasts)]
  BY DEF Grounded, Typed, Threads
<1>1. at[b] = "link" /\ at' = [at EXCEPT ![b] = "linked"]
  BY DEF Chain, Goto
<1>2. PICK c \in Clients : target[b] = c
  BY <1>1 DEF Grounded, Aimed
<1>3. /\ after' = [after EXCEPT ![b][c] = tail[c]] /\ chained' = chained \cup {<<b, c>>}
      /\ sent' = [sent EXCEPT ![c] = Append(sent[c], b)]
      /\ UNCHANGED <<target, tail>>
  BY <1>2 DEF Chain
<1>4. /\ \A e \in Clients \ {c} : sent'[e] = sent[e]
      /\ after'[b][c] = tail[c]
      /\ \A d \in Broadcasts, e \in Clients : d # b \/ e # c => after'[d][e] = after[d][e]
      /\ \A d \in Broadcasts, e \in Clients : Linking(d, e)' => Linking(d, e) \/ (d = b /\ e = c)
  BY <1>0, <1>1, <1>2, <1>3 DEF Linking
<1> DEFINE n == Len(sent[c])
<1>5. /\ n \in Nat /\ Len(sent'[c]) = n + 1 /\ sent'[c][n + 1] = b
      /\ \A i \in 1..n : sent'[c][i] = sent[c][i] /\ sent[c][i] \in Broadcasts
  <2>1. sent'[c] = Append(sent[c], b) /\ sent[c] \in Seq(Broadcasts)
    BY <1>0, <1>2, <1>3
  <2> QED BY <2>1, Chained
<1>6. \A i \in 1..n : sent[c][i] # b
  BY <1>1, <1>2 DEF Once, SentTo
<1>7. Behind(c)
  BY DEF Backwards
<1> HIDE DEF n
<1>8. \A d : d = b \/ (\E i \in 1..n : sent[c][i] = d) => \E i \in 1..Len(sent'[c]) : sent'[c][i] = d
  BY <1>5
<1>9. ASSUME NEW i \in 1..(n + 1)
      PROVE  \/ after'[sent'[c][i]][c] = None
             \/ \E k \in 1..(i - 1) : after'[sent'[c][i]][c] = sent'[c][k]
  <2>1. CASE i = n + 1
    <3>1. tail[c] = None \/ \E k \in 1..n : sent[c][k] = tail[c]
      BY <1>7 DEF Behind, SentTo, n
    <3>2. after'[sent'[c][i]][c] = tail[c] /\ i - 1 = n
      <4>1. sent'[c][i] = b
        BY <1>5, <2>1
      <4>2. i - 1 = n
        BY <1>5, <2>1
      <4> QED BY <1>4, <4>1, <4>2
    <3>3. CASE tail[c] = None
      BY <3>2, <3>3
    <3>4. CASE \E k \in 1..n : sent[c][k] = tail[c]
      <4>1. PICK k \in 1..n : sent[c][k] = tail[c]
        BY <3>4
      <4>2. sent'[c][k] = tail[c] /\ k \in 1..(i - 1)
        BY <1>5, <3>2, <4>1
      <4> QED BY <3>2, <4>2
    <3> QED BY <3>1, <3>3, <3>4
  <2>2. CASE i # n + 1
    <3>1. i \in 1..n
      BY <1>5, <2>2
    <3>2. after'[sent'[c][i]][c] = after[sent[c][i]][c]
      BY <1>4, <1>5, <1>6, <3>1
    <3>3. after[sent[c][i]][c] = None \/ \E k \in 1..(i - 1) : after[sent[c][i]][c] = sent[c][k]
      BY <1>7, <3>1 DEF Behind, n
    <3>4. \A k \in 1..(i - 1) : sent'[c][k] = sent[c][k]
      BY <1>5, <3>1
    <3> QED BY <3>2, <3>3, <3>4
  <2> QED BY <2>1, <2>2
<1>10. Behind(c)'
  <2>1. \A d \in Broadcasts : <<d, c>> \in chained' \/ Linking(d, c)' => SentTo(d, c)'
    BY <1>3, <1>4, <1>7, <1>8 DEF Behind, SentTo, n
  <2>2. tail'[c] = None \/ \E i \in 1..Len(sent'[c]) : sent'[c][i] = tail'[c]
    BY <1>3, <1>7, <1>8 DEF Behind, SentTo, n
  <2> QED BY <1>5, <1>9, <2>1, <2>2 DEF Behind, SentTo
<1>11. ASSUME NEW e \in Clients, e # c PROVE Behind(e)'
  <2>1. Behind(e) /\ sent'[e] = sent[e] /\ tail'[e] = tail[e]
    BY <1>3, <1>4, <1>11 DEF Backwards
  <2>2. \A i \in 1..Len(sent[e]) : sent[e][i] \in Broadcasts
    BY <1>0
  <2>3. \A d \in Broadcasts : after'[d][e] = after[d][e]
    BY <1>4, <1>11
  <2>4. \A d \in Broadcasts : (<<d, e>> \in chained' => <<d, e>> \in chained) /\ (Linking(d, e)' => Linking(d, e))
    BY <1>3, <1>4, <1>11
  <2> QED BY <2>1, <2>2, <2>3, <2>4 DEF Behind, SentTo
<1> QED BY <1>10, <1>11 DEF Backwards

LEMMA RunBackwards ==
  ASSUME Grounded, Backwards, NEW b \in Broadcasts, NEW c \in Clients, RunSend(b, c)
  PROVE  Backwards'
<1>0. /\ after \in [Broadcasts -> [Clients -> Broadcasts \cup {None}]]
      /\ sent \in [Clients -> Seq(Broadcasts)]
  BY DEF Grounded, Typed
<1>1. /\ chained' \subseteq chained /\ after' = [after EXCEPT ![b][c] = None]
      /\ UNCHANGED <<at, target, sent, tail>>
  BY DEF RunSend
<1> SUFFICES ASSUME NEW e \in Clients PROVE Behind(e)'
  BY DEF Backwards
<1>2. Behind(e) /\ \A i \in 1..Len(sent[e]) : sent[e][i] \in Broadcasts
  BY <1>0 DEF Backwards
<1>3. \A d \in Broadcasts : after'[d][e] = after[d][e] \/ after'[d][e] = None
  BY <1>0, <1>1
<1> QED BY <1>1, <1>2, <1>3 DEF Behind, SentTo, Linking

LEMMA BackwardsStep == ASSUME Grounded, Once, Backwards, [Next]_vars PROVE Backwards'
<1> USE DashboardHostAssumption DEF Threads
<1>0. at \in [Threads -> Places] /\ target \in [Broadcasts -> Clients \cup {None}]
  BY DEF Grounded, Typed
<1>1. ASSUME \/ UNCHANGED vars
             \/ \E c \in Clients : Connect(c) \/ Close(c) \/ LoadLater(c)
      PROVE  Backwards'
  <2>1. UNCHANGED <<at, target, sent, chained, after, tail>>
    BY <1>1 DEF Connect, Close, LoadLater, vars, sendVars, historyVars
  <2> QED BY <2>1, BackwardsKept DEF Linking
<1>2. ASSUME NEW c \in Clients, Callback(c) \/ Message(c) PROVE Backwards'
  <2>1. UNCHANGED <<target, sent, chained, after, tail>>
    BY <1>2 DEF Callback, Message, AcceptCompletes, BeginAccept, EndAccept, ReadToAdd, Add, Listen, Disconnect,
       DisposeWorkspace, AssignWorkspace, LoadSolution, ReceiveOther, ReceiveQuit, ReceiveProjectInfo,
       sendVars, historyVars
  <2>2. \A b \in Broadcasts : at'[b] = at[b]
    BY <1>0, <1>2 DEF Callback, Message, AcceptCompletes, BeginAccept, EndAccept, ReadToAdd, Add, Listen, Disconnect,
       DisposeWorkspace, AssignWorkspace, LoadSolution, ReceiveOther, ReceiveQuit, ReceiveProjectInfo, Goto
  <2> QED BY <2>1, <2>2, BackwardsKept DEF Linking
<1>3. ASSUME NEW b \in Broadcasts,
             \/ StartBroadcast(b) \/ Filter(b) \/ Remove(b) \/ EndBroadcast(b)
             \/ \E c \in Clients : ReadToRemove(b, c) \/ NextClient(b, c)
      PROVE  Backwards'
  <2>1. UNCHANGED <<sent, chained, after, tail>>
    BY <1>3 DEF StartBroadcast, Filter, Remove, EndBroadcast, ReadToRemove, NextClient, sendVars
  <2>2. at'[b] # "linked" /\ \A d \in Broadcasts \ {b} : at'[d] = at[d] /\ target'[d] = target[d]
    BY <1>0, <1>3 DEF StartBroadcast, Filter, Remove, EndBroadcast, ReadToRemove, NextClient, Goto, sendVars
  <2>3. \A d \in Broadcasts, c \in Clients : Linking(d, c)' => Linking(d, c)
    BY <2>2 DEF Linking
  <2> QED BY <2>1, <2>3, BackwardsKept
<1> QED
  BY <1>1, <1>2, <1>3, LinkBackwards, ChainBackwards, RunBackwards DEF Next, Broadcasting

(* Of the tasks of a client that have not run, the one that was chained     *)
(* first waits for none of the others.                                     *)
LEMMA FirstCanRun ==
  ASSUME Grounded, NEW c \in Clients, Behind(c), NEW b \in Broadcasts, <<b, c>> \in chained
  PROVE  \E d \in Broadcasts : <<d, c>> \in chained /\ <<after[d][c], c>> \notin chained
<1> DEFINE Less == OpToRel(<, Nat)
           I == {i \in 1..Len(sent[c]) : <<sent[c][i], c>> \in chained}
<1>1. sent[c] \in Seq(Broadcasts) /\ Len(sent[c]) \in Nat /\ chained \subseteq Broadcasts \X Clients
  BY DEF Grounded, Typed
<1>2. I # {} /\ I \subseteq Nat
  <2>1. PICK i \in 1..Len(sent[c]) : sent[c][i] = b
    BY DEF Behind, SentTo
  <2>2. i \in I
    BY <2>1
  <2>3. I \subseteq 1..Len(sent[c]) /\ 1..Len(sent[c]) \subseteq Nat
    BY <1>1
  <2> HIDE DEF I
  <2> QED BY <2>2, <2>3
<1>3. IsWellFoundedOn(Less, Nat)
  BY NatLessThanWellFounded
<1>a. \A m, n \in Nat : m < n => <<m, n>> \in Less
  BY DEF OpToRel
<1> HIDE DEF Less, I
<1>4. PICK i \in I : \A k \in I : <<k, i>> \notin Less
  BY <1>2, <1>3, WFMin
<1>5. i \in 1..Len(sent[c]) /\ <<sent[c][i], c>> \in chained /\ sent[c][i] \in Broadcasts
  BY <1>1, <1>4 DEF I
<1>6. CASE after[sent[c][i]][c] = None
  BY <1>1, <1>5, <1>6, DashboardHostAssumption
<1>7. ASSUME NEW k \in 1..(i - 1), after[sent[c][i]][c] = sent[c][k]
      PROVE  <<after[sent[c][i]][c], c>> \notin chained
  <2>1. k \in 1..Len(sent[c]) /\ k \in Nat /\ i \in Nat /\ k < i
    BY <1>1, <1>5
  <2>2. k \notin I
    BY <1>a, <1>4, <2>1
  <2> QED BY <1>7, <2>1, <2>2 DEF I
<1> QED BY <1>5, <1>6, <1>7 DEF Behind

(* Client.Send never makes a client's sends wait for each other in a circle, *)
(* also when two threads chain theirs at once, so one failed or slow send   *)
(* holds nothing up for good.                                              *)
THEOREM SendsNeverStuck == Spec => []NoSendStuck
<1>1. Init => Once /\ Ordered /\ Backwards
  <2> SUFFICES ASSUME Init PROVE Once /\ Ordered /\ Backwards
    OBVIOUS
  <2>1. /\ \A b \in Broadcasts : at[b] = "idle" /\ todo[b] = {}
        /\ \A c \in Clients : sent[c] = <<>> /\ begun[c] = <<>> /\ tail[c] = None
        /\ chained = {}
    BY DEF Init, Threads
  <2>2. Once /\ Ordered
    BY <2>1 DEF Once, Ordered, Queue, Last, SentTo, Linking, Sending
  <2>3. Backwards
    BY <2>1 DEF Backwards, Behind, Linking
  <2> QED BY <2>2, <2>3
<1>2. Grounded /\ Once /\ Ordered /\ Backwards /\ [Next]_vars => (Grounded /\ Once /\ Ordered /\ Backwards)'
  BY GroundedStep, OrderStep, BackwardsStep
<1>3. Grounded /\ Backwards => NoSendStuck
  BY FirstCanRun DEF NoSendStuck, Backwards
<1> QED BY InitGrounded, <1>1, <1>2, <1>3, PTL DEF Spec
=============================================================================
