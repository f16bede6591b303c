------------------------- MODULE ServerClientProofs -------------------------
(***************************************************************************)
(* For any number of messages and connections: the variables keep their    *)
(* types, no message is given to a socket twice, none is carried over from *)
(* a connection that has failed, none that was queued in front of a        *)
(* callback that was still to flush it is left behind, and the client      *)
(* implements the outbox.                                                  *)
(***************************************************************************)
EXTENDS ServerClient, TLAPS

-----------------------------------------------------------------------------
(* The inductive invariant *)

(* What the loop's place says of the socket and of _isConnected.            *)
Linked ==
  /\ socket \in {"connecting", "up", "eof", "lost"} => connection > 0
  /\ loop = "connect" => connection > 0
  /\ socket \in {"none", "connecting"} => loop \in {"delay", "connect", "drain"}
  /\ connected => loop \in {"ready", "wait", "woken"}

Typing == TypeOK /\ Linked

(* The queue holds each queued message once and no other.                   *)
Queued ==
  /\ \A i, j \in 1..Len(queue) : queue[i] = queue[j] => i = j
  /\ \A i \in 1..Len(queue) : at[queue[i]] = "queued"
  /\ \A m \in Messages : at[m] = "queued" => \E i \in 1..Len(queue) : queue[i] = m

(* A message that is still to be sent has not been.                         *)
Given ==
  /\ \A i, j \in 1..Len(wire) : wire[i][1] = wire[j][1] => i = j
  /\ \A i \in 1..Len(wire) : at[wire[i][1]] \notin Unsent

(* What is queued behind a connection is queued while that is the last one, *)
(* and only until the loop has drained the queue.                           *)
Carried ==
  /\ \A i \in 1..Len(wire) :
       queuedOn[wire[i][1]] # 0 => wire[i][2] = queuedOn[wire[i][1]]
  /\ \A m \in Messages : at[m] = "queued" /\ queuedOn[m] # 0 =>
       queuedOn[m] = connection /\ loop \in {"ready", "wait", "woken", "drain"}
  /\ \A m \in Messages : at[m] \in Unsent \ {"queued"} => queuedOn[m] = 0

(* Those queued in front of somebody who was still to flush are queued.     *)
Waiting == \A m \in behind : at[m] = "queued"

IInv == Typing /\ Queued /\ Given /\ Carried /\ Waiting /\ NoneStranded

-----------------------------------------------------------------------------
(* Sequences *)

LEMMA Taken ==
  ASSUME queue \in Seq(Messages), queue # <<>>, queue' = Tail(queue)
  PROVE  /\ queue' \in Seq(Messages)
         /\ Head(queue) \in Messages
         /\ Len(queue) > 0 /\ Head(queue) = queue[1]
         /\ Len(queue') = Len(queue) - 1
         /\ \A i \in 1..Len(queue') : queue'[i] = queue[i + 1]
  OBVIOUS

LEMMA Put ==
  ASSUME queue \in Seq(Messages), NEW m \in Messages, queue' = Append(queue, m)
  PROVE  /\ queue' \in Seq(Messages)
         /\ Len(queue') = Len(queue) + 1
         /\ \A i \in 1..Len(queue) : queue'[i] = queue[i]
         /\ queue'[Len(queue) + 1] = m
  OBVIOUS

LEMMA Wired ==
  ASSUME TypeOK, connection > 0, NEW m \in Messages, wire' = Append(wire, <<m, connection>>)
  PROVE  /\ wire' \in Seq(Messages \X (1..MaxConnections))
         /\ Len(wire') = Len(wire) + 1
         /\ \A i \in 1..Len(wire) : wire'[i] = wire[i]
         /\ wire'[Len(wire) + 1] = <<m, connection>>
<1> DEFINE Entry == Messages \X (1..MaxConnections)
<1>1. wire \in Seq(Entry) /\ <<m, connection>> \in Entry
  BY ServerClientAssumption DEF TypeOK
<1> HIDE DEF Entry
<1>2. /\ wire' \in Seq(Entry)
      /\ Len(wire') = Len(wire) + 1
      /\ \A i \in 1..Len(wire) : wire'[i] = wire[i]
      /\ wire'[Len(wire) + 1] = <<m, connection>>
  BY <1>1
<1> QED BY <1>2 DEF Entry

-----------------------------------------------------------------------------
(* Types *)

LEMMA InitTypes == Init => Typing
<1> SUFFICES ASSUME Init PROVE Typing
  OBVIOUS
<1>1. at \in [Actors -> Places] /\ queuedOn \in [Messages -> 0..MaxConnections]
  BY ServerClientAssumption DEF Init, Actors, Places
<1>2. queue \in Seq(Messages) /\ wire \in Seq(Messages \X (1..MaxConnections))
  BY DEF Init
<1>3. tokens \in 0..1 /\ connection \in 0..MaxConnections /\ behind \subseteq Messages
  BY ServerClientAssumption DEF Init
<1>4. {busy, connected, reconnecting, overflow} \subseteq BOOLEAN /\ loop = "delay" /\ socket = "none"
  BY DEF Init
<1>5. Linked
  BY DEF Init, Linked
<1> QED BY <1>1, <1>2, <1>3, <1>4, <1>5 DEF Typing, TypeOK

\* What the two drains do to the actors.
LEMMA DrainedTypes ==
  ASSUME NEW f \in [Actors -> Places]
  PROVE  /\ Drained(f) \in [Actors -> Places]
         /\ \A x \in Actors : Drained(f)[x] = IF f[x] = "queued" THEN "done" ELSE f[x]
  BY DEF Drained, Places

LEMMA Reconnects ==
  ASSUME TypeOK, NEW a \in Actors, TryReconnect(a)
  PROVE  /\ at' \in [Actors -> Places]
         /\ at'[a] = "check"
         /\ \A x \in Actors \ {a} : at'[x] = IF at[x] = "queued" THEN "done" ELSE at[x]
         /\ queue' = <<>> /\ busy' = FALSE /\ behind' = {} /\ socket' = "closed"
         /\ UNCHANGED <<connected, reconnecting, tokens, overflow, loop, connection, wire, queuedOn>>
<1>1. [at EXCEPT ![a] = "check"] \in [Actors -> Places]
  BY DEF TypeOK, Places
<1>2. at' = Drained([at EXCEPT ![a] = "check"])
  BY DEF TryReconnect
<1> QED BY <1>1, <1>2, DrainedTypes DEF TryReconnect, TypeOK

LEMMA TryReconnectTypes ==
  ASSUME Typing, NEW a \in Actors, TryReconnect(a)
  PROVE  Typing'
<1>1. TypeOK
  BY DEF Typing
<1>2. /\ at' \in [Actors -> Places]
      /\ queue' = <<>> /\ busy' = FALSE /\ behind' = {} /\ socket' = "closed"
      /\ UNCHANGED <<connected, reconnecting, tokens, overflow, loop, connection, wire, queuedOn>>
  BY <1>1, Reconnects
<1>3. queue' \in Seq(Messages)
  BY <1>2
<1> QED BY <1>2, <1>3 DEF Typing, TypeOK, Linked

LEMMA ThreadTypes ==
  ASSUME Typing, NEW m \in Messages, Send(m) \/ SendingThread(m)
  PROVE  Typing'
<1>0. m \in Actors /\ at \in [Actors -> Places]
  BY DEF Actors, Typing, TypeOK
<1>1. CASE Send(m)
  BY <1>0, <1>1 DEF Send, Goto, Places, clientVars, linkVars, historyVars, Typing, TypeOK, Linked
<1>2. CASE Claim(m)
  BY <1>0, <1>2 DEF Claim, Goto, Places, linkVars, historyVars, Typing, TypeOK, Linked
<1>3. CASE BeginSend(m)
  <2>1. wire' \in Seq(Messages \X (1..MaxConnections))
    <3>1. CASE CanSend
      BY <1>3, <3>1, Wired DEF BeginSend, CanSend, Typing, Linked
    <3>2. CASE ~CanSend
      BY <1>3, <3>2 DEF BeginSend, Typing, TypeOK
    <3> QED BY <3>1, <3>2
  <2> QED BY <1>0, <1>3, <2>1 DEF BeginSend, Goto, Places, clientVars, linkVars, historyVars, Typing, TypeOK, Linked
<1>4. CASE Enqueue(m)
  <2>1. queue' \in Seq(Messages)
    BY <1>4, Put DEF Enqueue, Typing, TypeOK
  <2>2. behind' \subseteq Messages
    BY <1>4 DEF Enqueue, Typing, TypeOK
  <2>3. queuedOn' \in [Messages -> 0..MaxConnections]
    BY <1>4, ServerClientAssumption DEF Enqueue, Typing, TypeOK
  <2> QED BY <1>0, <1>4, <2>1, <2>2, <2>3 DEF Enqueue, Goto, Places, linkVars, Typing, TypeOK, Linked
<1> QED BY <1>1, <1>2, <1>3, <1>4 DEF SendingThread

LEMMA CallbackTypes ==
  ASSUME Typing, NEW a \in Actors, Callback(a)
  PROVE  Typing'
<1>0. at \in [Actors -> Places]
  BY DEF Typing, TypeOK
<1>1. CASE a \in Messages /\ SendCompletes(a)
  BY <1>0, <1>1 DEF SendCompletes, Goto, Places, clientVars, linkVars, historyVars, Typing, TypeOK, Linked
<1>2. CASE a \in Messages /\ SendFails(a)
  BY <1>2, TryReconnectTypes DEF SendFails
<1>3. CASE a \in Messages /\ ProcessSendQueue(a)
  <2>1. CASE queue = <<>>
    <3>1. at' = [at EXCEPT ![a] = "idle"] /\ UNCHANGED <<clientVars, linkVars, wire, historyVars>>
      BY <1>3, <2>1 DEF ProcessSendQueue
    <3> QED BY <1>0, <3>1 DEF Places, clientVars, linkVars, historyVars, Typing, TypeOK, Linked
  <2>2. CASE queue # <<>> /\ CanSend
    <3>1. queue' = Tail(queue) /\ wire' = Append(wire, <<Head(queue), connection>>)
      BY <1>3, <2>2 DEF ProcessSendQueue
    <3>2. queue' \in Seq(Messages) /\ Head(queue) \in Messages
      BY <2>2, <3>1, Taken DEF Typing, TypeOK
    <3>3. wire' \in Seq(Messages \X (1..MaxConnections))
      BY <2>2, <3>1, <3>2, Wired DEF CanSend, Typing, Linked
    <3>4. at' = [at EXCEPT ![a] = "done", ![Head(queue)] = "flying"]
      BY <1>3, <2>2 DEF ProcessSendQueue
    <3>5. at' \in [Actors -> Places]
      BY <1>0, <3>4 DEF Places
    <3>6. behind' \subseteq Messages /\ UNCHANGED <<busy, connected, reconnecting, tokens, overflow, loop, linkVars, queuedOn>>
      BY <1>3, <2>2 DEF ProcessSendQueue, Typing, TypeOK
    <3> QED BY <3>2, <3>3, <3>5, <3>6 DEF linkVars, Typing, TypeOK, Linked
  <2>3. CASE queue # <<>> /\ ~CanSend
    BY <1>3, <2>3, TryReconnectTypes DEF ProcessSendQueue
  <2> QED BY <2>1, <2>2, <2>3
<1>4. CASE a \in Messages /\ ClearBusy(a)
  BY <1>0, <1>4 DEF ClearBusy, Goto, Places, linkVars, historyVars, Typing, TypeOK, Linked
<1>5. CASE a = Receiver /\ ReceiveFails
  BY <1>5, TryReconnectTypes DEF ReceiveFails
<1>6. CASE a = Receiver /\ ReceiveEnds
  BY <1>0, <1>6 DEF ReceiveEnds, Goto, Places, clientVars, linkVars, historyVars, Typing, TypeOK, Linked
<1>7. CASE CheckReconnect(a)
  BY <1>0, <1>7 DEF CheckReconnect, Goto, Places, clientVars, linkVars, historyVars, Typing, TypeOK, Linked
<1>8. CASE Release(a)
  <2>1. at' \in [Actors -> Places] /\ UNCHANGED <<queue, busy, connected, reconnecting, linkVars, wire, historyVars>>
    BY <1>0, <1>8 DEF Release, Goto, Places
  <2>2. tokens \in 0..1 /\ overflow \in BOOLEAN
    BY DEF Typing, TypeOK
  <2>3. tokens' \in 0..1
    BY <1>8, <2>2 DEF Release
  <2>4. overflow' \in BOOLEAN
    BY <1>8, <2>2 DEF Release
  <2>5. loop' = loop \/ (loop = "wait" /\ loop' = "woken")
    BY <1>8 DEF Release
  <2> QED BY <2>1, <2>3, <2>4, <2>5 DEF linkVars, historyVars, Typing, TypeOK, Linked
<1> QED BY <1>1, <1>2, <1>3, <1>4, <1>5, <1>6, <1>7, <1>8 DEF Callback

LEMMA LoopTypes == ASSUME Typing, Loop PROVE Typing'
<1>0. at \in [Actors -> Places] /\ Receiver \in Actors
  BY DEF Actors, Typing, TypeOK
<1>1. CASE Connect
  BY <1>1, ServerClientAssumption DEF Connect, LoopStep, historyVars, Typing, TypeOK, Linked
<1>2. CASE ConnectCompletes
  BY <1>2 DEF ConnectCompletes, LoopStep, historyVars, Typing, TypeOK, Linked
<1>3. CASE ConnectFails
  BY <1>3 DEF ConnectFails, LoopStep, linkVars, historyVars, Typing, TypeOK, Linked
<1>4. CASE StartReceiving \/ StartReceivingFails
  <2>1. CASE StartReceiving
    BY <1>0, <2>1 DEF StartReceiving, LoopStep, Places, linkVars, historyVars, Typing, TypeOK, Linked
  <2>2. CASE StartReceivingFails
    BY <2>2 DEF StartReceivingFails, LoopStep, linkVars, historyVars, Typing, TypeOK, Linked
  <2> QED BY <1>4, <2>1, <2>2
<1>5. CASE LoopFlush
  <2>1. CASE queue = <<>>
    BY <1>5, <2>1 DEF LoopFlush, LoopStep, linkVars, Typing, TypeOK, Linked
  <2>2. CASE queue # <<>>
    <3>1. queue' = Tail(queue) /\ UNCHANGED <<busy, connected, reconnecting, tokens, overflow, linkVars, queuedOn>>
      BY <1>5, <2>2 DEF LoopFlush
    <3>2. queue' \in Seq(Messages) /\ Head(queue) \in Messages
      BY <2>2, <3>1, Taken DEF Typing, TypeOK
    <3>3. wire' \in Seq(Messages \X (1..MaxConnections))
      <4>1. CASE CanSend
        BY <1>5, <2>2, <3>2, <4>1, Wired DEF LoopFlush, CanSend, Typing, Linked
      <4>2. CASE ~CanSend
        BY <1>5, <2>2, <4>2 DEF LoopFlush, Typing, TypeOK
      <4> QED BY <4>1, <4>2
    <3>4. at' \in [Actors -> Places]
      BY <1>0, <1>5, <2>2 DEF LoopFlush, Places
    <3>5. behind' \subseteq Messages /\ loop' \in {"online", "delay"} /\ loop = "flush"
      BY <1>5, <2>2 DEF LoopFlush, LoopStep, Typing, TypeOK
    <3> QED BY <3>1, <3>2, <3>3, <3>4, <3>5 DEF linkVars, Typing, TypeOK, Linked
  <2> QED BY <2>1, <2>2
<1>6. CASE LoopClearBusy
  BY <1>6 DEF LoopClearBusy, LoopStep, linkVars, historyVars, Typing, TypeOK, Linked
<1>7. CASE Online
  BY <1>7 DEF Online, LoopStep, linkVars, historyVars, Typing, TypeOK, Linked
<1>8. CASE Ready
  <2>1. loop = "ready" /\ loop' \in {"woken", "wait"} /\ tokens' = 0 /\ reconnecting' = FALSE
    BY <1>8 DEF Ready
  <2>3. tokens' \in 0..1
    BY <2>1
  <2>2. UNCHANGED <<at, queue, busy, connected, overflow, linkVars, wire, historyVars>>
    BY <1>8 DEF Ready
  <2> QED BY <2>1, <2>2, <2>3 DEF linkVars, historyVars, Typing, TypeOK, Linked
<1>9. CASE Woken
  BY <1>9 DEF Woken, LoopStep, linkVars, historyVars, Typing, TypeOK, Linked
<1>10. CASE Drain
  <2>1. at' \in [Actors -> Places] /\ queue' \in Seq(Messages)
    BY <1>0, <1>10, DrainedTypes DEF Drain
  <2> QED BY <1>10, <2>1 DEF Drain, LoopStep, Typing, TypeOK, Linked
<1> QED BY <1>1, <1>2, <1>3, <1>4, <1>5, <1>6, <1>7, <1>8, <1>9, <1>10 DEF Loop

LEMMA NetworkTypes == ASSUME Typing, PeerCloses \/ Reset PROVE Typing'
  BY DEF PeerCloses, Reset, clientVars, historyVars, Typing, TypeOK, Linked

LEMMA StutterTypes == ASSUME Typing, UNCHANGED vars PROVE Typing'
  BY DEF vars, clientVars, linkVars, historyVars, Typing, TypeOK, Linked

LEMMA StepTypes == ASSUME Typing, [Next]_vars PROVE Typing'
  BY ThreadTypes, CallbackTypes, LoopTypes, NetworkTypes, StutterTypes DEF Next

(* The variables keep their types; the semaphore never holds two tokens     *)
(* (TryReconnect).                                                          *)
THEOREM ClientTypes == Spec => []TypeOK
<1>1. Typing => TypeOK
  BY DEF Typing
<1>2. Typing /\ [Next]_vars => Typing'
  BY StepTypes
<1> QED BY InitTypes, <1>1, <1>2, PTL DEF Spec

-----------------------------------------------------------------------------
(* The queue and the wire: what most steps leave alone                      *)

Holding == {"ready", "wait", "woken", "drain"}

Bookkeeping == Queued /\ Given /\ Carried

Quiet ==
  /\ UNCHANGED <<queue, wire, queuedOn, behind, connection>>
  /\ loop \in Holding => loop' \in Holding
  /\ \A m \in Messages :
       /\ at'[m] = "queued" <=> at[m] = "queued"
       /\ at'[m] \in Unsent => at[m] \in Unsent

LEMMA QuietKeeps == ASSUME Typing, Bookkeeping, Quiet PROVE Bookkeeping'
<1>0. queue \in Seq(Messages) /\ wire \in Seq(Messages \X (1..MaxConnections))
  BY DEF Typing, TypeOK
<1>1. Queued'
  BY <1>0 DEF Bookkeeping, Quiet, Queued
<1>2. \A i \in 1..Len(wire) : wire[i][1] \in Messages
  BY <1>0
<1>3. Given'
  BY <1>0, <1>2 DEF Bookkeeping, Quiet, Given
<1>4. Carried'
  BY <1>0 DEF Bookkeeping, Quiet, Carried, Holding, Unsent
<1> QED BY <1>1, <1>3, <1>4 DEF Bookkeeping

LEMMA QuietThreads ==
  ASSUME Typing, NEW m \in Messages,
         Send(m) \/ Claim(m) \/ (BeginSend(m) /\ ~CanSend)
  PROVE  Quiet
<1>0. at \in [Actors -> Places] /\ Messages \subseteq Actors
  BY DEF Typing, TypeOK, Actors
<1>1. CASE Send(m)
  BY <1>0, <1>1 DEF Send, Goto, Quiet, Unsent, clientVars, linkVars, historyVars
<1>2. CASE Claim(m)
  BY <1>0, <1>2 DEF Claim, Goto, Quiet, Unsent, linkVars, historyVars
<1>3. CASE BeginSend(m) /\ ~CanSend
  BY <1>0, <1>3 DEF BeginSend, Goto, Quiet, Unsent, clientVars, linkVars, historyVars
<1> QED BY <1>1, <1>2, <1>3

LEMMA QuietCallbacks ==
  ASSUME Typing, NEW a \in Actors,
         \/ a \in Messages /\ (SendCompletes(a) \/ ClearBusy(a))
         \/ ProcessSendQueue(a) /\ queue = <<>>
         \/ a = Receiver /\ ReceiveEnds
         \/ CheckReconnect(a) \/ Release(a)
  PROVE  Quiet
<1>0. at \in [Actors -> Places] /\ Messages \subseteq Actors
  BY DEF Typing, TypeOK, Actors
<1>1. CASE a \in Messages /\ SendCompletes(a)
  BY <1>0, <1>1 DEF SendCompletes, Goto, Quiet, Unsent, clientVars, linkVars, historyVars
<1>2. CASE a \in Messages /\ ClearBusy(a)
  BY <1>0, <1>2 DEF ClearBusy, Goto, Quiet, Unsent, linkVars, historyVars
<1>3. CASE ProcessSendQueue(a) /\ queue = <<>>
  BY <1>0, <1>3 DEF ProcessSendQueue, Quiet, Unsent, clientVars, linkVars, historyVars
<1>4. CASE a = Receiver /\ ReceiveEnds
  BY <1>0, <1>4, ServerClientAssumption DEF ReceiveEnds, Goto, Quiet, Unsent, clientVars, linkVars, historyVars
<1>5. CASE CheckReconnect(a)
  BY <1>0, <1>5 DEF CheckReconnect, Goto, Quiet, Unsent, clientVars, linkVars, historyVars
<1>6. CASE Release(a)
  <2>1. loop' = loop \/ loop' = "woken"
    BY <1>6 DEF Release
  <2> QED BY <1>0, <1>6, <2>1 DEF Release, Goto, Quiet, Unsent, Holding, linkVars, historyVars
<1> QED BY <1>1, <1>2, <1>3, <1>4, <1>5, <1>6

LEMMA QuietLoop ==
  ASSUME Typing,
         \/ ConnectCompletes \/ ConnectFails \/ StartReceiving \/ StartReceivingFails
         \/ LoopClearBusy \/ Online \/ Ready \/ Woken
         \/ LoopFlush /\ queue = <<>>
  PROVE  Quiet
<1>0. at \in [Actors -> Places] /\ Messages \subseteq Actors
  BY DEF Typing, TypeOK, Actors
<1>1. CASE ConnectCompletes
  BY <1>1 DEF ConnectCompletes, LoopStep, Quiet, Holding, historyVars
<1>2. CASE ConnectFails \/ StartReceivingFails
  BY <1>2 DEF ConnectFails, StartReceivingFails, LoopStep, Quiet, Holding, linkVars, historyVars
<1>3. CASE StartReceiving
  BY <1>0, <1>3, ServerClientAssumption DEF StartReceiving, LoopStep, Quiet, Holding, linkVars, historyVars
<1>4. CASE LoopClearBusy
  BY <1>4 DEF LoopClearBusy, LoopStep, Quiet, Holding, linkVars, historyVars
<1>5. CASE Online
  BY <1>5 DEF Online, LoopStep, Quiet, Holding, linkVars, historyVars
<1>6. CASE Ready
  BY <1>6 DEF Ready, Quiet, Holding, linkVars, historyVars
<1>7. CASE Woken
  BY <1>7 DEF Woken, LoopStep, Quiet, Holding, linkVars, historyVars
<1>8. CASE LoopFlush /\ queue = <<>>
  BY <1>8 DEF LoopFlush, LoopStep, Quiet, Holding, linkVars
<1> QED BY <1>1, <1>2, <1>3, <1>4, <1>5, <1>6, <1>7, <1>8

LEMMA QuietNetwork == ASSUME PeerCloses \/ Reset \/ UNCHANGED vars PROVE Quiet
  BY DEF PeerCloses, Reset, Quiet, vars, clientVars, linkVars, historyVars

-----------------------------------------------------------------------------
(* The steps that change the queue or the wire                              *)

LEMMA SentKeeps ==
  ASSUME Typing, Bookkeeping, NEW m \in Messages, BeginSend(m), CanSend
  PROVE  Bookkeeping'
<1>0. at \in [Actors -> Places] /\ Messages \subseteq Actors
  BY DEF Typing, TypeOK, Actors
<1>1. /\ at[m] = "begin" /\ at' = [at EXCEPT ![m] = "flying"]
      /\ wire' = Append(wire, <<m, connection>>)
      /\ UNCHANGED <<queue, loop, connection, queuedOn>>
  BY DEF BeginSend, Goto, clientVars, linkVars, historyVars
<1>2. /\ Len(wire) \in Nat /\ Len(wire') = Len(wire) + 1
      /\ \A i \in 1..Len(wire) : wire[i][1] \in Messages /\ wire'[i] = wire[i]
      /\ wire'[Len(wire) + 1] = <<m, connection>>
  BY <1>1, Wired DEF CanSend, Typing, Linked, TypeOK
<1>3. Queued'
  BY <1>0, <1>1 DEF Bookkeeping, Queued, Typing, TypeOK
<1>4. \A i \in 1..Len(wire) : wire[i][1] # m
  BY <1>1 DEF Bookkeeping, Given, Unsent
<1>5. Given'
  BY <1>0, <1>1, <1>2, <1>4 DEF Bookkeeping, Given, Unsent
<1>6. queuedOn[m] = 0
  BY <1>1 DEF Bookkeeping, Carried, Unsent
<1>7. Carried'
  BY <1>0, <1>1, <1>2, <1>4, <1>6 DEF Bookkeeping, Carried, Unsent
<1> QED BY <1>3, <1>5, <1>7 DEF Bookkeeping

LEMMA EnqueuedKeeps ==
  ASSUME Typing, Bookkeeping, NEW m \in Messages, Enqueue(m)
  PROVE  Bookkeeping'
<1>0. at \in [Actors -> Places] /\ Messages \subseteq Actors /\ queuedOn \in [Messages -> 0..MaxConnections]
  BY DEF Typing, TypeOK, Actors
<1>1. /\ at[m] = "enqueue" /\ at' = [at EXCEPT ![m] = "queued"]
      /\ queuedOn' = [queuedOn EXCEPT ![m] = IF connected THEN connection ELSE 0]
      /\ UNCHANGED <<loop, connection, wire>>
  BY DEF Enqueue, Goto, linkVars
<1>2. /\ Len(queue) \in Nat /\ Len(queue') = Len(queue) + 1
      /\ \A i \in 1..Len(queue) : queue[i] \in Messages /\ queue'[i] = queue[i]
      /\ queue'[Len(queue) + 1] = m
  BY Put DEF Enqueue, Typing, TypeOK
<1>3. \A i \in 1..Len(queue) : queue[i] # m
  BY <1>1 DEF Bookkeeping, Queued
<1>4. Queued'
  <2>1. \A i, j \in 1..Len(queue') : queue'[i] = queue'[j] => i = j
    BY <1>2, <1>3 DEF Bookkeeping, Queued
  <2>2. \A i \in 1..Len(queue') : at'[queue'[i]] = "queued"
    BY <1>0, <1>1, <1>2 DEF Bookkeeping, Queued
  <2>3. ASSUME NEW n \in Messages, at'[n] = "queued" PROVE \E i \in 1..Len(queue') : queue'[i] = n
    <3>1. CASE n = m
      BY <1>2, <3>1
    <3>2. CASE n # m
      BY <1>0, <1>1, <1>2, <2>3, <3>2 DEF Bookkeeping, Queued
    <3> QED BY <3>1, <3>2
  <2> QED BY <2>1, <2>2, <2>3 DEF Queued
<1>5. \A i \in 1..Len(wire) : wire[i][1] \in Messages /\ wire[i][1] # m
  <2>1. \A i \in 1..Len(wire) : wire[i][1] \in Messages
    BY DEF Typing, TypeOK
  <2> QED BY <1>1, <2>1 DEF Bookkeeping, Given, Unsent
<1>6. Given'
  BY <1>0, <1>1, <1>5 DEF Bookkeeping, Given, Unsent
<1>7. connected => loop \in {"ready", "wait", "woken", "drain"}
  BY DEF Typing, Linked
<1>8. Carried'
  BY <1>0, <1>1, <1>5, <1>7 DEF Bookkeeping, Carried, Unsent
<1> QED BY <1>4, <1>6, <1>8 DEF Bookkeeping

\* The first of the queue is taken off it, by the loop or by a callback.
Taking ==
  /\ queue # <<>>
  /\ queue' = Tail(queue)
  /\ at'[Head(queue)] \notin Unsent
  /\ \A n \in Messages \ {Head(queue)} : at'[n] = at[n] \/ (at[n] = "flush" /\ at'[n] = "done")
  /\ loop' = loop \/ loop = "flush"
  /\ UNCHANGED <<connection, queuedOn>>

LEMMA TakenKeeps ==
  ASSUME Typing, Bookkeeping, Taking,
         wire' = wire \/ (connection > 0 /\ wire' = Append(wire, <<Head(queue), connection>>))
  PROVE  Bookkeeping'
<1> DEFINE h == Head(queue)
<1>1. /\ h \in Messages /\ Len(queue) \in Nat /\ Len(queue) > 0 /\ h = queue[1]
      /\ Len(queue') = Len(queue) - 1
      /\ \A i \in 1..Len(queue') : queue'[i] = queue[i + 1]
  BY Taken DEF Taking, Typing, TypeOK
<1>2. \A i \in 1..Len(queue) : queue[i] \in Messages
  BY DEF Typing, TypeOK
<1>3. at[h] = "queued"
  BY <1>1 DEF Bookkeeping, Queued
<1>4. \A n \in Messages : at'[n] = "queued" <=> (at[n] = "queued" /\ n # h)
  BY <1>1, <1>3 DEF Taking, Unsent
<1>5. \A n \in Messages : at'[n] \in Unsent => at[n] \in Unsent /\ n # h /\ at'[n] = at[n]
  BY <1>1 DEF Taking, Unsent
<1> HIDE DEF h
<1>6. Queued'
  <2>1. \A i, j \in 1..Len(queue') : queue'[i] = queue'[j] => i = j
    <3> SUFFICES ASSUME NEW i \in 1..Len(queue'), NEW j \in 1..Len(queue'), queue'[i] = queue'[j]
                 PROVE  i = j
      OBVIOUS
    <3>1. i + 1 \in 1..Len(queue) /\ j + 1 \in 1..Len(queue) /\ queue[i + 1] = queue[j + 1]
      BY <1>1
    <3>2. i + 1 = j + 1
      BY <3>1 DEF Bookkeeping, Queued
    <3> QED BY <3>2, <1>1
  <2>2. ASSUME NEW i \in 1..Len(queue') PROVE at'[queue'[i]] = "queued"
    <3>1. i + 1 \in 1..Len(queue) /\ 1 \in 1..Len(queue) /\ i + 1 # 1 /\ queue'[i] = queue[i + 1]
      BY <1>1
    <3>2. at[queue[i + 1]] = "queued" /\ queue[i + 1] # queue[1]
      BY <3>1 DEF Bookkeeping, Queued
    <3> QED BY <1>1, <1>2, <1>4, <3>1, <3>2
  <2>3. ASSUME NEW n \in Messages, at'[n] = "queued" PROVE \E i \in 1..Len(queue') : queue'[i] = n
    <3>1. at[n] = "queued" /\ n # h
      BY <1>4, <2>3
    <3>2. PICK k \in 1..Len(queue) : queue[k] = n
      BY <3>1 DEF Bookkeeping, Queued
    <3>3. k # 1
      BY <1>1, <3>1, <3>2
    <3>4. k - 1 \in 1..Len(queue') /\ queue'[k - 1] = queue[(k - 1) + 1] /\ (k - 1) + 1 = k
      BY <1>1, <3>3
    <3> QED BY <3>2, <3>4
  <2> QED BY <2>1, <2>2, <2>3 DEF Queued
<1>7. \A i \in 1..Len(wire) : wire[i][1] \in Messages /\ wire[i][1] # h
  BY <1>3 DEF Bookkeeping, Given, Unsent, Typing, TypeOK
<1>8. Given' /\ \A i \in 1..Len(wire') : \/ i \in 1..Len(wire) /\ wire'[i] = wire[i]
                                        \/ wire'[i] = <<h, connection>>
  <2>1. CASE wire' = wire
    BY <1>5, <1>7, <2>1 DEF Bookkeeping, Given
  <2>2. CASE connection > 0 /\ wire' = Append(wire, <<Head(queue), connection>>)
    <3>1. /\ Len(wire) \in Nat /\ Len(wire') = Len(wire) + 1
          /\ \A i \in 1..Len(wire) : wire'[i] = wire[i]
          /\ wire'[Len(wire) + 1] = <<h, connection>>
      BY <1>1, <2>2, Wired DEF h, Typing, TypeOK
    <3>2. at'[h] \notin Unsent
      BY DEF Taking, h
    <3> QED BY <1>5, <1>7, <3>1, <3>2 DEF Bookkeeping, Given
  <2> QED BY <2>1, <2>2
<1>9. Carried'
  <2>1. queuedOn[h] # 0 => queuedOn[h] = connection
    BY <1>1, <1>3 DEF Bookkeeping, Carried
  <2>2. \A i \in 1..Len(wire') : queuedOn'[wire'[i][1]] # 0 => wire'[i][2] = queuedOn'[wire'[i][1]]
    BY <1>8, <2>1 DEF Bookkeeping, Carried, Taking
  <2>3. \A n \in Messages : at'[n] = "queued" /\ queuedOn'[n] # 0 =>
          queuedOn'[n] = connection' /\ loop' \in {"ready", "wait", "woken", "drain"}
    BY <1>4 DEF Bookkeeping, Carried, Taking
  <2>4. \A n \in Messages : at'[n] \in Unsent \ {"queued"} => queuedOn'[n] = 0
    BY <1>5 DEF Bookkeeping, Carried, Taking
  <2> QED BY <2>2, <2>3, <2>4 DEF Carried
<1> QED BY <1>6, <1>8, <1>9 DEF Bookkeeping

\* The queue is emptied, by TryReconnect or by the loop.
Emptying ==
  /\ queue' = <<>>
  /\ \A n \in Messages : at'[n] # "queued" /\ (at'[n] \in Unsent => at[n] = at'[n])
  /\ UNCHANGED <<wire, queuedOn>>

LEMMA EmptiedKeeps == ASSUME Typing, Bookkeeping, Emptying PROVE Bookkeeping'
<1>1. \A i \in 1..Len(wire) : wire[i][1] \in Messages
  BY DEF Typing, TypeOK
<1>2. Queued'
  BY DEF Emptying, Queued
<1>3. Given'
  BY <1>1 DEF Bookkeeping, Emptying, Given
<1>4. Carried'
  BY <1>1 DEF Bookkeeping, Emptying, Carried, Unsent
<1> QED BY <1>2, <1>3, <1>4 DEF Bookkeeping

LEMMA ConnectedKeeps == ASSUME Typing, Bookkeeping, Connect PROVE Bookkeeping'
<1>1. UNCHANGED <<at, queue, wire, queuedOn>> /\ loop = "delay"
  BY DEF Connect, LoopStep, historyVars
<1>2. \A n \in Messages : at[n] = "queued" => queuedOn[n] = 0
  BY <1>1 DEF Bookkeeping, Carried
<1>3. Queued' /\ Given'
  BY <1>1 DEF Bookkeeping, Queued, Given
<1>4. Carried'
  BY <1>1, <1>2 DEF Bookkeeping, Carried
<1> QED BY <1>3, <1>4 DEF Bookkeeping

LEMMA ReconnectKeeps ==
  ASSUME Typing, Bookkeeping, NEW a \in Actors, TryReconnect(a)
  PROVE  Bookkeeping'
<1>1. /\ at'[a] = "check"
      /\ \A x \in Actors \ {a} : at'[x] = IF at[x] = "queued" THEN "done" ELSE at[x]
      /\ queue' = <<>> /\ UNCHANGED <<wire, queuedOn>>
  BY Reconnects DEF Typing
<1>2. \A n \in Messages : n = a \/ n \in Actors \ {a}
  BY DEF Actors
<1>3. Emptying
  BY <1>1, <1>2 DEF Emptying, Unsent
<1> QED BY <1>3, EmptiedKeeps

LEMMA ProcessedKeeps ==
  ASSUME Typing, Bookkeeping, NEW m \in Messages, ProcessSendQueue(m), queue # <<>>
  PROVE  Bookkeeping'
<1>1. CASE ~CanSend
  BY <1>1, ReconnectKeeps DEF ProcessSendQueue, Actors
<1>2. CASE CanSend
  <2>0. at \in [Actors -> Places] /\ Messages \subseteq Actors
    BY DEF Typing, TypeOK, Actors
  <2>1. /\ at[m] = "flush" /\ at' = [at EXCEPT ![m] = "done", ![Head(queue)] = "flying"]
        /\ queue' = Tail(queue) /\ wire' = Append(wire, <<Head(queue), connection>>)
        /\ UNCHANGED <<loop, connection, queuedOn>>
    BY <1>2 DEF ProcessSendQueue, linkVars
  <2>2. Head(queue) \in Messages
    BY <2>1, Taken DEF Typing, TypeOK
  <2>3. Taking
    BY <2>0, <2>1, <2>2 DEF Taking, Unsent
  <2>4. connection > 0
    BY <1>2 DEF CanSend, Typing, Linked
  <2> QED BY <2>1, <2>3, <2>4, TakenKeeps
<1> QED BY <1>1, <1>2

LEMMA FlushedKeeps ==
  ASSUME Typing, Bookkeeping, LoopFlush, queue # <<>>
  PROVE  Bookkeeping'
<1>0. at \in [Actors -> Places] /\ Messages \subseteq Actors
  BY DEF Typing, TypeOK, Actors
<1>1. queue' = Tail(queue) /\ loop = "flush" /\ UNCHANGED <<connection, queuedOn>>
  BY DEF LoopFlush, LoopStep, linkVars
<1>2. Head(queue) \in Messages
  BY <1>1, Taken DEF Typing, TypeOK
<1>3. \/ /\ CanSend /\ at' = [at EXCEPT ![Head(queue)] = "flying"]
         /\ wire' = Append(wire, <<Head(queue), connection>>)
      \/ at' = [at EXCEPT ![Head(queue)] = "done"] /\ wire' = wire
  BY DEF LoopFlush
<1>4. Taking
  BY <1>0, <1>1, <1>2, <1>3 DEF Taking, Unsent
<1>5. CanSend => connection > 0
  BY DEF CanSend, Typing, Linked
<1> QED BY <1>3, <1>4, <1>5, TakenKeeps

LEMMA DrainKeeps == ASSUME Typing, Bookkeeping, Drain PROVE Bookkeeping'
<1>1. \A x \in Actors : at'[x] = IF at[x] = "queued" THEN "done" ELSE at[x]
  BY DrainedTypes DEF Drain, Typing, TypeOK
<1>2. queue' = <<>> /\ UNCHANGED <<wire, queuedOn>>
  BY DEF Drain
<1>3. Emptying
  BY <1>1, <1>2 DEF Emptying, Unsent, Actors
<1> QED BY <1>3, EmptiedKeeps

LEMMA StepKeeps == ASSUME Typing, Bookkeeping, [Next]_vars PROVE Bookkeeping'
<1>1. ASSUME NEW m \in Messages, Send(m) \/ SendingThread(m) PROVE Bookkeeping'
  <2>1. CASE Send(m) \/ Claim(m) \/ (BeginSend(m) /\ ~CanSend)
    BY <2>1, QuietThreads, QuietKeeps
  <2>2. CASE BeginSend(m) /\ CanSend
    BY <2>2, SentKeeps
  <2>3. CASE Enqueue(m)
    BY <2>3, EnqueuedKeeps
  <2> QED BY <1>1, <2>1, <2>2, <2>3 DEF SendingThread
<1>2. ASSUME NEW a \in Actors, Callback(a) PROVE Bookkeeping'
  <2>1. CASE a \in Messages /\ ProcessSendQueue(a) /\ queue # <<>>
    BY <2>1, ProcessedKeeps
  <2>2. CASE (a \in Messages /\ SendFails(a)) \/ (a = Receiver /\ ReceiveFails)
    BY <2>2, ReconnectKeeps DEF SendFails, ReceiveFails
  <2>3. CASE \/ a \in Messages /\ (SendCompletes(a) \/ ClearBusy(a))
             \/ ProcessSendQueue(a) /\ queue = <<>>
             \/ a = Receiver /\ ReceiveEnds
             \/ CheckReconnect(a) \/ Release(a)
    BY <2>3, QuietCallbacks, QuietKeeps
  <2> QED BY <1>2, <2>1, <2>2, <2>3 DEF Callback
<1>3. CASE Loop
  <2>1. CASE Connect
    BY <2>1, ConnectedKeeps
  <2>2. CASE LoopFlush /\ queue # <<>>
    BY <2>2, FlushedKeeps
  <2>3. CASE Drain
    BY <2>3, DrainKeeps
  <2>4. CASE \/ ConnectCompletes \/ ConnectFails \/ StartReceiving \/ StartReceivingFails
             \/ LoopClearBusy \/ Online \/ Ready \/ Woken
             \/ LoopFlush /\ queue = <<>>
    BY <2>4, QuietLoop, QuietKeeps
  <2> QED BY <1>3, <2>1, <2>2, <2>3, <2>4 DEF Loop
<1>4. CASE PeerCloses \/ Reset \/ UNCHANGED vars
  BY <1>4, QuietNetwork, QuietKeeps
<1> QED BY <1>1, <1>2, <1>3, <1>4 DEF Next

LEMMA InitBookkeeping == Init => Bookkeeping
<1> SUFFICES ASSUME Init PROVE Bookkeeping
  OBVIOUS
<1>1. queue = <<>> /\ wire = <<>> /\ \A m \in Messages : at[m] = "new" /\ queuedOn[m] = 0
  BY ServerClientAssumption DEF Init, Actors
<1> QED BY <1>1 DEF Bookkeeping, Queued, Given, Carried

-----------------------------------------------------------------------------
(* Nobody is left behind                                                    *)

Sending == {"claim", "begin", "flying", "flush"}

Starting == {"delay", "connect", "receive", "flush"}

\* A step that ends nobody's flushing and takes no failure back.
LEMMA StillFlushing ==
  ASSUME NoneStranded, behind' \subseteq behind,
         \A m \in Messages : at[m] \in Sending => at'[m] \in Sending,
         loop \in Starting => loop' \in Starting \cup {"woken", "drain"},
         GivenUp => GivenUp'
  PROVE  NoneStranded'
  BY DEF NoneStranded, Flushing, GivenUp, Sending, Starting

LEMMA NothingBehind == ASSUME Typing, Queued, Waiting, queue = <<>> PROVE behind = {}
  BY DEF Typing, TypeOK, Queued, Waiting

LEMMA ThreadsWaiting ==
  ASSUME Typing, Waiting, NoneStranded, NEW m \in Messages, Send(m) \/ SendingThread(m)
  PROVE  (Waiting /\ NoneStranded)'
<1>0. at \in [Actors -> Places] /\ Messages \subseteq Actors /\ behind \subseteq Messages
  BY DEF Typing, TypeOK, Actors
<1>1. CASE Send(m)
  <2>1. /\ at[m] = "new" /\ UNCHANGED <<loop, socket, behind>>
        /\ \A x \in Messages \ {m} : at'[x] = at[x]
    BY <1>0, <1>1 DEF Send, Goto, clientVars, linkVars, historyVars
  <2>2. Waiting'
    BY <1>0, <2>1 DEF Waiting
  <2> QED BY <2>1, <2>2, StillFlushing DEF Sending, GivenUp
<1>2. CASE Claim(m)
  <2>1. /\ at[m] = "claim" /\ at'[m] = "begin" /\ UNCHANGED <<loop, socket, behind>>
        /\ \A x \in Messages \ {m} : at'[x] = at[x]
    BY <1>0, <1>2 DEF Claim, Goto, linkVars, historyVars
  <2>2. Waiting'
    BY <1>0, <2>1 DEF Waiting
  <2> QED BY <2>1, <2>2, StillFlushing DEF Sending, GivenUp
<1>3. CASE BeginSend(m)
  <2>1. /\ at[m] = "begin" /\ at'[m] = (IF CanSend THEN "flying" ELSE "done")
        /\ UNCHANGED <<loop, socket, behind>>
        /\ \A x \in Messages \ {m} : at'[x] = at[x]
    BY <1>0, <1>3 DEF BeginSend, Goto, clientVars, linkVars, historyVars
  <2>2. Waiting'
    BY <1>0, <2>1 DEF Waiting
  <2>3. CASE CanSend
    BY <2>1, <2>2, <2>3, StillFlushing DEF Sending, GivenUp
  <2>4. CASE ~CanSend
    <3>1. socket \in {"lost", "closed"} \/ loop \in {"delay", "connect", "drain"}
      BY <2>4 DEF CanSend, Typing, TypeOK, Linked
    <3> QED BY <2>1, <2>2, <3>1 DEF NoneStranded, Flushing, GivenUp
  <2> QED BY <2>3, <2>4
<1>4. CASE Enqueue(m)
  <2>1. /\ at[m] = "enqueue" /\ at'[m] = "queued" /\ UNCHANGED <<loop, socket>>
        /\ \A x \in Messages \ {m} : at'[x] = at[x]
        /\ behind' = IF Flushing THEN behind \cup {m} ELSE behind
    BY <1>0, <1>4 DEF Enqueue, Goto, linkVars
  <2>2. Waiting'
    BY <1>0, <2>1 DEF Waiting
  <2>3. CASE Flushing
    BY <2>1, <2>2, <2>3 DEF NoneStranded, Flushing
  <2>4. CASE ~Flushing
    BY <2>1, <2>2, <2>4, StillFlushing DEF Sending, GivenUp
  <2> QED BY <2>3, <2>4
<1> QED BY <1>1, <1>2, <1>3, <1>4 DEF SendingThread

LEMMA ReconnectWaiting ==
  ASSUME Typing, NEW a \in Actors, TryReconnect(a)
  PROVE  (Waiting /\ NoneStranded)'
  BY DEF TryReconnect, Waiting, NoneStranded

LEMMA CallbacksWaiting ==
  ASSUME Typing, Queued, Waiting, NoneStranded, NEW a \in Actors, Callback(a)
  PROVE  (Waiting /\ NoneStranded)'
<1>0. at \in [Actors -> Places] /\ Messages \subseteq Actors /\ behind \subseteq Messages
  BY DEF Typing, TypeOK, Actors
<1>1. CASE a \in Messages /\ SendCompletes(a)
  <2>1. /\ at[a] = "flying" /\ at'[a] = "flush" /\ UNCHANGED <<loop, socket, behind>>
        /\ \A x \in Messages \ {a} : at'[x] = at[x]
    BY <1>0, <1>1 DEF SendCompletes, Goto, clientVars, linkVars, historyVars
  <2>2. Waiting'
    BY <1>0, <2>1 DEF Waiting
  <2> QED BY <2>1, <2>2, StillFlushing DEF Sending, GivenUp
<1>2. CASE (a \in Messages /\ SendFails(a)) \/ (a = Receiver /\ ReceiveFails)
  BY <1>2, ReconnectWaiting DEF SendFails, ReceiveFails
<1>3. CASE a \in Messages /\ ProcessSendQueue(a)
  <2>1. CASE queue = <<>>
    <3>1. behind' = {}
      BY <1>3, <2>1, NothingBehind DEF ProcessSendQueue, historyVars
    <3> QED BY <3>1 DEF Waiting, NoneStranded
  <2>2. CASE queue # <<>> /\ CanSend
    <3>1. /\ at[a] = "flush" /\ at' = [at EXCEPT ![a] = "done", ![Head(queue)] = "flying"]
          /\ queue' = Tail(queue) /\ behind' = behind \ {Head(queue)}
      BY <1>3, <2>2 DEF ProcessSendQueue
    <3>2. Head(queue) \in Messages
      BY <2>2, <3>1, Taken DEF Typing, TypeOK
    <3>3. at'[Head(queue)] = "flying" /\ \A x \in Messages \ {a, Head(queue)} : at'[x] = at[x]
      BY <1>0, <3>1, <3>2
    <3>4. Waiting'
      BY <1>0, <3>1, <3>3 DEF Waiting
    <3> QED BY <3>2, <3>3, <3>4 DEF NoneStranded, Flushing
  <2>3. CASE queue # <<>> /\ ~CanSend
    BY <1>3, <2>3, ReconnectWaiting DEF ProcessSendQueue
  <2> QED BY <2>1, <2>2, <2>3
<1>4. CASE \/ a \in Messages /\ ClearBusy(a)
           \/ a = Receiver /\ ReceiveEnds
           \/ CheckReconnect(a)
  <2>1. /\ at[a] \in {"idle", "check"} \/ a = Receiver
        /\ at' \in {[at EXCEPT ![a] = "done"], [at EXCEPT ![a] = "release"]}
        /\ UNCHANGED <<loop, socket, behind>>
    BY <1>4 DEF ClearBusy, ReceiveEnds, CheckReconnect, Goto, clientVars, linkVars, historyVars
  <2>2. \A x \in Messages : at[x] \in Sending \cup {"queued"} => at'[x] = at[x]
    BY <1>0, <2>1, ServerClientAssumption DEF Sending
  <2>3. Waiting'
    BY <1>0, <2>1, <2>2 DEF Waiting
  <2> QED BY <2>1, <2>2, <2>3, StillFlushing DEF GivenUp
<1>5. CASE Release(a)
  <2>1. loop' = loop \/ (loop = "wait" /\ loop' = "woken")
    BY <1>5 DEF Release
  <2>2. at[a] = "release" /\ at' = [at EXCEPT ![a] = "done"] /\ UNCHANGED <<socket, behind>>
    BY <1>5 DEF Release, Goto, linkVars, historyVars
  <2>3. \A x \in Messages : at[x] \in Sending \cup {"queued"} => at'[x] = at[x]
    BY <1>0, <2>2 DEF Sending
  <2>4. Waiting'
    BY <1>0, <2>2, <2>3 DEF Waiting
  <2>5. loop \in Starting => loop' = loop
    BY <2>1 DEF Starting
  <2>6. GivenUp => GivenUp'
    BY <2>1, <2>2 DEF GivenUp
  <2> QED BY <2>2, <2>3, <2>4, <2>5, <2>6, StillFlushing
<1> QED BY <1>1, <1>2, <1>3, <1>4, <1>5 DEF Callback

LEMMA LoopWaiting ==
  ASSUME Typing, Queued, Waiting, NoneStranded, Loop
  PROVE  (Waiting /\ NoneStranded)'
<1>0. at \in [Actors -> Places] /\ Messages \subseteq Actors /\ behind \subseteq Messages
  BY DEF Typing, TypeOK, Actors
<1>1. CASE Connect \/ ConnectCompletes \/ ConnectFails \/ StartReceivingFails
  <2>1. loop' \in {"delay", "connect", "receive", "drain"} /\ UNCHANGED <<at, behind>>
    BY <1>1 DEF Connect, ConnectCompletes, ConnectFails, StartReceivingFails, LoopStep, historyVars
  <2> QED BY <2>1 DEF Waiting, NoneStranded, Flushing, GivenUp
<1>2. CASE StartReceiving
  <2>1. loop' = "flush" /\ behind' = behind /\ \A x \in Messages : at'[x] = at[x]
    BY <1>0, <1>2, ServerClientAssumption DEF StartReceiving, LoopStep, historyVars
  <2> QED BY <1>0, <2>1 DEF Waiting, NoneStranded, Flushing
<1>3. CASE LoopFlush
  <2>1. CASE queue = <<>>
    <3>1. behind' = {}
      BY <1>3, <2>1, NothingBehind DEF LoopFlush
    <3> QED BY <3>1 DEF Waiting, NoneStranded
  <2>2. CASE queue # <<>>
    <3>1. queue' = Tail(queue) /\ behind' = behind \ {Head(queue)}
      BY <1>3, <2>2 DEF LoopFlush
    <3>2. Head(queue) \in Messages
      BY <2>2, <3>1, Taken DEF Typing, TypeOK
    <3>3. \/ at' = [at EXCEPT ![Head(queue)] = "flying"]
          \/ at' = [at EXCEPT ![Head(queue)] = "done"] /\ loop' = "delay"
      BY <1>3, <2>2 DEF LoopFlush, LoopStep
    <3>4. Waiting'
      BY <1>0, <3>1, <3>2, <3>3 DEF Waiting
    <3>5. at'[Head(queue)] = "flying" \/ loop' = "delay"
      BY <1>0, <3>2, <3>3
    <3> QED BY <3>2, <3>4, <3>5 DEF NoneStranded, Flushing
  <2> QED BY <2>1, <2>2
<1>4. CASE LoopClearBusy \/ Online \/ Ready \/ Woken
  <2>1. /\ loop \notin Starting /\ (loop = "woken" => loop' = "drain") /\ loop # "drain"
        /\ UNCHANGED <<at, socket, behind>>
    BY <1>4 DEF LoopClearBusy, Online, Ready, Woken, LoopStep, Starting, linkVars, historyVars
  <2>2. Waiting'
    BY <2>1 DEF Waiting
  <2> QED BY <2>1, <2>2, StillFlushing DEF GivenUp
<1>5. CASE Drain
  BY <1>5 DEF Drain, Waiting, NoneStranded
<1> QED BY <1>1, <1>2, <1>3, <1>4, <1>5 DEF Loop

LEMMA NetworkWaiting ==
  ASSUME Waiting, NoneStranded, PeerCloses \/ Reset \/ UNCHANGED vars
  PROVE  (Waiting /\ NoneStranded)'
<1>1. UNCHANGED <<at, loop, behind>> /\ (socket' = socket \/ (socket \in {"up", "eof"}))
  BY DEF PeerCloses, Reset, vars, clientVars, linkVars, historyVars
<1>2. Waiting'
  BY <1>1 DEF Waiting
<1> QED BY <1>1, <1>2, StillFlushing DEF GivenUp

LEMMA StepWaiting ==
  ASSUME Typing, Queued, Waiting, NoneStranded, [Next]_vars
  PROVE  (Waiting /\ NoneStranded)'
  BY ThreadsWaiting, CallbacksWaiting, LoopWaiting, NetworkWaiting DEF Next

(* The whole invariant holds in every reachable state.                       *)
THEOREM Invariance == Spec => []IInv
<1>1. Init => IInv
  <2>1. ASSUME Init PROVE behind = {}
    BY <2>1 DEF Init
  <2> QED BY <2>1, InitTypes, InitBookkeeping DEF IInv, Bookkeeping, Waiting, NoneStranded
<1>2. IInv /\ [Next]_vars => IInv'
  BY StepTypes, StepKeeps, StepWaiting DEF IInv, Bookkeeping
<1> QED BY <1>1, <1>2, PTL DEF Spec

(* A message that is queued while a send is under way or before the loop has *)
(* flushed is never left without anybody to take it, however the sending    *)
(* threads, the callbacks and the loop are interleaved.                     *)
THEOREM NobodyStranded == Spec => []NoneStranded
<1>1. IInv => NoneStranded
  BY DEF IInv
<1> QED BY Invariance, <1>1, PTL

LEMMA WireDomain == TypeOK => DOMAIN wire = 1..Len(wire)
  BY DEF TypeOK

(* No message is given to a socket twice, by the sending thread, the         *)
(* callbacks and the loop together (Send, ProcessSendQueue).                *)
THEOREM OnceOnTheWire == Spec => []SentAtMostOnce
<1>1. IInv => SentAtMostOnce
  BY WireDomain DEF IInv, Typing, Given, SentAtMostOnce
<1> QED BY Invariance, <1>1, PTL

(* What is queued behind one connection is not delivered on another one.    *)
THEOREM NotCarriedOver == Spec => []NoCarryOver
<1>1. IInv => NoCarryOver
  BY WireDomain DEF IInv, Typing, Carried, NoCarryOver
<1> QED BY Invariance, <1>1, PTL

-----------------------------------------------------------------------------
(* The busy flag *)

Holders == {"begin", "flying", "flush", "idle"}

(* A socket that can send is there only from the moment it is connected.    *)
Usable == CanSend => loop \notin {"delay", "connect"}

Busy == Usable /\ BusyIsHeld

LEMMA InitBusy == Init => Busy
  BY DEF Init, Busy, Usable, BusyIsHeld, CanSend

LEMMA ThreadsBusy ==
  ASSUME Typing, Busy, NEW m \in Messages, Send(m) \/ SendingThread(m)
  PROVE  Busy'
<1>0. m \in Actors /\ Messages \subseteq Actors /\ at \in [Actors -> Places] /\ busy \in BOOLEAN
  BY DEF Typing, TypeOK, Actors
<1>1. UNCHANGED <<loop, socket>>
  BY DEF Send, SendingThread, Claim, BeginSend, Enqueue, clientVars, linkVars
<1>2. CASE Send(m) \/ Enqueue(m)
  <2>1. busy' = busy /\ \A x \in Messages : at[x] \in Holders => at'[x] \in Holders
    BY <1>0, <1>2 DEF Send, Enqueue, Goto, clientVars, Holders
  <2> QED BY <1>1, <2>1 DEF Busy, Usable, BusyIsHeld, CanSend, Holders
<1>3. CASE Claim(m)
  <2>1. at'[m] \in Holders
    BY <1>0, <1>3 DEF Claim, Goto, Holders
  <2> QED BY <1>1, <2>1 DEF Busy, Usable, BusyIsHeld, CanSend, Holders
<1>4. CASE BeginSend(m)
  <2>1. CASE CanSend
    <3>1. at'[m] \in Holders
      BY <1>0, <1>4, <2>1 DEF BeginSend, Goto, Holders
    <3> QED BY <1>1, <3>1 DEF Busy, Usable, BusyIsHeld, CanSend, Holders
  <2>2. CASE ~CanSend
    BY <1>1, <2>2 DEF Busy, Usable, BusyIsHeld, CanSend
  <2> QED BY <2>1, <2>2
<1> QED BY <1>2, <1>3, <1>4 DEF SendingThread

LEMMA ReconnectBusy == ASSUME NEW a \in Actors, TryReconnect(a) PROVE Busy'
  BY DEF TryReconnect, Busy, Usable, BusyIsHeld, CanSend

LEMMA CallbacksBusy ==
  ASSUME Typing, Busy, NEW a \in Actors, Callback(a)
  PROVE  Busy'
<1>0. Messages \subseteq Actors /\ at \in [Actors -> Places] /\ busy \in BOOLEAN /\ queue \in Seq(Messages)
  BY DEF Typing, TypeOK, Actors
<1>1. CASE (a \in Messages /\ SendCompletes(a)) \/ ReceiveEnds \/ CheckReconnect(a)
  <2>1. UNCHANGED <<loop, socket, busy>>
    BY <1>1 DEF SendCompletes, ReceiveEnds, CheckReconnect, clientVars, linkVars
  <2>2. \A x \in Messages : at[x] \in Holders => at'[x] \in Holders
    <3>1. CASE (a \in Messages /\ SendCompletes(a)) \/ CheckReconnect(a)
      BY <1>0, <3>1 DEF SendCompletes, CheckReconnect, Goto, Holders
    <3>2. CASE ReceiveEnds
      BY <1>0, <3>2, ServerClientAssumption DEF ReceiveEnds, Goto, Actors
    <3> QED BY <1>1, <3>1, <3>2
  <2> QED BY <2>1, <2>2 DEF Busy, Usable, BusyIsHeld, CanSend, Holders
<1>2. CASE (a \in Messages /\ SendFails(a)) \/ (a = Receiver /\ ReceiveFails)
  BY <1>2, ReconnectBusy DEF SendFails, ReceiveFails
<1>3. CASE a \in Messages /\ ProcessSendQueue(a)
  <2>1. CASE queue = <<>>
    <3>1. at'[a] \in Holders /\ UNCHANGED <<loop, socket>>
      BY <1>0, <1>3, <2>1 DEF ProcessSendQueue, clientVars, linkVars, Holders
    <3> QED BY <1>3, <3>1 DEF Busy, Usable, BusyIsHeld, CanSend, Holders
  <2>2. CASE queue # <<>> /\ CanSend
    <3>1. Head(queue) \in Messages
      BY <1>0, <2>2
    <3>2. at' = [at EXCEPT ![a] = "done", ![Head(queue)] = "flying"] /\ UNCHANGED <<loop, socket>>
      BY <1>3, <2>2 DEF ProcessSendQueue, linkVars
    <3>3. at'[Head(queue)] \in Holders
      BY <1>0, <3>1, <3>2 DEF Holders
    <3> QED BY <3>1, <3>2, <3>3 DEF Busy, Usable, BusyIsHeld, CanSend, Holders
  <2>3. CASE queue # <<>> /\ ~CanSend
    BY <1>3, <2>3, ReconnectBusy DEF ProcessSendQueue
  <2> QED BY <2>1, <2>2, <2>3
<1>4. CASE a \in Messages /\ ClearBusy(a)
  BY <1>4 DEF ClearBusy, linkVars, Busy, Usable, BusyIsHeld, CanSend
<1>5. CASE Release(a)
  <2>1. UNCHANGED <<socket, busy>> /\ (loop' = loop \/ (loop = "wait" /\ loop' = "woken"))
    BY <1>5 DEF Release, linkVars
  <2>2. \A x \in Messages : at[x] \in Holders => at'[x] \in Holders
    BY <1>0, <1>5 DEF Release, Goto, Holders
  <2> QED BY <2>1, <2>2 DEF Busy, Usable, BusyIsHeld, CanSend, Holders
<1> QED BY <1>1, <1>2, <1>3, <1>4, <1>5 DEF Callback

LEMMA LoopBusy == ASSUME Typing, Busy, Loop PROVE Busy'
<1>0. Messages \subseteq Actors /\ at \in [Actors -> Places] /\ busy \in BOOLEAN /\ queue \in Seq(Messages)
  BY DEF Typing, TypeOK, Actors
<1>1. CASE Connect
  BY <1>1 DEF Connect, Busy, Usable, BusyIsHeld, CanSend
<1>2. CASE ConnectCompletes \/ ConnectFails
  BY <1>2 DEF ConnectCompletes, ConnectFails, LoopStep, linkVars, Typing, Linked,
              Busy, Usable, BusyIsHeld, CanSend
<1>3. CASE StartReceiving \/ StartReceivingFails
  BY <1>3 DEF StartReceiving, StartReceivingFails, LoopStep, linkVars,
              Busy, Usable, BusyIsHeld, CanSend
<1>4. CASE LoopFlush
  <2>1. CASE queue = <<>>
    BY <1>4, <2>1 DEF LoopFlush, LoopStep, linkVars, Busy, Usable, BusyIsHeld, CanSend
  <2>2. CASE queue # <<>> /\ CanSend
    <3>1. Head(queue) \in Messages
      BY <1>0, <2>2
    <3>2. at' = [at EXCEPT ![Head(queue)] = "flying"] /\ loop' = "online"
      BY <1>4, <2>2 DEF LoopFlush, LoopStep
    <3>3. at'[Head(queue)] \in Holders
      BY <1>0, <3>1, <3>2 DEF Holders
    <3> QED BY <3>1, <3>2, <3>3 DEF Busy, Usable, BusyIsHeld, CanSend, Holders
  <2>3. CASE queue # <<>> /\ ~CanSend
    BY <1>4, <2>3 DEF LoopFlush, linkVars, Busy, Usable, BusyIsHeld, CanSend
  <2> QED BY <2>1, <2>2, <2>3
<1>5. CASE LoopClearBusy
  BY <1>5 DEF LoopClearBusy, LoopStep, Busy, Usable, BusyIsHeld, CanSend
<1>6. CASE Online \/ Ready \/ Woken
  <2>1. UNCHANGED <<at, busy, socket>> /\ loop \notin {"receive", "flush", "clear"}
        /\ loop' \notin {"delay", "connect"}
    BY <1>6 DEF Online, Ready, Woken, LoopStep, linkVars
  <2> QED BY <2>1 DEF Busy, Usable, BusyIsHeld, CanSend
<1>7. CASE Drain
  BY <1>7 DEF Drain, Busy, Usable, BusyIsHeld, CanSend
<1> QED BY <1>1, <1>2, <1>3, <1>4, <1>5, <1>6, <1>7 DEF Loop

LEMMA StepBusy == ASSUME Typing, Busy, [Next]_vars PROVE Busy'
<1>1. CASE PeerCloses \/ Reset
  BY <1>1 DEF PeerCloses, Reset, clientVars, Busy, Usable, BusyIsHeld, CanSend
<1>2. CASE UNCHANGED vars
  BY <1>2 DEF vars, clientVars, linkVars, Busy, Usable, BusyIsHeld, CanSend
<1> QED BY <1>1, <1>2, ThreadsBusy, CallbacksBusy, LoopBusy DEF Next

(* The busy flag is set on a socket that can send only while a send is under *)
(* way or the loop is about to clear it, so that no later Send queues its   *)
(* message for nobody: Send, BeginSend's callback, ProcessSendQueue and     *)
(* TryReconnect of ServerClient.                                            *)
THEOREM BusyHeld == Spec => []BusyIsHeld
<1>1. Busy => BusyIsHeld
  BY DEF Busy
<1> QED BY InitTypes, StepTypes, InitBusy, StepBusy, <1>1, PTL DEF Spec

-----------------------------------------------------------------------------
(* The client implements the outbox                                         *)

(* The initial states are mapped to the initial state.                      *)
LEMMA InitSender == Init => Sender!Init
<1> SUFFICES ASSUME Init PROVE Sender!Init
  OBVIOUS
<1>1. \A m \in Messages : at[m] = "new"
  BY ServerClientAssumption DEF Init, Actors
<1>2. Held = Messages
  BY <1>1 DEF Held, Unsent
<1> QED BY <1>2 DEF Init, Sender!Init

\* Messages that are dropped before they are sent are lost; a step that drops
\* none is a stutter.
LEMMA Losing ==
  ASSUME UNCHANGED <<wire, queuedOn, connection>>,
         \A m \in Messages : at'[m] \in Unsent => at[m] \in Unsent
  PROVE  Sender!Next
<1> DEFINE Lost == Held \ Held'
<1>1. Held' = Held \ Lost /\ Lost \in SUBSET Messages
  BY DEF Held
<1>2. Sender!Lose(Lost)
  BY <1>1 DEF Sender!Lose
<1> QED BY <1>1, <1>2 DEF Sender!Next

LEMMA Giving ==
  ASSUME Typing, Bookkeeping, NEW m \in Messages, at[m] \in Unsent, at'[m] \notin Unsent,
         \A n \in Messages \ {m} : at'[n] \in Unsent <=> at[n] \in Unsent,
         connection > 0, wire' = Append(wire, <<m, connection>>),
         UNCHANGED <<queuedOn, connection>>
  PROVE  Sender!Next
<1>1. m \in Held /\ Held' = Held \ {m}
  BY DEF Held
<1>2. queuedOn[m] \in {0, connection}
  BY DEF Bookkeeping, Carried
<1>3. Sender!Give(m)
  BY <1>1, <1>2 DEF Sender!Give
<1> QED BY <1>3 DEF Sender!Next

LEMMA ThreadSends ==
  ASSUME Typing, Bookkeeping, NEW m \in Messages, Send(m) \/ SendingThread(m)
  PROVE  [Sender!Next]_(Sender!outboxVars)
<1>0. at \in [Actors -> Places] /\ Messages \subseteq Actors
  BY DEF Typing, TypeOK, Actors
<1>1. CASE Send(m) \/ Claim(m) \/ (BeginSend(m) /\ ~CanSend)
  BY <1>1, QuietThreads, Losing DEF Quiet
<1>2. CASE BeginSend(m) /\ CanSend
  <2>1. /\ at[m] = "begin" /\ at' = [at EXCEPT ![m] = "flying"]
        /\ wire' = Append(wire, <<m, connection>>) /\ UNCHANGED <<queuedOn, connection>>
    BY <1>2 DEF BeginSend, Goto, linkVars, historyVars
  <2>2. connection > 0
    BY <1>2 DEF CanSend, Typing, Linked
  <2> QED BY <1>0, <2>1, <2>2, Giving DEF Unsent
<1>3. CASE Enqueue(m)
  <2>1. /\ at[m] = "enqueue" /\ at' = [at EXCEPT ![m] = "queued"]
        /\ queuedOn' = [queuedOn EXCEPT ![m] = IF connected THEN connection ELSE 0]
        /\ UNCHANGED <<connection, wire>>
    BY <1>3 DEF Enqueue, Goto, linkVars
  <2>2. Held' = Held /\ m \in Held
    BY <1>0, <2>1 DEF Held, Unsent
  <2>3. queuedOn[m] = 0 /\ queuedOn \in [Messages -> 0..MaxConnections]
    BY <2>1 DEF Bookkeeping, Carried, Unsent, Typing, TypeOK
  <2>4. CASE connected
    <3>1. Sender!Bind(m)
      BY <2>1, <2>2, <2>3, <2>4 DEF Sender!Bind
    <3> QED BY <3>1 DEF Sender!Next
  <2>5. CASE ~connected
    <3>1. queuedOn' = queuedOn
      BY <2>1, <2>3, <2>5
    <3> QED BY <2>1, <2>2, <3>1 DEF Sender!outboxVars
  <2> QED BY <2>4, <2>5
<1> QED BY <1>1, <1>2, <1>3 DEF SendingThread

LEMMA ReconnectLoses ==
  ASSUME Typing, NEW a \in Actors, TryReconnect(a)
  PROVE  Sender!Next
<1>1. /\ at'[a] = "check"
      /\ \A x \in Actors \ {a} : at'[x] = IF at[x] = "queued" THEN "done" ELSE at[x]
      /\ UNCHANGED <<wire, queuedOn, connection>>
  BY Reconnects DEF Typing
<1>2. \A m \in Messages : at'[m] \in Unsent => at[m] \in Unsent
  BY <1>1 DEF Actors, Unsent
<1> QED BY <1>1, <1>2, Losing

LEMMA CallbackSends ==
  ASSUME Typing, Bookkeeping, NEW a \in Actors, Callback(a)
  PROVE  Sender!Next
<1>0. at \in [Actors -> Places] /\ Messages \subseteq Actors
  BY DEF Typing, TypeOK, Actors
<1>1. CASE a \in Messages /\ ProcessSendQueue(a) /\ queue # <<>> /\ CanSend
  <2>1. /\ at[a] = "flush" /\ at' = [at EXCEPT ![a] = "done", ![Head(queue)] = "flying"]
        /\ queue' = Tail(queue) /\ wire' = Append(wire, <<Head(queue), connection>>)
        /\ UNCHANGED <<queuedOn, connection>>
    BY <1>1 DEF ProcessSendQueue, linkVars
  <2>2. Head(queue) \in Messages /\ Head(queue) = queue[1] /\ 1 \in 1..Len(queue)
    BY <1>1, <2>1, Taken DEF Typing, TypeOK
  <2>3. at[Head(queue)] = "queued" /\ connection > 0
    BY <1>1, <2>2 DEF Bookkeeping, Queued, CanSend, Typing, Linked
  <2>4. at'[Head(queue)] = "flying" /\ at'[a] \notin Unsent /\ at[a] \notin Unsent
        /\ \A n \in Messages \ {a, Head(queue)} : at'[n] = at[n]
    BY <1>0, <2>1, <2>2, <2>3 DEF Unsent
  <2>5. /\ at[Head(queue)] \in Unsent /\ at'[Head(queue)] \notin Unsent
        /\ \A n \in Messages \ {Head(queue)} : at'[n] \in Unsent <=> at[n] \in Unsent
    BY <2>3, <2>4 DEF Unsent
  <2> QED BY <2>1, <2>2, <2>3, <2>5, Giving
<1>2. CASE a \in Messages /\ ProcessSendQueue(a) /\ queue # <<>> /\ ~CanSend
  BY <1>2, ReconnectLoses DEF ProcessSendQueue
<1>3. CASE (a \in Messages /\ SendFails(a)) \/ (a = Receiver /\ ReceiveFails)
  BY <1>3, ReconnectLoses DEF SendFails, ReceiveFails
<1>4. CASE \/ a \in Messages /\ (SendCompletes(a) \/ ClearBusy(a))
           \/ ProcessSendQueue(a) /\ queue = <<>>
           \/ a = Receiver /\ ReceiveEnds
           \/ CheckReconnect(a) \/ Release(a)
  BY <1>4, QuietCallbacks, Losing DEF Quiet
<1> QED BY <1>1, <1>2, <1>3, <1>4 DEF Callback

LEMMA LoopSends ==
  ASSUME Typing, Bookkeeping, Loop
  PROVE  Sender!Next
<1>0. at \in [Actors -> Places] /\ Messages \subseteq Actors
  BY DEF Typing, TypeOK, Actors
<1>1. CASE Connect
  <2>1. /\ UNCHANGED <<at, wire, queuedOn>> /\ connection' = connection + 1 /\ loop = "delay"
    BY <1>1 DEF Connect, LoopStep, historyVars
  <2>2. Held' = Held /\ \A m \in Held : queuedOn[m] = 0
    BY <2>1 DEF Held, Bookkeeping, Carried
  <2>3. Sender!Open
    BY <2>1, <2>2 DEF Sender!Open
  <2> QED BY <2>3 DEF Sender!Next
<1>2. CASE LoopFlush /\ queue # <<>>
  <2>1. queue' = Tail(queue) /\ UNCHANGED <<queuedOn, connection>>
    BY <1>2 DEF LoopFlush, linkVars
  <2>2. Head(queue) \in Messages /\ Head(queue) = queue[1] /\ 1 \in 1..Len(queue)
    BY <1>2, <2>1, Taken DEF Typing, TypeOK
  <2>3. at[Head(queue)] = "queued"
    BY <2>2 DEF Bookkeeping, Queued
  <2>4. CASE CanSend
    <3>1. at' = [at EXCEPT ![Head(queue)] = "flying"] /\ wire' = Append(wire, <<Head(queue), connection>>)
      BY <1>2, <2>4 DEF LoopFlush
    <3>2. connection > 0
      BY <2>4 DEF CanSend, Typing, Linked
    <3>3. /\ at[Head(queue)] \in Unsent /\ at'[Head(queue)] \notin Unsent
          /\ \A n \in Messages \ {Head(queue)} : at'[n] \in Unsent <=> at[n] \in Unsent
      BY <1>0, <2>2, <2>3, <3>1 DEF Unsent
    <3> QED BY <2>1, <2>2, <3>1, <3>2, <3>3, Giving
  <2>5. CASE ~CanSend
    <3>1. at' = [at EXCEPT ![Head(queue)] = "done"] /\ wire' = wire
      BY <1>2, <2>5 DEF LoopFlush
    <3>2. \A m \in Messages : at'[m] \in Unsent => at[m] \in Unsent
      BY <1>0, <3>1 DEF Unsent
    <3> QED BY <2>1, <3>1, <3>2, Losing
  <2> QED BY <2>4, <2>5
<1>3. CASE Drain
  <2>1. \A x \in Actors : at'[x] = IF at[x] = "queued" THEN "done" ELSE at[x]
    BY <1>3, DrainedTypes DEF Drain, Typing, TypeOK
  <2>2. \A m \in Messages : at'[m] \in Unsent => at[m] \in Unsent
    BY <1>0, <2>1 DEF Unsent
  <2> QED BY <1>3, <2>2, Losing DEF Drain
<1>4. CASE \/ ConnectCompletes \/ ConnectFails \/ StartReceiving \/ StartReceivingFails
           \/ LoopClearBusy \/ Online \/ Ready \/ Woken
           \/ LoopFlush /\ queue = <<>>
  BY <1>4, QuietLoop, Losing DEF Quiet
<1> QED BY <1>1, <1>2, <1>3, <1>4 DEF Loop

LEMMA StepSends ==
  ASSUME Typing, Bookkeeping, [Next]_vars
  PROVE  [Sender!Next]_(Sender!outboxVars)
<1>1. CASE PeerCloses \/ Reset \/ UNCHANGED vars
  BY <1>1, QuietNetwork, Losing DEF Quiet
<1> QED BY <1>1, ThreadSends, CallbackSends, LoopSends DEF Next

(* What the sending threads, the callbacks and the loop do together is what *)
(* the outbox does: LiveServerClient gives each message once to the         *)
(* connection of the moment, or loses it.                                   *)
THEOREM OutboxRefinement == Spec => ImplementsOutbox
<1>1. IInv => Typing /\ Bookkeeping
  BY DEF IInv, Bookkeeping
<1> QED BY Invariance, InitSender, StepSends, <1>1, PTL DEF Spec, ImplementsOutbox, Sender!Spec
=============================================================================
