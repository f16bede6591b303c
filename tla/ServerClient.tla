---------------------------- MODULE ServerClient ----------------------------
(***************************************************************************)
(* The runtime's connection to its dashboard: LiveServerClient over a      *)
(* SocketTransport.  Application threads send messages; a message goes     *)
(* straight to the transport when nothing is being sent, and to a queue    *)
(* otherwise; the callback of each completed send takes the next one off   *)
(* the queue.  An asynchronous loop connects, waits until somebody reports *)
(* a failure, and connects again.                                          *)
(*                                                                         *)
(* Each message is sent by a thread of its own, and the callback of its    *)
(* BeginSend continues under the message's name, so `at` is the program    *)
(* counter of both.                                                        *)
(***************************************************************************)
EXTENDS Naturals, Sequences, FiniteSets

CONSTANTS
  Messages,
  Receiver,        \* the pending BeginReceive, an actor beside the messages
  MaxConnections   \* bound: how many sockets the loop opens

ASSUME ServerClientAssumption ==
  /\ Receiver \notin Messages
  /\ MaxConnections \in Nat \ {0}

Actors == Messages \cup {Receiver}

VARIABLES
  at,            \* where each message's thread and each callback is
  queue,         \* _sendQueue
  busy,          \* _isBusy
  connected,     \* _isConnected
  reconnecting,  \* _isReconnecting
  tokens,        \* _reconnectSemaphor.CurrentCount
  overflow,      \* a Release beyond the semaphore's maximum has thrown
  loop,          \* where Connect is
  socket,        \* the state of the transport's current _socket
  connection,    \* how many sockets have been opened
  wire,          \* history: the messages given to a socket, and to which one
  queuedOn,      \* history: the connection that was up when a message was queued
  behind         \* history: those in the queue that were put there in front of
                 \* somebody who was still to flush it

clientVars == <<queue, busy, connected, reconnecting, tokens, overflow, loop>>
linkVars == <<socket, connection>>
historyVars == <<queuedOn, behind>>
vars == <<at, clientVars, linkVars, wire, historyVars>>

\* "new" .. "queued": the sending thread; "flying" ..: the send's callback.
Places == {"new", "claim", "begin", "enqueue", "queued",
           "flying", "flush", "idle", "check", "release", "done"}

(* The values the variables take; the semaphore never holds two tokens.    *)
TypeOK ==
  /\ at \in [Actors -> Places]
  /\ queue \in Seq(Messages)
  /\ {busy, connected, reconnecting, overflow} \subseteq BOOLEAN
  /\ tokens \in 0..1
  /\ loop \in {"delay", "connect", "receive", "flush", "clear", "online", "ready",
               "wait", "woken", "drain"}
  /\ socket \in {"none", "connecting", "up", "eof", "lost", "closed"}
  /\ connection \in 0..MaxConnections
  /\ wire \in Seq(Messages \X (1..MaxConnections))
  /\ queuedOn \in [Messages -> 0..MaxConnections]
  /\ behind \subseteq Messages

Init ==
  /\ at = [a \in Actors |-> IF a = Receiver THEN "done" ELSE "new"]
  /\ queue = <<>>
  /\ busy = TRUE
  /\ connected = FALSE
  /\ reconnecting = FALSE
  /\ tokens = 0
  /\ overflow = FALSE
  /\ loop = "delay"
  /\ socket = "none"
  /\ connection = 0
  /\ wire = <<>>
  /\ queuedOn = [m \in Messages |-> 0]
  /\ behind = {}

Goto(a, from, to) == at[a] = from /\ at' = [at EXCEPT ![a] = to]

\* BeginSend is accepted by a socket that has not failed in front of us.
CanSend == socket \in {"up", "eof"}

-----------------------------------------------------------------------------
\* Send(ServerMessage), on any thread.

Send(m) ==
  /\ Goto(m, "new", IF ~busy /\ connected THEN "claim" ELSE "enqueue")
  /\ UNCHANGED <<clientVars, linkVars, wire, historyVars>>

Claim(m) ==
  /\ Goto(m, "claim", "begin")
  /\ busy' = TRUE
  /\ UNCHANGED <<queue, connected, reconnecting, tokens, overflow, loop,
                 linkVars, wire, historyVars>>

\* An exception of BeginSend is logged and swallowed: the message is lost and
\* nobody clears the busy flag.
BeginSend(m) ==
  /\ Goto(m, "begin", IF CanSend THEN "flying" ELSE "done")
  /\ wire' = IF CanSend THEN Append(wire, <<m, connection>>) ELSE wire
  /\ UNCHANGED <<clientVars, linkVars, historyVars>>

\* Somebody is still to look at the queue: a send that is under way, or the loop.
Flushing ==
  \/ \E m \in Messages : at[m] \in {"claim", "begin", "flying", "flush"}
  \/ loop \in {"delay", "connect", "receive", "flush"}

Enqueue(m) ==
  /\ Goto(m, "enqueue", "queued")
  /\ queue' = Append(queue, m)
  /\ queuedOn' = [queuedOn EXCEPT ![m] = IF connected THEN connection ELSE 0]
  /\ behind' = IF Flushing THEN behind \cup {m} ELSE behind
  /\ UNCHANGED <<busy, connected, reconnecting, tokens, overflow, loop, linkVars, wire>>

-----------------------------------------------------------------------------
\* The callbacks.

\* What the drains do to the messages they take off the queue.
Drained(f) == [a \in Actors |-> IF f[a] = "queued" THEN "done" ELSE f[a]]

\* TryReconnect up to its test: drain, clear busy, close the current socket.
TryReconnect(a) ==
  /\ at' = Drained([at EXCEPT ![a] = "check"])
  /\ queue' = <<>>
  /\ busy' = FALSE
  /\ behind' = {}
  /\ socket' = "closed"
  /\ UNCHANGED <<connected, reconnecting, tokens, overflow, loop,
                 connection, wire, queuedOn>>

\* `!_isReconnecting && CurrentCount == 0` ...
CheckReconnect(a) ==
  /\ Goto(a, "check", IF ~reconnecting /\ tokens = 0 THEN "release" ELSE "done")
  /\ UNCHANGED <<clientVars, linkVars, wire, historyVars>>

\* ... then Release: a token goes to the waiter, if there is one, at once.
Release(a) ==
  /\ Goto(a, "release", "done")
  /\ \/ loop = "wait" /\ loop' = "woken" /\ UNCHANGED <<tokens, overflow>>
     \/ loop # "wait" /\ tokens = 0 /\ tokens' = 1 /\ UNCHANGED <<loop, overflow>>
     \/ loop # "wait" /\ tokens = 1 /\ overflow' = TRUE /\ UNCHANGED <<loop, tokens>>
  /\ UNCHANGED <<queue, busy, connected, reconnecting, linkVars, wire, historyVars>>

SendCompletes(m) ==
  /\ CanSend
  /\ Goto(m, "flying", "flush")
  /\ UNCHANGED <<clientVars, linkVars, wire, historyVars>>

\* Mutant: a send that has failed is tried again.
SendRetries(m) ==
  /\ socket \in {"lost", "closed"}
  /\ Goto(m, "flying", "begin")
  /\ UNCHANGED <<clientVars, linkVars, wire, historyVars>>

SendFails(m) ==
  /\ at[m] = "flying"
  /\ socket \in {"lost", "closed"}
  /\ TryReconnect(m)

\* Mutant: the callback clears busy without looking at the queue.
SkipQueue(m) ==
  /\ Goto(m, "flush", "idle")
  /\ UNCHANGED <<clientVars, linkVars, wire, historyVars>>

\* ProcessSendQueue from the callback: take the next message and begin to send
\* it, or go and clear busy.  An exception leads to TryReconnect.
ProcessSendQueue(m) ==
  /\ at[m] = "flush"
  /\ \/ /\ queue = <<>>
        /\ at' = [at EXCEPT ![m] = "idle"]
        /\ UNCHANGED <<clientVars, linkVars, wire, historyVars>>
     \/ /\ queue # <<>>
        /\ CanSend
        /\ at' = [at EXCEPT ![m] = "done", ![Head(queue)] = "flying"]
        /\ queue' = Tail(queue)
        /\ behind' = behind \ {Head(queue)}
        /\ wire' = Append(wire, <<Head(queue), connection>>)
        /\ UNCHANGED <<busy, connected, reconnecting, tokens, overflow, loop,
                       linkVars, queuedOn>>
     \/ /\ queue # <<>>
        /\ ~CanSend
        /\ TryReconnect(m)

\* Mutant: the callback that finds the queue empty leaves the flag set.
KeepBusy(m) ==
  /\ Goto(m, "idle", "done")
  /\ UNCHANGED <<clientVars, linkVars, wire, historyVars>>

ClearBusy(m) ==
  /\ Goto(m, "idle", "done")
  /\ busy' = FALSE
  /\ UNCHANGED <<queue, connected, reconnecting, tokens, overflow, loop,
                 linkVars, wire, historyVars>>

\* EndReceive: an exception is reported; end of stream (0 bytes) is not, the
\* transport just stops receiving.
ReceiveFails ==
  /\ at[Receiver] = "flying"
  /\ socket \in {"lost", "closed"}
  /\ TryReconnect(Receiver)

ReceiveEnds ==
  /\ socket = "eof"
  /\ Goto(Receiver, "flying", "done")
  /\ UNCHANGED <<clientVars, linkVars, wire, historyVars>>

-----------------------------------------------------------------------------
\* The loop of Connect.

LoopStep(from, to) == loop = from /\ loop' = to

\* Five seconds after a disconnection (or at once, the first time) a socket is
\* opened.  Callbacks of a disposed socket, and threads inside Send, are taken
\* to be through by then.
Settled ==
  /\ \A m \in Messages : at[m] \in {"new", "queued", "done"}
  /\ at[Receiver] = "done"

Connect ==
  /\ LoopStep("delay", "connect")
  /\ connection < MaxConnections
  /\ Settled
  /\ connection' = connection + 1
  /\ socket' = "connecting"
  /\ UNCHANGED <<at, queue, busy, connected, reconnecting, tokens, overflow,
                 wire, historyVars>>

ConnectCompletes ==
  /\ LoopStep("connect", "receive")
  /\ socket' = "up"
  /\ UNCHANGED <<at, queue, busy, connected, reconnecting, tokens, overflow,
                 connection, wire, historyVars>>

\* Refused, or not connected within three seconds.
ConnectFails ==
  /\ LoopStep("connect", "drain")
  /\ UNCHANGED <<at, queue, busy, connected, reconnecting, tokens, overflow,
                 linkVars, wire, historyVars>>

StartReceiving ==
  /\ LoopStep("receive", "flush")
  /\ at' = [at EXCEPT ![Receiver] = "flying"]
  /\ UNCHANGED <<queue, busy, connected, reconnecting, tokens, overflow,
                 linkVars, wire, historyVars>>

\* BeginReceive throws: the same exception path as in LoopFlush below.
StartReceivingFails ==
  /\ LoopStep("receive", "delay")
  /\ ~CanSend
  /\ UNCHANGED <<at, queue, busy, connected, reconnecting, tokens, overflow,
                 linkVars, wire, historyVars>>

\* Mutant: the loop peeks at the queue and leaves the message there.
LoopFlushPeeks ==
  /\ \/ /\ queue = <<>>
        /\ LoopStep("flush", "clear")
        /\ UNCHANGED <<at, wire>>
     \/ /\ queue # <<>>
        /\ LoopStep("flush", "online")
        /\ at' = [at EXCEPT ![Head(queue)] = "flying"]
        /\ wire' = Append(wire, <<Head(queue), connection>>)
  /\ UNCHANGED <<queue, busy, connected, reconnecting, tokens, overflow,
                 linkVars, historyVars>>

\* ProcessSendQueue from the loop.  An exception skips everything up to the
\* five-second delay, the closing of the socket included.
LoopFlush ==
  /\ \/ /\ queue = <<>>
        /\ LoopStep("flush", "clear")
        /\ UNCHANGED <<at, queue, behind, wire>>
     \/ /\ queue # <<>>
        /\ CanSend
        /\ LoopStep("flush", "online")
        /\ at' = [at EXCEPT ![Head(queue)] = "flying"]
        /\ queue' = Tail(queue)
        /\ behind' = behind \ {Head(queue)}
        /\ wire' = Append(wire, <<Head(queue), connection>>)
     \/ /\ queue # <<>>
        /\ ~CanSend
        /\ LoopStep("flush", "delay")
        /\ at' = [at EXCEPT ![Head(queue)] = "done"]
        /\ queue' = Tail(queue)
        /\ behind' = behind \ {Head(queue)}
        /\ UNCHANGED wire
  /\ UNCHANGED <<busy, connected, reconnecting, tokens, overflow, linkVars, queuedOn>>

LoopClearBusy ==
  /\ LoopStep("clear", "online")
  /\ busy' = FALSE
  /\ UNCHANGED <<at, queue, connected, reconnecting, tokens, overflow,
                 linkVars, wire, historyVars>>

Online ==
  /\ LoopStep("online", "ready")
  /\ connected' = TRUE
  /\ UNCHANGED <<at, queue, busy, reconnecting, tokens, overflow,
                 linkVars, wire, historyVars>>

\* Mutant: the flag of a reconnection is never cleared.
ReadyStillReconnecting ==
  /\ loop = "ready"
  /\ loop' = IF tokens = 1 THEN "woken" ELSE "wait"
  /\ tokens' = 0
  /\ UNCHANGED <<at, queue, busy, connected, reconnecting, overflow,
                 linkVars, wire, historyVars>>

\* onConnect, whose sends are those of any thread, then `_isReconnecting = false`
\* and WaitAsync, which takes a token that is already there.
Ready ==
  /\ loop = "ready"
  /\ reconnecting' = FALSE
  /\ loop' = IF tokens = 1 THEN "woken" ELSE "wait"
  /\ tokens' = 0
  /\ UNCHANGED <<at, queue, busy, connected, overflow, linkVars, wire, historyVars>>

Woken ==
  /\ LoopStep("woken", "drain")
  /\ connected' = FALSE
  /\ reconnecting' = TRUE
  /\ UNCHANGED <<at, queue, busy, tokens, overflow, linkVars, wire, historyVars>>

\* Mutant: the end of a connection does not drain the queue.
DrainNothing ==
  /\ LoopStep("drain", "delay")
  /\ socket' = "closed"
  /\ UNCHANGED <<at, queue, busy, connected, reconnecting, tokens, overflow,
                 connection, wire, historyVars>>

Drain ==
  /\ LoopStep("drain", "delay")
  /\ at' = Drained(at)
  /\ queue' = <<>>
  /\ behind' = {}
  /\ socket' = "closed"
  /\ UNCHANGED <<busy, connected, reconnecting, tokens, overflow,
                 connection, wire, queuedOn>>

-----------------------------------------------------------------------------
\* The network: the dashboard closes the connection, or it is reset.
PeerCloses ==
  /\ socket = "up"
  /\ socket' = "eof"
  /\ UNCHANGED <<at, clientVars, connection, wire, historyVars>>

Reset ==
  /\ socket \in {"up", "eof"}
  /\ socket' = "lost"
  /\ UNCHANGED <<at, clientVars, connection, wire, historyVars>>

-----------------------------------------------------------------------------
SendingThread(m) == Claim(m) \/ BeginSend(m) \/ Enqueue(m)

Callback(a) ==
  \/ a \in Messages /\ (\/ SendCompletes(a) \/ SendFails(a)
                        \/ ProcessSendQueue(a) \/ ClearBusy(a))
  \/ a = Receiver /\ (ReceiveFails \/ ReceiveEnds)
  \/ CheckReconnect(a) \/ Release(a)

Loop ==
  \/ Connect \/ ConnectCompletes \/ ConnectFails
  \/ StartReceiving \/ StartReceivingFails \/ LoopFlush
  \/ LoopClearBusy \/ Online \/ Ready \/ Woken \/ Drain

Next ==
  \/ \E m \in Messages : Send(m) \/ SendingThread(m)
  \/ \E a \in Actors : Callback(a)
  \/ Loop
  \/ PeerCloses \/ Reset

Spec == Init /\ [][Next]_vars

\* Threads run, pending operations of the socket complete and the loop goes on;
\* nothing makes an application send, a peer close or a connection break.
FairSpec ==
  /\ Spec
  /\ \A m \in Messages : WF_vars(SendingThread(m))
  /\ \A a \in Actors : WF_vars(Callback(a))
  /\ WF_vars(Loop)

-----------------------------------------------------------------------------
(* No message is given to a socket twice, whichever of the sending thread, *)
(* the callbacks and the loop takes it, and over any reconnection.         *)
SentAtMostOnce ==
  \A i, j \in DOMAIN wire : wire[i][1] = wire[j][1] => i = j

(* A message queued behind a connection that then fails is not delivered   *)
(* on a later one: it is dropped by one of the two drains.                 *)
NoCarryOver ==
  \A i \in DOMAIN wire :
    queuedOn[wire[i][1]] # 0 => wire[i][2] = queuedOn[wire[i][1]]

(* A message that is queued while a send is under way, or before the loop  *)
(* has flushed, does not lie in the queue with nobody left to take it: the *)
(* callbacks hand the queue on to each other until it is empty, or the     *)
(* connection is being given up.  A message that is put there just after   *)
(* the last of them has looked does lie there, until another is sent.      *)
GivenUp ==
  \/ socket \in {"lost", "closed"}
  \/ loop \in {"woken", "drain"}

NoneStranded == behind # {} => Flushing \/ GivenUp

(* The reconnection token is never released beyond the maximum of one that *)
(* the semaphore is built with; Release would throw in a socket callback.  *)
NoOverflow == ~overflow

(* On a socket that can send, the busy flag is set only while somebody is   *)
(* about to clear it: a send under way, or the loop that has just connected *)
(* - also if a send has failed and left it set on an earlier socket.        *)
BusyIsHeld ==
  (busy /\ CanSend) =>
     \/ \E m \in Messages : at[m] \in {"begin", "flying", "flush", "idle"}
     \/ loop \in {"receive", "flush", "clear"}

(* The busy flag does not stay set while the connection is up: whoever set *)
(* it, some callback clears it, even if the send it was set for has failed *)
(* on an earlier socket.                                                   *)
NotWedged == (busy /\ loop = "wait" /\ socket = "up") ~> ~(busy /\ socket = "up")

(* A failure that reaches TryReconnect while the loop waits ends the wait. *)
FailureEndsWait ==
  ((\E a \in Actors : at[a] = "check") /\ loop = "wait") ~> loop # "wait"

-----------------------------------------------------------------------------
(* The client implements the outbox: each message is given once, to the    *)
(* connection of the moment, or is lost; none that was queued behind a     *)
(* connection outlives it.                                                 *)
Unsent == {"new", "claim", "begin", "enqueue", "queued"}

Held == {m \in Messages : at[m] \in Unsent}

Sender == INSTANCE Outbox WITH held <- Held, bound <- queuedOn, given <- wire

ImplementsOutbox == Sender!Spec
=============================================================================
