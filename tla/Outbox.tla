------------------------------- MODULE Outbox -------------------------------
(***************************************************************************)
(* What the runtime's connection promises to those who send, without its   *)
(* queue, flags, callbacks and loop: a message is held until it is given   *)
(* to the connection that is then the latest, or lost, and either is for   *)
(* good.  A message that is bound to a connection is given to no other,    *)
(* and no connection is opened while one is bound to the connection before.*)
(***************************************************************************)
EXTENDS Naturals, Sequences

CONSTANT Messages

VARIABLES
  held,       \* messages that are still to be given or lost
  bound,      \* the connection each is bound to, or 0
  given,      \* the messages given to a connection, with it, in order
  connection  \* the latest connection

outboxVars == <<held, bound, given, connection>>

Init ==
  /\ held = Messages
  /\ bound = [m \in Messages |-> 0]
  /\ given = <<>>
  /\ connection = 0

Bind(m) ==
  /\ m \in held
  /\ bound[m] = 0
  /\ bound' = [bound EXCEPT ![m] = connection]
  /\ UNCHANGED <<held, given, connection>>

Give(m) ==
  /\ m \in held
  /\ connection > 0
  /\ bound[m] \in {0, connection}
  /\ held' = held \ {m}
  /\ given' = Append(given, <<m, connection>>)
  /\ UNCHANGED <<bound, connection>>

Lose(lost) ==
  /\ held' = held \ lost
  /\ UNCHANGED <<bound, given, connection>>

Open ==
  /\ \A m \in held : bound[m] = 0
  /\ connection' = connection + 1
  /\ UNCHANGED <<held, bound, given>>

Next ==
  \/ \E m \in Messages : Bind(m) \/ Give(m)
  \/ \E lost \in SUBSET Messages : Lose(lost)
  \/ Open

Spec == Init /\ [][Next]_outboxVars
=============================================================================
