------------------------- MODULE WorkspaceDirectory -------------------------
(***************************************************************************)
(* What the matchmaking service promises, without its dictionaries, flags  *)
(* and processes: an application asks for a project's workspace once and   *)
(* is either answered with an address posted for that very project, or     *)
(* refused; an answer is final.                                            *)
(***************************************************************************)
CONSTANTS Projects, Requests, None

VARIABLES
  wants,   \* the project of each request and of the address it may post
  posted,  \* the addresses posted so far
  status,  \* "idle", "asked", "answered" or "refused"
  answer   \* the address an answered request got

dvars == <<wants, posted, status, answer>>

Init ==
  /\ wants \in [Requests -> Projects]
  /\ posted = {}
  /\ status = [r \in Requests |-> "idle"]
  /\ answer = [r \in Requests |-> None]

Ask(r) ==
  /\ status[r] = "idle"
  /\ status' = [status EXCEPT ![r] = "asked"]
  /\ UNCHANGED <<wants, posted, answer>>

Post(a) ==
  /\ posted' = posted \cup {a}
  /\ UNCHANGED <<wants, status, answer>>

Answer(r) ==
  /\ status[r] = "asked"
  /\ \E a \in posted :
       /\ wants[a] = wants[r]
       /\ answer' = [answer EXCEPT ![r] = a]
  /\ status' = [status EXCEPT ![r] = "answered"]
  /\ UNCHANGED <<wants, posted>>

Refuse(r) ==
  /\ status[r] = "asked"
  /\ status' = [status EXCEPT ![r] = "refused"]
  /\ UNCHANGED <<wants, posted, answer>>

Next == \E r \in Requests : Ask(r) \/ Post(r) \/ Answer(r) \/ Refuse(r)

Spec == Init /\ [][Next]_dvars
=============================================================================
