-------------------------- MODULE MCDashboardHost --------------------------
(* A small instance of DashboardHost for TLC. *)
EXTENDS DashboardHost

CONSTANTS c1, c2, b1, b2

\* Two connections meet with their project infos, or with one broadcast; two
\* broadcasts meet on one connection.  Which is called the first makes no difference.
HostBound ==
  /\ net[c2] # "away" =>
       /\ net[c1] # "away"
       /\ at[b2] = "idle"
       /\ at[b1] = "idle" \/ informed = {}
  /\ at[b2] # "idle" => at[b1] # "idle"
=============================================================================
