------------------------------ MODULE HandOff ------------------------------
(* What a soft_mutex and its saved handlers promise together: a lock whose
   holder, on leaving, hands it straight to one of those parked on it.  It is
   never free while somebody is parked, so nobody can barge in or be forgotten.
   Which of the parked gets it is left open here.                             *)
CONSTANTS Procs, Nobody   \* Nobody is not one of Procs

VARIABLES owner, parked
handOffVars == <<owner, parked>>

HandOffTypeOK == owner \in Procs \cup {Nobody} /\ parked \subseteq Procs

HandOffInit == owner = Nobody /\ parked = {}

\* try_lock succeeds
Enter(p) == owner = Nobody /\ p \notin parked /\ owner' = p /\ UNCHANGED parked

\* try_lock fails, saved_handler::emplace
ParkOn(p) == /\ owner \notin {p, Nobody} /\ p \notin parked
             /\ parked' = parked \cup {p} /\ UNCHANGED owner

\* unlock, then maybe_invoke: the handler that runs locks at once
Leave(p) ==
  /\ owner = p
  /\ \/ parked = {} /\ owner' = Nobody /\ UNCHANGED parked
     \/ \E n \in parked : owner' = n /\ parked' = parked \ {n}

\* A fragmented write lets another in and parks behind it
StepAside(p) ==
  /\ owner = p
  /\ \E n \in parked : owner' = n /\ parked' = (parked \ {n}) \cup {p}

HandOffNext == \E p \in Procs : Enter(p) \/ ParkOn(p) \/ Leave(p) \/ StepAside(p)
HandOffSpec == HandOffInit /\ [][HandOffNext]_handOffVars

\* The lock is held whenever somebody is parked, and not by one of the parked:
\* soft_mutex::lock() after a park always finds the id it expects, and an
\* operation that comes later cannot overtake one that waits.
NoBarging == /\ parked # {} => owner # Nobody
             /\ owner \notin parked
=============================================================================
