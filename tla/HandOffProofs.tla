---------------------------- MODULE HandOffProofs ----------------------------
(* The lock with hand-off keeps its promise for any set of operations.  The
   promise is inductive together with the type invariant.                      *)
EXTENDS HandOff, TLAPS

\* Only operations hold the lock or are parked on it: they are the ones that
\* call try_lock and emplace.
THEOREM HandOffTyped == HandOffSpec => []HandOffTypeOK
<1>1. HandOffInit => HandOffTypeOK
  BY DEF HandOffInit, HandOffTypeOK
<1>2. HandOffTypeOK /\ [HandOffNext]_handOffVars => HandOffTypeOK'
  BY DEF HandOffTypeOK, HandOffNext, handOffVars, Enter, ParkOn, Leave, StepAside
<1> QED
  BY <1>1, <1>2, PTL DEF HandOffSpec

\* Nobody overtakes an operation that is parked on the lock, and the lock is
\* never dropped while one is: unlock and the lock of the operation that
\* maybe_invoke resumes are one step.
THEOREM HandOffNoBarging ==
  ASSUME Nobody \notin Procs
  PROVE  HandOffSpec => []NoBarging
<1> DEFINE Inv == HandOffTypeOK /\ NoBarging
<1>1. HandOffInit => Inv
  BY DEF HandOffInit, HandOffTypeOK, NoBarging
<1>2. Inv /\ [HandOffNext]_handOffVars => Inv'
  <2> SUFFICES ASSUME Inv, [HandOffNext]_handOffVars
               PROVE  Inv'
    OBVIOUS
  <2>1. ASSUME NEW p \in Procs, Enter(p)
        PROVE  Inv'
    BY <2>1 DEF Enter, HandOffTypeOK, NoBarging
  <2>2. ASSUME NEW p \in Procs, ParkOn(p)
        PROVE  Inv'
    BY <2>2 DEF ParkOn, HandOffTypeOK, NoBarging
  <2>3. ASSUME NEW p \in Procs, Leave(p)
        PROVE  Inv'
    BY <2>3 DEF Leave, HandOffTypeOK, NoBarging
  <2>4. ASSUME NEW p \in Procs, StepAside(p)
        PROVE  Inv'
    BY <2>4 DEF StepAside, HandOffTypeOK, NoBarging
  <2>5. CASE UNCHANGED handOffVars
    BY <2>5 DEF handOffVars, HandOffTypeOK, NoBarging
  <2> QED
    BY <2>1, <2>2, <2>3, <2>4, <2>5 DEF HandOffNext
<1> QED
  BY <1>1, <1>2, PTL DEF HandOffSpec
=============================================================================
