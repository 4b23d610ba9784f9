-------------------------- MODULE IdleSuspendProofs --------------------------
(***************************************************************************)
(* The safety properties of IdleSuspend, for any number of requests, any   *)
(* limits and any faults.  IdleInv says who holds the lock (LockInv), what *)
(* the row says while a handler waits for docker (StartInv) and from the   *)
(* sweeper's list on (SweepInv), and what the containers are when nothing  *)
(* failed (RowInv).                                                        *)
(***************************************************************************)
EXTENDS IdleSuspend, TLAPS

Sweeping == {"locked", "stopping", "stopped"}

LockInv ==
    /\ \A r \in Requests : request[r] \in Locked => lock = r
    /\ sweep \in Sweeping => lock = "sweep"

StartInv ==
    /\ \A r \in Requests : request[r] = "starting" => lifecycle_state = "starting"
    /\ orphan => faults["leave"] > 0

SweepInv ==
    /\ \A r \in Requests : request[r] \in Resuming => lifecycle_state # "running"
    /\ sweep # "idle" =>
           /\ lifecycle_state = "running"
           /\ hit \/ (pinned_until < now /\ last_seen_at + IdleSecs < now)

Unharmed == faults["docker"] = 0 /\ faults["leave"] = 0 /\ faults["crash"] = 0

RowInv ==
    Unharmed =>
        /\ sweep = "stopped" => stack # "up"
        /\ \A r \in Requests : request[r] = "failed" => stack = "gone"
        /\ lifecycle_state = "running" /\ Live =>
               stack = "up" \/ sweep = "stopped" \/ destroy = "mark"
        /\ lifecycle_state = "suspended" => stack # "up"

IdleInv == TypeOK /\ LockInv /\ StartInv /\ SweepInv /\ RowInv

-----------------------------------------------------------------------------

LEMMA NamesApart == \A r \in Requests : r # "sweep" /\ r # "nobody"
<1> QED
  BY IdleAssumption

\* No fault is forgotten.
Remembered ==
    /\ faults' \in [Faults -> Nat]
    /\ \A g \in Faults : faults'[g] >= faults[g]

LEMMA FaultCounted ==
    ASSUME TypeOK, NEW f \in Faults, Fault(f)
    PROVE  faults'[f] > 0 /\ Remembered
<1>1. faults \in [Faults -> Nat] /\ faults' = [faults EXCEPT ![f] = @ + 1]
  BY DEF TypeOK, Fault
<1> QED
  BY <1>1 DEF Remembered

\* The later of two dates.
LEMMA LaterOfTwo ==
    ASSUME NEW a \in Nat, NEW b \in Nat
    PROVE  Max({a, b}) \in Nat
<1>1. \E x \in {a, b} : \A y \in {a, b} : x >= y
  OBVIOUS
<1>2. Max({a, b}) \in {a, b}
  BY <1>1, Zenon DEF Max
<1> QED
  BY <1>2

\* The actions of Next.
LEMMA Steps ==
    ASSUME [Next]_vars
    PROVE  \/ \E r \in Requests : Resume(r) \/ TouchAndAnswer(r) \/ TakeLock(r) \/ Recheck(r)
           \/ \E r \in Requests : \/ SetStarting(r) \/ ComposeStart(r) \/ ResetToSuspended(r)
                                  \/ Poll(r) \/ ClientLeaves(r)
           \/ Touch \/ Pin \/ Tick \/ OrphanEnds
           \/ List \/ TryLock \/ Suspend \/ ComposeStop \/ SetSuspended
           \/ Destroy \/ ComposeDown \/ MarkDestroyed \/ Restart
           \/ UNCHANGED vars
<1> QED
  BY DEF Next, Handle, SweepStep

LEMMA EachRemembers ==
    ASSUME TypeOK, [Next]_vars
    PROVE  Remembered
<1>1. Faults = {"docker", "spawn", "slow", "leave", "crash"}
  BY DEF Faults
<1>2. ASSUME NEW r \in Requests, Resume(r) \/ TouchAndAnswer(r) \/ TakeLock(r) \/ Recheck(r)
      PROVE  UNCHANGED faults
  BY <1>2 DEF Resume, TouchAndAnswer, TakeLock, Recheck
<1>3. ASSUME NEW r \in Requests, \/ SetStarting(r) \/ ComposeStart(r) \/ ResetToSuspended(r)
                                 \/ Poll(r) \/ ClientLeaves(r)
      PROVE  UNCHANGED faults \/ \E f \in Faults : Fault(f)
  BY <1>1, <1>3 DEF SetStarting, ComposeStart, ResetToSuspended, Poll, ClientLeaves
<1>4. ASSUME Touch \/ Pin \/ Tick \/ OrphanEnds \/ List \/ TryLock \/ Suspend \/ SetSuspended
      PROVE  UNCHANGED faults
  BY <1>4 DEF Touch, Pin, Tick, OrphanEnds, List, TryLock, Suspend, SetSuspended
<1>5. ASSUME \/ ComposeStop \/ Destroy \/ ComposeDown \/ MarkDestroyed \/ Restart
             \/ UNCHANGED vars
      PROVE  UNCHANGED faults \/ \E f \in Faults : Fault(f)
  BY <1>1, <1>5 DEF ComposeStop, Destroy, ComposeDown, MarkDestroyed, Restart, vars
<1>6. UNCHANGED faults => Remembered
  BY DEF TypeOK, Remembered
<1> QED
  BY <1>2, <1>3, <1>4, <1>5, <1>6, Steps, FaultCounted

-----------------------------------------------------------------------------
(* Types. *)

\* The mark of a touch: set by it, kept by nearly everything else.
LEMMA HitStep ==
    ASSUME TypeOK, [Next]_vars
    PROVE  hit' \in BOOLEAN
<1>1. CASE Hit
  BY <1>1, Zenon DEF Hit
<1>2. CASE UNCHANGED hit \/ hit' = FALSE
  BY <1>2 DEF TypeOK
<1>3. ASSUME NEW r \in Requests, Resume(r) \/ TouchAndAnswer(r) \/ TakeLock(r) \/ Recheck(r)
      PROVE  Hit \/ UNCHANGED hit
  BY <1>3 DEF Resume, TouchAndAnswer, Touched, TakeLock, Recheck, swept
<1>4. ASSUME NEW r \in Requests, \/ SetStarting(r) \/ ComposeStart(r) \/ ResetToSuspended(r)
                                 \/ Poll(r) \/ ClientLeaves(r)
      PROVE  UNCHANGED hit
  BY <1>4 DEF SetStarting, ComposeStart, ResetToSuspended, Poll, ClientLeaves, swept
<1>5. ASSUME Touch \/ Pin \/ Tick \/ OrphanEnds \/ Destroy \/ ComposeDown \/ MarkDestroyed
      PROVE  Hit \/ UNCHANGED hit
  BY <1>5 DEF Touch, Touched, Pin, Tick, OrphanEnds, Destroy, ComposeDown, MarkDestroyed, swept
<1>6. ASSUME \/ List \/ TryLock \/ Suspend \/ ComposeStop \/ SetSuspended \/ Restart
             \/ UNCHANGED vars
      PROVE  UNCHANGED hit \/ hit' = FALSE
  BY <1>6 DEF List, TryLock, Suspend, ComposeStop, SetSuspended, SweepEnds, Restart, vars
<1> QED
  BY <1>1, <1>2, <1>3, <1>4, <1>5, <1>6, Steps

LEMMA TypeStep == TypeOK /\ [Next]_vars => TypeOK'
<1> SUFFICES ASSUME TypeOK, [Next]_vars
             PROVE  TypeOK'
  OBVIOUS
<1>0. faults' \in [Faults -> Nat] /\ hit' \in BOOLEAN
  BY EachRemembers, HitStep DEF Remembered
<1> USE <1>0 DEF TypeOK, Asking, Locked, Resuming, swept
<1>1. ASSUME NEW r \in Requests, Resume(r) \/ TakeLock(r)
      PROVE  TypeOK'
  BY <1>1 DEF Resume, TakeLock, Goto, row
<1>2. ASSUME NEW r \in Requests, TouchAndAnswer(r) \/ Recheck(r)
      PROVE  TypeOK'
  BY <1>2, IdleAssumption DEF TouchAndAnswer, Recheck, Goto, Leave, Touched, row
<1>3. ASSUME NEW r \in Requests, SetStarting(r) \/ ResetToSuspended(r)
      PROVE  TypeOK'
  BY <1>3 DEF SetStarting, ResetToSuspended, Goto, Leave
<1>4. ASSUME NEW r \in Requests, ComposeStart(r) \/ Poll(r) \/ ClientLeaves(r)
      PROVE  TypeOK'
  BY <1>4 DEF ComposeStart, Poll, ClientLeaves, Goto, Leave, row
<1>5. CASE Touch \/ Tick
  BY <1>5, IdleAssumption DEF Touch, Tick, Touched, row
<1>6. CASE Pin
  <2>1. pinned_until' \in Nat
    BY <1>6, LaterOfTwo, IdleAssumption DEF Pin
  <2> QED
    BY <1>6, <2>1 DEF Pin
<1>7. CASE OrphanEnds
  BY <1>7 DEF OrphanEnds, row
<1>8. CASE List \/ TryLock \/ Suspend \/ SetSuspended
  BY <1>8 DEF List, TryLock, Suspend, SetSuspended, SweepEnds, row
<1>9. CASE ComposeStop
  BY <1>9 DEF ComposeStop, SweepEnds, row
<1>10. CASE Destroy \/ ComposeDown \/ MarkDestroyed
  BY <1>10 DEF Destroy, ComposeDown, MarkDestroyed, row
<1>11. CASE Restart
  <2>1. stack' \in {"up", "stopped", "gone"}
    BY <1>11 DEF Restart
  <2> QED
    BY <1>11, <2>1 DEF Restart, row
<1>12. CASE UNCHANGED vars
  BY <1>12 DEF vars, row
<1> QED
  BY <1>1, <1>2, <1>3, <1>4, <1>5, <1>6, <1>7, <1>8, <1>9, <1>10, <1>11, <1>12, Steps

-----------------------------------------------------------------------------
(* The lock. *)

LEMMA LockStep == TypeOK /\ LockInv /\ [Next]_vars => LockInv'
<1> SUFFICES ASSUME TypeOK, LockInv, [Next]_vars
             PROVE  LockInv'
  OBVIOUS
<1> USE NamesApart DEF TypeOK, LockInv, Locked, Resuming, Sweeping, swept, Hit, Touched
<1>1. ASSUME NEW r \in Requests, Resume(r) \/ TakeLock(r) \/ SetStarting(r)
      PROVE  LockInv'
  BY <1>1 DEF Resume, TakeLock, SetStarting, Goto
<1>2. ASSUME NEW r \in Requests, \/ TouchAndAnswer(r) \/ Recheck(r) \/ ResetToSuspended(r)
                                 \/ ComposeStart(r) \/ Poll(r) \/ ClientLeaves(r)
      PROVE  LockInv'
  <2>1. UNCHANGED sweep
    BY <1>2 DEF TouchAndAnswer, Recheck, ResetToSuspended, ComposeStart, Poll, ClientLeaves
  <2>2. \/ Leave(r)
        \/ /\ request[r] \in Locked /\ UNCHANGED lock
           /\ \E place \in Locked : Goto(r, place)
    BY <1>2 DEF TouchAndAnswer, Recheck, ResetToSuspended, ComposeStart, Poll, ClientLeaves
  <2> QED
    BY <2>1, <2>2 DEF Leave, Goto
<1>3. CASE Touch \/ Pin \/ Tick \/ OrphanEnds \/ Destroy \/ ComposeDown \/ MarkDestroyed
  BY <1>3 DEF Touch, Pin, Tick, OrphanEnds, Destroy, ComposeDown, MarkDestroyed
<1>4. CASE List \/ TryLock \/ Suspend \/ SetSuspended
  BY <1>4 DEF List, TryLock, Suspend, SetSuspended, SweepEnds
<1>5. CASE ComposeStop
  BY <1>5 DEF ComposeStop, SweepEnds
<1>6. CASE Restart
  BY <1>6 DEF Restart
<1>7. CASE UNCHANGED vars
  BY <1>7 DEF vars
<1> QED
  BY <1>1, <1>2, <1>3, <1>4, <1>5, <1>6, <1>7, Steps

-----------------------------------------------------------------------------
(* The row while docker starts the containers. *)

LEMMA StartStep == TypeOK /\ LockInv /\ StartInv /\ [Next]_vars => StartInv'
<1> SUFFICES ASSUME TypeOK, LockInv, StartInv, [Next]_vars
             PROVE  StartInv'
  OBVIOUS
<1>0. faults["leave"] > 0 => faults'["leave"] > 0
  BY EachRemembers DEF Remembered, TypeOK, Faults
<1> USE NamesApart DEF TypeOK, LockInv, StartInv, Locked, Resuming, Touched
<1>1. ASSUME NEW r \in Requests, Resume(r) \/ TakeLock(r) \/ SetStarting(r)
      PROVE  StartInv'
  BY <1>0, <1>1 DEF Resume, TakeLock, SetStarting, Goto, row
<1>2. ASSUME NEW r \in Requests, TouchAndAnswer(r) \/ Recheck(r) \/ ComposeStart(r)
      PROVE  StartInv'
  BY <1>0, <1>2 DEF TouchAndAnswer, Recheck, ComposeStart, Goto, Leave, row
<1>3. ASSUME NEW r \in Requests, ResetToSuspended(r) \/ Poll(r)
      PROVE  StartInv'
  <2>1. \A q \in Requests \ {r} : request[q] # "starting"
    BY <1>3 DEF ResetToSuspended, Poll
  <2>2. request'[r] # "starting" /\ \A q \in Requests \ {r} : request'[q] = request[q]
    BY <1>3 DEF ResetToSuspended, Poll, Goto, Leave
  <2>3. UNCHANGED orphan
    BY <1>3 DEF ResetToSuspended, Poll
  <2> QED
    BY <1>0, <2>1, <2>2, <2>3
<1>4. ASSUME NEW r \in Requests, ClientLeaves(r)
      PROVE  StartInv'
  <2>1. faults'["leave"] > 0
    BY <1>4, FaultCounted DEF ClientLeaves, Faults
  <2> QED
    BY <1>4, <2>1 DEF ClientLeaves, Leave, Goto, row
<1>5. CASE Touch \/ Pin \/ Tick \/ OrphanEnds \/ Destroy \/ ComposeDown \/ MarkDestroyed
  BY <1>0, <1>5 DEF Touch, Pin, Tick, OrphanEnds, Destroy, ComposeDown, MarkDestroyed, row
<1>6. CASE List \/ TryLock \/ Suspend \/ ComposeStop
  BY <1>0, <1>6 DEF List, TryLock, Suspend, ComposeStop, row
<1>7. CASE SetSuspended
  BY <1>0, <1>7 DEF SetSuspended, Sweeping
<1>8. CASE Restart
  BY <1>8 DEF Restart
<1>9. CASE UNCHANGED vars
  BY <1>0, <1>9 DEF vars, row
<1> QED
  BY <1>1, <1>2, <1>3, <1>4, <1>5, <1>6, <1>7, <1>8, <1>9, Steps

-----------------------------------------------------------------------------
(* The row from the sweeper's list on. *)

LEMMA ListStep ==
    ASSUME TypeOK, LockInv, SweepInv, [Next]_vars
    PROVE  SweepInv'
<1>0. Hit => (sweep # "idle" => hit')
  BY Zenon DEF Hit
<1> USE NamesApart DEF TypeOK, SweepInv, Resuming, swept, Touched
<1>1. ASSUME NEW r \in Requests, Resume(r) \/ TakeLock(r) \/ Recheck(r)
      PROVE  SweepInv'
  BY <1>1 DEF Resume, TakeLock, Recheck, ResumedBefore, Goto, Leave, row
<1>2. ASSUME NEW r \in Requests, TouchAndAnswer(r)
      PROVE  SweepInv'
  BY <1>0, <1>2 DEF TouchAndAnswer, Goto, Leave
<1>3. ASSUME NEW r \in Requests, SetStarting(r) \/ ResetToSuspended(r)
      PROVE  SweepInv'
  <2>1. lifecycle_state # "running" /\ lifecycle_state' # "running" /\ UNCHANGED sweep
    BY <1>3 DEF SetStarting, ResetToSuspended
  <2> QED
    BY <2>1
<1>4. ASSUME NEW r \in Requests, ComposeStart(r) \/ ClientLeaves(r)
      PROVE  SweepInv'
  BY <1>4 DEF ComposeStart, ClientLeaves, Goto, Leave, row
<1>5. ASSUME NEW r \in Requests, Poll(r)
      PROVE  SweepInv'
  <2>1. lifecycle_state # "running" /\ sweep = "idle" /\ UNCHANGED sweep
    BY <1>5 DEF Poll
  <2>2. /\ request'[r] \notin Resuming
        /\ \A q \in Requests \ {r} : request'[q] = request[q]
    BY <1>5 DEF Poll, Goto, Leave
  <2>3. \A q \in Requests \ {r} : request[q] \notin Resuming
    BY <1>5 DEF Poll, LockInv, Locked
  <2> QED
    BY <2>1, <2>2, <2>3
<1>6. CASE Touch \/ Pin
  BY <1>0, <1>6 DEF Touch, Pin
<1>7. CASE List \/ TryLock \/ Suspend
  BY <1>7 DEF List, IdleRunning, TryLock, Suspend, SweepEnds, row
<1>8. CASE ComposeStop
  BY <1>8 DEF ComposeStop, SweepEnds, row
<1>9. CASE SetSuspended
  BY <1>9 DEF SetSuspended, SweepEnds
<1>10. CASE Destroy \/ ComposeDown \/ MarkDestroyed \/ Restart
  BY <1>10 DEF Destroy, ComposeDown, MarkDestroyed, Restart, row
<1>11. CASE UNCHANGED vars
  BY <1>11 DEF vars
<1>12. CASE Tick \/ OrphanEnds
  BY <1>12, IdleAssumption DEF Tick, OrphanEnds, row
<1> QED
  BY <1>1, <1>2, <1>3, <1>4, <1>5, <1>6, <1>7, <1>8, <1>9, <1>10, <1>11, <1>12, Steps

-----------------------------------------------------------------------------
(* The row and the containers. *)

LEMMA RowStep ==
    ASSUME TypeOK, LockInv, StartInv, RowInv, [Next]_vars
    PROVE  RowInv'
<1>0. Unharmed' => Unharmed
  BY EachRemembers DEF Unharmed, Remembered, TypeOK, Faults
<1> SUFFICES ASSUME Unharmed, Unharmed'
             PROVE  RowInv'
  BY <1>0 DEF RowInv
<1>00. ASSUME NEW f \in {"docker", "leave", "crash"}
       PROVE  ~Fault(f)
  BY <1>00, FaultCounted DEF Unharmed, Faults
<1> USE NamesApart DEF TypeOK, RowInv, Live, swept, Touched
<1>1. ASSUME NEW r \in Requests, Resume(r) \/ TouchAndAnswer(r) \/ TakeLock(r) \/ Recheck(r)
      PROVE  RowInv'
  BY <1>1 DEF Resume, TouchAndAnswer, TakeLock, Recheck, Goto, Leave, row
<1>2. ASSUME NEW r \in Requests, SetStarting(r)
      PROVE  RowInv'
  BY <1>2 DEF SetStarting, Goto
<1>3. ASSUME NEW r \in Requests, ComposeStart(r)
      PROVE  RowInv'
  <2>1. lifecycle_state = "starting" /\ sweep # "stopped"
    BY <1>3 DEF ComposeStart, LockInv, StartInv, Locked, Resuming, Sweeping
  <2>2. \/ stack # "gone" /\ stack' = "up" /\ Goto(r, "polling")
        \/ stack = "gone" /\ UNCHANGED stack /\ Goto(r, "failed")
        \/ UNCHANGED stack /\ Goto(r, "over")
    BY <1>3, <1>00 DEF ComposeStart, Leave
  <2> QED
    BY <1>3, <2>1, <2>2 DEF ComposeStart, Goto, row
<1>4. ASSUME NEW r \in Requests, ResetToSuspended(r)
      PROVE  RowInv'
  BY <1>4 DEF ResetToSuspended, Goto, Leave
<1>5. ASSUME NEW r \in Requests, Poll(r)
      PROVE  RowInv'
  BY <1>5 DEF Poll, Listens, Goto, Leave
<1>6. ASSUME NEW r \in Requests, ClientLeaves(r)
      PROVE  RowInv'
  BY <1>6, <1>00 DEF ClientLeaves
<1>7. CASE Touch \/ Pin \/ Tick
  BY <1>7 DEF Touch, Pin, Tick, row
<1>8. CASE OrphanEnds
  BY <1>8 DEF OrphanEnds, StartInv, Unharmed
<1>9. CASE List \/ TryLock \/ Suspend
  BY <1>9 DEF List, TryLock, Suspend, SweepEnds, row
<1>10. CASE ComposeStop
  <2>1. \/ stack' \in {"stopped", "gone"} /\ sweep' = "stopped"
        \/ sweep = "stopping" /\ UNCHANGED stack /\ sweep' = "idle"
    BY <1>10, <1>00 DEF ComposeStop, SweepEnds
  <2> QED
    BY <1>10, <2>1 DEF ComposeStop, row
<1>11. CASE SetSuspended
  BY <1>11 DEF SetSuspended, SweepEnds
<1>12. CASE Destroy \/ MarkDestroyed
  BY <1>12 DEF Destroy, MarkDestroyed, row
<1>13. CASE ComposeDown
  BY <1>13, <1>00 DEF ComposeDown, row
<1>14. CASE Restart
  BY <1>14, <1>00 DEF Restart
<1>15. CASE UNCHANGED vars
  BY <1>15 DEF vars, row
<1> QED
  BY <1>1, <1>2, <1>3, <1>4, <1>5, <1>6, <1>7, <1>8, <1>9, <1>10, <1>11, <1>12, <1>13, <1>14,
     <1>15, Steps

-----------------------------------------------------------------------------
(* The properties. *)

\* The inductive invariant of suspend and resume holds in every state.
THEOREM IdleInvariant == Spec => []IdleInv
<1>1. ASSUME Init
      PROVE  IdleInv
  <2>1. TypeOK
    <3>1. now \in 0..MaxNow /\ last_seen_at \in 0..now /\ pinned_until \in Nat
      BY <1>1, IdleAssumption DEF Init
    <3>2. /\ request \in [Requests -> Asking \cup {"none", "over"}]
          /\ faults \in [Faults -> Nat]
      BY <1>1 DEF Init
    <3> QED
      BY <1>1, <3>1, <3>2 DEF Init, TypeOK
  <2>2. LockInv
    BY <1>1 DEF Init, LockInv, Locked, Resuming, Sweeping
  <2>3. StartInv /\ SweepInv /\ RowInv
    BY <1>1 DEF Init, StartInv, SweepInv, Resuming, RowInv
  <2> QED
    BY <2>1, <2>2, <2>3 DEF IdleInv
<1>2. IdleInv /\ [Next]_vars => IdleInv'
  BY TypeStep, LockStep, StartStep, ListStep, RowStep DEF IdleInv
<1> QED
  BY <1>1, <1>2, PTL DEF Spec

\* Every variable of the model keeps its type; last_seen_at is never ahead.
THEOREM IdleTypeCorrect == Spec => []TypeOK
<1>1. IdleInv => TypeOK
  BY DEF IdleInv
<1> QED
  BY IdleInvariant, <1>1, PTL

\* However old the sweeper's list is, it stops no instance that a handler is
\* bringing up, and none that was not idle when it was listed.
THEOREM SweepStopsTheIdle == Spec => []SweptWhileIdle
<1>1. IdleInv => SweptWhileIdle
  BY DEF IdleInv, SweepInv, SweptWhileIdle
<1> QED
  BY IdleInvariant, <1>1, PTL

\* The column the gateway decides by says what Docker runs, with the exceptions
\* RowMatchesStack names.
THEOREM RowFollowsStack == Spec => []RowMatchesStack
<1>1. IdleInv => RowMatchesStack
  BY DEF IdleInv, RowInv, Unharmed, RowMatchesStack, RunningMeansUp, SuspendedMeansDown
<1> QED
  BY IdleInvariant, <1>1, PTL

==============================================================================
