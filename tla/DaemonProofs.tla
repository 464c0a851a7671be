---------------------------- MODULE DaemonProofs ----------------------------
(***************************************************************************)
(* Proofs about Daemon, for every length of the interval.                  *)
(***************************************************************************)
EXTENDS Daemon, TLAPS

\* The three channels and the timer stay within their types (Loop).
LEMMA TypeStep == ASSUME TypeOK, [Next]_vars PROVE TypeOK'
<1>1. CASE Tick BY <1>1, DaemonAssumption DEF Tick, TypeOK
<1>2. CASE SendExpiry BY <1>2 DEF SendExpiry, TypeOK
<1>3. CASE CloseStop BY <1>3 DEF CloseStop, TypeOK
<1>a. ASSUME timer' = 0 PROVE timer' \in 0..SyncInterval BY <1>a, DaemonAssumption
<1>4. CASE CaseStop
  <2>1. expired' \in BOOLEAN BY <1>4, Zenon DEF CaseStop, stopTimer, TypeOK
  <2>2. QED BY <1>4, <1>a, <2>1, Zenon DEF CaseStop, stopTimer, TypeOK
<1>5. CASE CaseSyncSoon
  <2>1. expired' \in BOOLEAN BY <1>5, Zenon DEF CaseSyncSoon, stopTimer, TypeOK
  <2>2. QED BY <1>5, <1>a, <2>1, Zenon DEF CaseSyncSoon, stopTimer, TypeOK
<1>6. CASE CaseTimer BY <1>6 DEF CaseTimer, askForSync, TypeOK
<1>7. CASE SyncReturns BY <1>7, DaemonAssumption DEF SyncReturns, TypeOK
<1>8. CASE UNCHANGED vars BY <1>8 DEF vars, TypeOK
<1>9. QED BY <1>1, <1>2, <1>3, <1>4, <1>5, <1>6, <1>7, <1>8 DEF Next, Loop

\* The timer is never armed for longer than the interval (Loop).
THEOREM TypeCorrect == Spec => []TypeOK
<1>1. Init => TypeOK
  <2>1. SyncInterval \in 0..SyncInterval BY DaemonAssumption
  <2>2. QED BY <2>1, Zenon DEF Init, TypeOK
<1>2. TypeOK /\ [Next]_vars => TypeOK' BY TypeStep
<1>3. QED BY <1>1, <1>2, PTL DEF Spec

\* The select of Loop always has something to wait for: an armed timer, its expiry
\* on the way or in the channel, or a request in the buffer.
THEOREM LoopNeverStuck == Spec => []NeverStuck
<1>1. Init => NeverStuck BY DEF Init, NeverStuck
<1>2. TypeOK /\ NeverStuck /\ [Next]_vars => NeverStuck'
  <2> SUFFICES ASSUME TypeOK, NeverStuck, [Next]_vars PROVE NeverStuck' OBVIOUS
  <2>1. CASE Tick
    <3>1. timer > 0 /\ (timer = 1 \/ timer' > 0) BY <2>1, DaemonAssumption DEF Tick, TypeOK
    <3>2. QED BY <2>1, <3>1, Zenon DEF Tick, NeverStuck
  <2>2. CASE SendExpiry BY <2>2 DEF SendExpiry, NeverStuck
  <2>3. CASE CloseStop BY <2>3 DEF CloseStop, NeverStuck
  <2>4. CASE CaseStop BY <2>4 DEF CaseStop, NeverStuck
  <2>5. CASE CaseSyncSoon BY <2>5 DEF CaseSyncSoon, NeverStuck
  <2>6. CASE CaseTimer BY <2>6 DEF CaseTimer, askForSync, NeverStuck
  <2>7. CASE SyncReturns BY <2>7, DaemonAssumption DEF SyncReturns, NeverStuck
  <2>8. CASE UNCHANGED vars BY <2>8 DEF vars, NeverStuck
  <2>9. QED BY <2>1, <2>2, <2>3, <2>4, <2>5, <2>6, <2>7, <2>8 DEF Next, Loop
<1>3. QED BY <1>1, <1>2, TypeCorrect, PTL DEF Spec
=============================================================================
