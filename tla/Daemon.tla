------------------------------- MODULE Daemon -------------------------------
(***************************************************************************)
(* pkg/daemon: a loop that calls Sync once per interval, driven by a timer *)
(* and by a buffer for one request.                                        *)
(*                                                                         *)
(* Time is counted in ticks of a clock.  The timer is Go's: it is armed,   *)
(* expires, and its expiry is then sent to the channel syncTimer.C, which  *)
(* holds one.  go.mod asks for Go 1.22, where these are two steps: Stop of *)
(* a timer that has expired returns false although nothing may have been   *)
(* sent yet.                                                               *)
(***************************************************************************)
EXTENDS Naturals

CONSTANT SyncInterval       \* in ticks of the clock

ASSUME DaemonAssumption == SyncInterval \in Nat \ {0}

VARIABLES
    pc,         \* where Loop is: in its select, in Sync, or returned
    timer,      \* ticks until syncTimer expires, 0 when it is not armed
    sending,    \* syncTimer has expired and its expiry is not yet in syncTimer.C
    expired,    \* syncTimer.C holds an expiry
    syncSoon,   \* the buffer holds a request
    stop        \* the stop channel is closed

vars == <<pc, timer, sending, expired, syncSoon, stop>>

\* The type invariant.
TypeOK ==
    /\ pc \in {"select", "sync", "returned"}
    /\ timer \in 0..SyncInterval
    /\ sending \in BOOLEAN /\ expired \in BOOLEAN
    /\ syncSoon \in BOOLEAN /\ stop \in BOOLEAN

\* The beginning of Loop: the timer is made, and a first sync is asked for.
Init ==
    /\ pc = "select" /\ timer = SyncInterval
    /\ sending = FALSE /\ expired = FALSE
    /\ syncSoon = TRUE /\ stop = FALSE

-----------------------------------------------------------------------------
(* The timer and the outside.                                              *)

\* The clock goes on.  The expiry before has been sent by then.
Tick ==
    /\ timer > 0 /\ ~sending
    /\ timer' = timer - 1
    /\ sending' = (timer = 1)
    /\ UNCHANGED <<pc, expired, syncSoon, stop>>

\* The channel holds one expiry; a second one is dropped.
SendExpiry ==
    /\ sending
    /\ sending' = FALSE /\ expired' = TRUE
    /\ UNCHANGED <<pc, timer, syncSoon, stop>>

CloseStop ==
    /\ ~stop
    /\ stop' = TRUE
    /\ UNCHANGED <<pc, timer, sending, expired, syncSoon>>

-----------------------------------------------------------------------------
(* Loop: the cases of its select, any of which that is ready may be taken.  *)

\* Stop returns TRUE for a timer that is armed; otherwise the channel is
\* drained, if there is something in it.
stopTimer ==
    /\ timer' = 0
    /\ expired' = IF timer > 0 THEN expired ELSE FALSE

\* askForSync: a request is dropped when there already is one.
askForSync == syncSoon' = TRUE

CaseStop ==
    /\ pc = "select" /\ stop
    /\ stopTimer
    /\ pc' = "returned"
    /\ UNCHANGED <<sending, syncSoon, stop>>

\* Mutant: the channel is drained without a default case.
drainBlocks ==
    /\ pc = "select" /\ syncSoon
    /\ timer > 0 \/ expired
    /\ stopTimer
    /\ syncSoon' = FALSE
    /\ pc' = "sync"
    /\ UNCHANGED <<sending, stop>>

CaseSyncSoon ==
    /\ pc = "select" /\ syncSoon
    /\ stopTimer
    /\ syncSoon' = FALSE
    /\ pc' = "sync"
    /\ UNCHANGED <<sending, stop>>

\* Mutant: the timer is not reset after Sync.
syncWithoutReset ==
    /\ pc = "sync"
    /\ pc' = "select"
    /\ UNCHANGED <<timer, sending, expired, syncSoon, stop>>

SyncReturns ==
    /\ pc = "sync"
    /\ timer' = SyncInterval
    /\ pc' = "select"
    /\ UNCHANGED <<sending, expired, syncSoon, stop>>

CaseTimer ==
    /\ pc = "select" /\ expired
    /\ expired' = FALSE
    /\ askForSync
    /\ UNCHANGED <<pc, timer, sending, stop>>

Loop == CaseStop \/ CaseSyncSoon \/ CaseTimer \/ SyncReturns

Next == Tick \/ SendExpiry \/ CloseStop \/ Loop

Spec == Init /\ [][Next]_vars

\* Time passes, Sync returns, a select that can go on does, and one that can
\* take the stop case again and again takes it at last: Go chooses at random.
Fairness ==
    /\ WF_vars(Tick) /\ WF_vars(SendExpiry)
    /\ WF_vars(Loop) /\ SF_vars(CaseStop)

FairSpec == Spec /\ Fairness

-----------------------------------------------------------------------------
\* Loop never waits for something that nobody will send: the timer is armed, or
\* its expiry or a request made for it is on the way.
NeverStuck ==
    pc = "select" => timer > 0 \/ sending \/ expired \/ syncSoon

\* "It will run until provided stop channel is closed": until then it calls Sync again
\* and again, and afterwards it returns, whatever else is ready at the same time.
RunsUntilStopped ==
    /\ []<>(pc = "sync" \/ stop)
    /\ stop ~> pc = "returned"
=============================================================================
