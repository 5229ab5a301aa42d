----------------------------- MODULE SimpleTimer ----------------------------
(***************************************************************************)
(* SimpleTimer: slots for timers, and run(), which first decides which     *)
(* callbacks are due and then calls them, one slot after the other.  A     *)
(* callback may call every operation.  mqttLoop keeps its connect timer    *)
(* here, the applications their own.                                       *)
(***************************************************************************)
EXTENDS Naturals

CONSTANTS
  MaxTimers,    \* MAX_TIMERS
  Delays, Counts, \* what setTimer is called with
  MaxLate,      \* bound: how far run() is behind
  Recycles      \* a callback on its last run deletes its own timer and may set another

RunForever == 0

Slots == 1 .. MaxTimers

VARIABLES
  callbacks,  \* the slots that hold a timer
  delays, maxNumRuns, numRuns, enabled,
  elapsed,    \* current_millis - prev_millis
  toBeCalled,
  slot,       \* the one run() has come to in its second loop, 0: not in run()
  calling,    \* how the callback of this slot has been called; DontRun: not yet
  calls       \* history: how often the callback of a timer with a last run was called

timers == <<callbacks, delays, maxNumRuns, numRuns, enabled, elapsed, toBeCalled, calls>>
simple == <<timers, slot, calling>>

All(x) == [i \in Slots |-> x]

Init ==
  /\ callbacks = {} /\ delays = All(0) /\ maxNumRuns = All(0) /\ numRuns = All(0)
  /\ enabled = All(FALSE) /\ elapsed = All(0) /\ toBeCalled = All("DontRun")
  /\ slot = 0 /\ calling = "DontRun" /\ calls = All(0)

Tick ==
  /\ slot = 0 /\ \A i \in callbacks : elapsed[i] < MaxLate
  /\ elapsed' = [i \in Slots |-> IF i \in callbacks THEN elapsed[i] + 1 ELSE elapsed[i]]
  /\ UNCHANGED <<callbacks, delays, maxNumRuns, numRuns, enabled, toBeCalled, calls,
                 slot, calling>>

-----------------------------------------------------------------------------
(* run *)

Due(i) == i \in callbacks /\ elapsed[i] >= delays[i]

Called(i) ==
  Due(i) /\ enabled[i] /\ (maxNumRuns[i] = RunForever \/ numRuns[i] < maxNumRuns[i])

LastRun(i) == maxNumRuns[i] # RunForever /\ numRuns[i] + 1 >= maxNumRuns[i]

\* A disabled timer is moved on as well.
Run ==
  /\ slot = 0 /\ slot' = 1
  /\ elapsed' = [i \in Slots |-> IF Due(i) THEN elapsed[i] - delays[i] ELSE elapsed[i]]
  /\ toBeCalled' = [i \in Slots |->
       IF ~Called(i) THEN "DontRun" ELSE IF LastRun(i) THEN "RunAndDel" ELSE "RunOnly"]
  /\ numRuns' = [i \in Slots |->
       IF Called(i) /\ maxNumRuns[i] # RunForever THEN numRuns[i] + 1 ELSE numRuns[i]]
  /\ UNCHANGED <<callbacks, delays, maxNumRuns, enabled, calls, calling>>

Following == (slot + 1) % (MaxTimers + 1)

Pass ==
  /\ slot # 0 /\ calling = "DontRun" /\ toBeCalled[slot] = "DontRun"
  /\ slot' = Following
  /\ UNCHANGED <<timers, calling>>

CallBack ==
  /\ slot # 0 /\ calling = "DontRun" /\ toBeCalled[slot] # "DontRun"
  /\ calling' = toBeCalled[slot]
  /\ calls' = IF maxNumRuns[slot] = RunForever THEN calls
              ELSE [calls EXCEPT ![slot] = @ + 1]
  /\ UNCHANGED <<callbacks, delays, maxNumRuns, numRuns, enabled, elapsed, toBeCalled, slot>>

\* Mutant: toBeCalled is not reset.
BugDeleteTimer(i) ==
  IF i \notin callbacks THEN UNCHANGED timers
  ELSE /\ callbacks' = callbacks \ {i} /\ enabled' = [enabled EXCEPT ![i] = FALSE]
       /\ delays' = [delays EXCEPT ![i] = 0] /\ numRuns' = [numRuns EXCEPT ![i] = 0]
       /\ calls' = [calls EXCEPT ![i] = 0] /\ elapsed' = [elapsed EXCEPT ![i] = 0]
       /\ UNCHANGED <<maxNumRuns, toBeCalled>>

\* deleteTimer
DeleteTimer(i) ==
  IF i \notin callbacks THEN UNCHANGED timers
  ELSE /\ callbacks' = callbacks \ {i} /\ enabled' = [enabled EXCEPT ![i] = FALSE]
       /\ toBeCalled' = [toBeCalled EXCEPT ![i] = "DontRun"]
       /\ delays' = [delays EXCEPT ![i] = 0] /\ numRuns' = [numRuns EXCEPT ![i] = 0]
       /\ calls' = [calls EXCEPT ![i] = 0] /\ elapsed' = [elapsed EXCEPT ![i] = 0]
       /\ UNCHANGED maxNumRuns

\* The callback returns; after its last run a timer is deleted.
Returns ==
  /\ calling # "DontRun" /\ calling' = "DontRun" /\ slot' = Following
  /\ IF calling = "RunAndDel" THEN DeleteTimer(slot) ELSE UNCHANGED timers

-----------------------------------------------------------------------------
(* What callbacks, and code outside run(), call *)

UserCode == slot = 0 \/ calling # "DontRun"

SetTimer(d, n) ==
  /\ UserCode /\ callbacks # Slots
  /\ LET i == CHOOSE j \in Slots \ callbacks : \A k \in Slots \ callbacks : j <= k
     IN  /\ callbacks' = callbacks \cup {i}
         /\ delays' = [delays EXCEPT ![i] = d] /\ maxNumRuns' = [maxNumRuns EXCEPT ![i] = n]
         /\ enabled' = [enabled EXCEPT ![i] = TRUE]
         /\ elapsed' = [elapsed EXCEPT ![i] = 0]
  /\ UNCHANGED <<numRuns, toBeCalled, calls, slot, calling>>

Delete(i) ==
  /\ UserCode /\ (i = slot /\ calling = "RunAndDel" => Recycles)
  /\ DeleteTimer(i) /\ UNCHANGED <<slot, calling>>

Enable(i, on) ==
  /\ UserCode /\ enabled' = [enabled EXCEPT ![i] = on]
  /\ UNCHANGED <<callbacks, delays, maxNumRuns, numRuns, elapsed, toBeCalled, calls, slot,
                 calling>>

RestartTimer(i) ==
  /\ UserCode /\ elapsed' = [elapsed EXCEPT ![i] = 0]
  /\ UNCHANGED <<callbacks, delays, maxNumRuns, numRuns, enabled, toBeCalled, calls, slot,
                 calling>>

Call ==
  \/ \E d \in Delays, n \in Counts : SetTimer(d, n)
  \/ \E i \in Slots : Delete(i) \/ RestartTimer(i) \/ Enable(i, TRUE) \/ Enable(i, FALSE)

Next == Tick \/ Run \/ Pass \/ CallBack \/ Returns \/ Call

-----------------------------------------------------------------------------
(* Properties *)

TypeOK ==
  /\ callbacks \subseteq Slots /\ slot \in 0 .. MaxTimers
  /\ delays \in [Slots -> {0} \cup Delays] /\ maxNumRuns \in [Slots -> {0} \cup Counts]
  /\ numRuns \in [Slots -> Nat] /\ enabled \in [Slots -> BOOLEAN]
  /\ elapsed \in [Slots -> 0 .. MaxLate] /\ calls \in [Slots -> Nat]
  /\ toBeCalled \in [Slots -> {"DontRun", "RunOnly", "RunAndDel"}]
  /\ calling \in {"DontRun", "RunOnly", "RunAndDel"}

\* "after the last run, delete the timer": whatever callbacks set, delete, enable and
\* restart, a timer is never called more often than asked, run() deletes only a timer
\* that was called as often as asked, and it calls no slot that is empty.
TimersKept ==
  /\ \A i \in callbacks : maxNumRuns[i] # RunForever => calls[i] <= maxNumRuns[i]
  /\ calling = "RunAndDel" /\ slot \in callbacks => calls[slot] = maxNumRuns[slot]
  /\ \A i \in Slots : slot # 0 /\ i >= slot /\ toBeCalled[i] # "DontRun" =>
       i \in callbacks \/ i = slot

\* disable: a timer that is disabled is not called, not even later in the same pass.
DisabledRests == [][calling' # calling /\ calling = "DontRun" => enabled[slot]]_simple
=============================================================================
