---------------------------- MODULE LibraryProofs ---------------------------
(***************************************************************************)
(* Theorems about the small libraries.  They share nothing, so each has an *)
(* invariant of its own, and the one of MCDeviceLibraries joins them.      *)
(***************************************************************************)
EXTENDS MCDeviceLibraries, SequenceTheorems, WellFoundedInduction, TLAPS

(***************************************************************************)
(* SimpleTimer                                                             *)
(***************************************************************************)

\* The callback of this slot is decided upon and still to be called in this pass.
Pending(i) ==
  /\ slot # 0 /\ toBeCalled[i] # "DontRun"
  /\ i > slot \/ (i = slot /\ calling = "DontRun")

\* An empty slot is as deleteTimer leaves it, but for maxNumRuns.
EmptyInv ==
  \A i \in Timer!Slots \ callbacks :
    toBeCalled[i] = "DontRun" /\ numRuns[i] = 0 /\ calls[i] = 0

\* numRuns counts the calls decided upon, never more than asked; all of them have been
\* made but those pending.
CountInv ==
  \A i \in callbacks :
    /\ maxNumRuns[i] = 0 => numRuns[i] = 0 /\ calls[i] = 0
    /\ maxNumRuns[i] # 0 =>
         /\ numRuns[i] <= maxNumRuns[i]
         /\ calls[i] = IF Pending(i) THEN numRuns[i] - 1 ELSE numRuns[i]

\* A slot is to be deleted after the last of its runs only.
LastInv ==
  /\ \A i \in callbacks : Pending(i) /\ toBeCalled[i] = "RunAndDel" =>
       maxNumRuns[i] # 0 /\ numRuns[i] = maxNumRuns[i]
  /\ calling = "RunAndDel" =>
       slot \in callbacks /\ maxNumRuns[slot] # 0 /\ numRuns[slot] = maxNumRuns[slot]

CallingInv == slot = 0 => calling = "DontRun"

TimerInv == Timer!TypeOK /\ CallingInv /\ EmptyInv /\ CountInv /\ LastInv

LEMMA TimerInit == Timer!Init => TimerInv
BY TimerAssumption
DEF Timer!Init, TimerInv, Timer!TypeOK, CallingInv, EmptyInv, CountInv, LastInv, Timer!All,
    Timer!Slots, Pending

LEMMA FollowingSlot ==
  ASSUME slot \in 1 .. MaxTimers
  PROVE  Timer!Following = IF slot = MaxTimers THEN 0 ELSE slot + 1
BY TimerAssumption DEF Timer!Following

LEMMA TimerNumbers ==
  Timer!TypeOK => \A i \in Timer!Slots :
    /\ delays[i] \in Nat /\ maxNumRuns[i] \in Nat /\ numRuns[i] \in Nat /\ calls[i] \in Nat
    /\ elapsed[i] \in 0 .. MaxLate
<1>1. {0} \cup Delays \subseteq Nat /\ {0} \cup Counts \subseteq Nat
  BY TimerAssumption
<1>2. Timer!TypeOK => \A i \in Timer!Slots :
        /\ delays[i] \in {0} \cup Delays /\ maxNumRuns[i] \in {0} \cup Counts
        /\ numRuns[i] \in Nat /\ calls[i] \in Nat /\ elapsed[i] \in 0 .. MaxLate
  BY DEF Timer!TypeOK
<1>3. QED
  BY <1>1, <1>2

LEMMA DeletedType ==
  ASSUME Timer!TypeOK, NEW i \in Timer!Slots, i \in callbacks, Timer!DeleteTimer(i)
  PROVE  /\ callbacks' = callbacks \ {i} /\ maxNumRuns' = maxNumRuns
         /\ toBeCalled' = [toBeCalled EXCEPT ![i] = "DontRun"]
         /\ numRuns' = [numRuns EXCEPT ![i] = 0] /\ calls' = [calls EXCEPT ![i] = 0]
         /\ slot' \in 0 .. MaxTimers /\ calling' \in {"DontRun", "RunOnly", "RunAndDel"} =>
              Timer!TypeOK'
<1> USE DEF Timer!Slots
<1>1. /\ callbacks' = callbacks \ {i} /\ enabled' = [enabled EXCEPT ![i] = FALSE]
      /\ toBeCalled' = [toBeCalled EXCEPT ![i] = "DontRun"]
      /\ delays' = [delays EXCEPT ![i] = 0] /\ numRuns' = [numRuns EXCEPT ![i] = 0]
      /\ calls' = [calls EXCEPT ![i] = 0] /\ elapsed' = [elapsed EXCEPT ![i] = 0]
      /\ maxNumRuns' = maxNumRuns
  BY Zenon DEF Timer!DeleteTimer
<1>2. callbacks' \subseteq Timer!Slots
  BY <1>1 DEF Timer!TypeOK
<1>3. enabled' \in [Timer!Slots -> BOOLEAN]
  BY <1>1, Zenon DEF Timer!TypeOK
<1>4. /\ toBeCalled' \in [Timer!Slots -> {"DontRun", "RunOnly", "RunAndDel"}]
      /\ delays' \in [Timer!Slots -> {0} \cup Delays]
      /\ maxNumRuns' \in [Timer!Slots -> {0} \cup Counts]
  BY <1>1 DEF Timer!TypeOK
<1>5. /\ numRuns' \in [Timer!Slots -> Nat] /\ calls' \in [Timer!Slots -> Nat]
      /\ elapsed' \in [Timer!Slots -> 0 .. MaxLate]
  BY <1>1, TimerAssumption DEF Timer!TypeOK
<1>6. QED
  BY <1>1, <1>2, <1>3, <1>4, <1>5 DEF Timer!TypeOK

LEMMA LeastEmptySlot ==
  ASSUME NEW S \in SUBSET (1 .. MaxTimers), S # {}
  PROVE  \E i \in S : \A j \in S : i <= j
<1> DEFINE LessThan == {ss \in Nat \X Nat : ss[1] < ss[2]}
<1>1. S \subseteq Nat
  OBVIOUS
<1>2. IsWellFoundedOn(LessThan, Nat)
  BY NatLessThanWellFounded DEF OpToRel
<1>3. PICK i \in S : \A j \in S : <<j, i>> \notin LessThan
  BY <1>1, <1>2, WFMin
<1>4. \A j \in S : ~ (j < i)
  BY <1>1, <1>3
<1>5. QED
  BY <1>1, <1>4

\* setTimer takes an empty slot.
LEMMA FirstEmptySlot ==
  ASSUME Timer!TypeOK, NEW d, NEW n, Timer!SetTimer(d, n)
  PROVE  (CHOOSE j \in Timer!Slots \ callbacks : \A k \in Timer!Slots \ callbacks : j <= k)
           \in Timer!Slots \ callbacks
<1>1. Timer!Slots \ callbacks \in SUBSET (1 .. MaxTimers) /\ Timer!Slots \ callbacks # {}
  BY DEF Timer!SetTimer, Timer!TypeOK, Timer!Slots
<1>2. \E j \in Timer!Slots \ callbacks : \A k \in Timer!Slots \ callbacks : j <= k
  BY <1>1, LeastEmptySlot
<1>3. QED
  BY <1>2

\* Types do not depend on what a callback does to its own timer.
LEMMA TimerTypeStep == Timer!TypeOK /\ Timer!Next => Timer!TypeOK'
<1> USE DEF Timer!Slots, Timer!RunForever
<1> SUFFICES ASSUME Timer!TypeOK, Timer!Next PROVE Timer!TypeOK'
  OBVIOUS
<1>1. CASE Timer!Tick
  BY <1>1, TimerAssumption DEF Timer!TypeOK, Timer!Tick
<1>2. CASE Timer!Run
  <2>1. slot' \in 0 .. MaxTimers
    BY <1>2, TimerAssumption DEF Timer!Run
  <2>2. elapsed' \in [Timer!Slots -> 0 .. MaxLate]
    <3>1. \A i \in Timer!Slots : elapsed[i] \in 0 .. MaxLate /\ delays[i] \in Nat
      BY TimerNumbers
    <3>2. \A i \in Timer!Slots :
            (IF Timer!Due(i) THEN elapsed[i] - delays[i] ELSE elapsed[i]) \in 0 .. MaxLate
      BY <3>1, TimerAssumption DEF Timer!Due
    <3>3. QED
      BY <1>2, <3>2 DEF Timer!Run
  <2>3. numRuns' \in [Timer!Slots -> Nat]
    BY <1>2 DEF Timer!TypeOK, Timer!Run
  <2>4. toBeCalled' \in [Timer!Slots -> {"DontRun", "RunOnly", "RunAndDel"}]
    BY <1>2 DEF Timer!Run
  <2>5. QED
    BY <1>2, <2>1, <2>2, <2>3, <2>4 DEF Timer!TypeOK, Timer!Run
<1>3. Timer!Following \in 0 .. MaxTimers
  BY TimerAssumption DEF Timer!Following, Timer!TypeOK
<1>4. CASE Timer!Pass
  BY <1>3, <1>4 DEF Timer!TypeOK, Timer!Pass, Timer!timers
<1>5. CASE Timer!CallBack
  BY <1>5 DEF Timer!TypeOK, Timer!CallBack
<1>6. ASSUME NEW i \in 0 .. MaxTimers, Timer!DeleteTimer(i),
             slot' \in 0 .. MaxTimers, calling' \in {"DontRun", "RunOnly", "RunAndDel"}
      PROVE  Timer!TypeOK'
  <2>1. CASE i \notin callbacks
    BY <1>6, <2>1 DEF Timer!TypeOK, Timer!DeleteTimer, Timer!timers
  <2>2. CASE i \in callbacks
    <3>1. i \in Timer!Slots
      BY <2>2 DEF Timer!TypeOK
    <3>2. QED
      BY <1>6, <2>2, <3>1, DeletedType
  <2>3. QED
    BY <2>1, <2>2
<1>7. CASE Timer!Returns
  <2>1. slot \in 0 .. MaxTimers /\ slot' \in 0 .. MaxTimers /\ calling' = "DontRun"
    BY <1>3, <1>7 DEF Timer!TypeOK, Timer!Returns
  <2>2. CASE calling = "RunAndDel"
    BY <1>6, <1>7, <2>1, <2>2 DEF Timer!Returns
  <2>3. CASE calling # "RunAndDel"
    BY <1>7, <2>1, <2>3 DEF Timer!TypeOK, Timer!Returns, Timer!timers
  <2>4. QED
    BY <2>2, <2>3
<1>8. ASSUME NEW d \in Delays, NEW n \in Counts, Timer!SetTimer(d, n)
      PROVE  Timer!TypeOK'
  <2> DEFINE i == CHOOSE j \in Timer!Slots \ callbacks :
                    \A k \in Timer!Slots \ callbacks : j <= k
  <2>1. i \in Timer!Slots \ callbacks
    BY <1>8, FirstEmptySlot
  <2>2. /\ callbacks' = callbacks \cup {i}
        /\ delays' = [delays EXCEPT ![i] = d] /\ maxNumRuns' = [maxNumRuns EXCEPT ![i] = n]
        /\ enabled' = [enabled EXCEPT ![i] = TRUE]
        /\ elapsed' = [elapsed EXCEPT ![i] = 0]
        /\ UNCHANGED <<numRuns, toBeCalled, calls, slot, calling>>
    BY <1>8 DEF Timer!SetTimer
  <2> HIDE DEF i
  <2>3. callbacks' \subseteq Timer!Slots
    BY <2>1, <2>2 DEF Timer!TypeOK
  <2>4. /\ delays' \in [Timer!Slots -> {0} \cup Delays]
        /\ maxNumRuns' \in [Timer!Slots -> {0} \cup Counts]
    BY <2>1, <2>2 DEF Timer!TypeOK
  <2>5. enabled' \in [Timer!Slots -> BOOLEAN]
    BY <2>1, <2>2, Zenon DEF Timer!TypeOK
  <2>6. elapsed' \in [Timer!Slots -> 0 .. MaxLate]
    BY <2>1, <2>2, TimerAssumption DEF Timer!TypeOK
  <2>7. QED
    BY <2>2, <2>3, <2>4, <2>5, <2>6 DEF Timer!TypeOK
<1>9. ASSUME NEW i \in Timer!Slots, Timer!Delete(i)
      PROVE  Timer!TypeOK'
  <2>1. /\ i \in 0 .. MaxTimers /\ Timer!DeleteTimer(i)
        /\ slot' \in 0 .. MaxTimers /\ calling' \in {"DontRun", "RunOnly", "RunAndDel"}
    BY <1>9, TimerAssumption DEF Timer!Delete, Timer!TypeOK
  <2>2. QED
    BY <1>6, <2>1
<1>10. ASSUME NEW i \in Timer!Slots, Timer!RestartTimer(i)
       PROVE  Timer!TypeOK'
  BY <1>10, TimerAssumption DEF Timer!TypeOK, Timer!RestartTimer
<1>11. ASSUME NEW i \in Timer!Slots, NEW on \in BOOLEAN, Timer!Enable(i, on)
       PROVE  Timer!TypeOK'
  <2>1. enabled' \in [Timer!Slots -> BOOLEAN]
    BY <1>11, Zenon DEF Timer!TypeOK, Timer!Enable
  <2>2. QED
    BY <1>11, <2>1 DEF Timer!TypeOK, Timer!Enable
<1>12. QED
  BY <1>1, <1>2, <1>4, <1>5, <1>7, <1>8, <1>9, <1>10, <1>11 DEF Timer!Next, Timer!Call

\* deleteTimer, outside the last run of the same slot.
LEMMA TimerDelete ==
  ASSUME TimerInv, NEW i \in Timer!Slots, Timer!DeleteTimer(i), UNCHANGED <<slot, calling>>,
         ~ (i = slot /\ calling = "RunAndDel")
  PROVE  TimerInv'
<1>1. CASE i \notin callbacks
  BY <1>1 DEF Timer!DeleteTimer, Timer!timers, TimerInv, Timer!TypeOK, CallingInv, EmptyInv,
              CountInv, LastInv, Pending, Timer!Slots
<1>2. CASE i \in callbacks
  <2>1. /\ callbacks' = callbacks \ {i} /\ maxNumRuns' = maxNumRuns
        /\ toBeCalled' = [toBeCalled EXCEPT ![i] = "DontRun"]
        /\ numRuns' = [numRuns EXCEPT ![i] = 0] /\ calls' = [calls EXCEPT ![i] = 0]
        /\ slot' = slot /\ calling' = calling /\ Timer!TypeOK'
    <3>1. slot' \in 0 .. MaxTimers /\ calling' \in {"DontRun", "RunOnly", "RunAndDel"}
      BY DEF TimerInv, Timer!TypeOK
    <3>2. QED
      BY <1>2, <3>1, DeletedType DEF TimerInv
  <2>2. CallingInv' /\ EmptyInv'
    BY <1>2, <2>1 DEF TimerInv, Timer!TypeOK, CallingInv, EmptyInv, Timer!Slots
  <2>3. CountInv' /\ LastInv'
    BY <1>2, <2>1 DEF TimerInv, Timer!TypeOK, CountInv, LastInv, Pending, Timer!Slots
  <2>4. QED
    BY <2>1, <2>2, <2>3 DEF TimerInv
<1>3. QED
  BY <1>1, <1>2

LEMMA TimerSet ==
  ASSUME TimerInv, NEW d \in Delays, NEW n \in Counts, Timer!SetTimer(d, n)
  PROVE  TimerInv'
<1> USE DEF Timer!Slots
<1> DEFINE i == CHOOSE j \in Timer!Slots \ callbacks :
                  \A k \in Timer!Slots \ callbacks : j <= k
<1>3. i \in Timer!Slots \ callbacks
  BY FirstEmptySlot DEF TimerInv
<1>4. /\ callbacks' = callbacks \cup {i}
      /\ delays' = [delays EXCEPT ![i] = d] /\ maxNumRuns' = [maxNumRuns EXCEPT ![i] = n]
      /\ enabled' = [enabled EXCEPT ![i] = TRUE]
      /\ elapsed' = [elapsed EXCEPT ![i] = 0]
      /\ UNCHANGED <<numRuns, toBeCalled, calls, slot, calling>>
  BY DEF Timer!SetTimer
<1> HIDE DEF i
<1>5. Timer!TypeOK'
  BY TimerTypeStep DEF TimerInv, Timer!Next, Timer!Call
<1>6. CallingInv' /\ EmptyInv'
  BY <1>3, <1>4 DEF TimerInv, Timer!TypeOK, CallingInv, EmptyInv
<1>7. CountInv'
  BY <1>3, <1>4, TimerAssumption DEF TimerInv, Timer!TypeOK, CountInv, EmptyInv, Pending
<1>8. LastInv'
  BY <1>3, <1>4 DEF TimerInv, Timer!TypeOK, LastInv, EmptyInv, Pending
<1>9. QED
  BY <1>5, <1>6, <1>7, <1>8 DEF TimerInv

\* The first loop of run(): what is decided upon is counted.
LEMMA TimerRun == TimerInv /\ Timer!Run => TimerInv'
<1> USE DEF Timer!Slots, Timer!RunForever
<1> SUFFICES ASSUME TimerInv, Timer!Run PROVE TimerInv'
  OBVIOUS
<1> USE DEF TimerInv, Timer!Run
<1>1. Timer!TypeOK'
  BY TimerTypeStep DEF Timer!Next
<1>2. CallingInv' /\ EmptyInv'
  BY DEF CallingInv, EmptyInv, Timer!TypeOK, Timer!Called, Timer!Due
<1>3. slot = 0 /\ slot' = 1 /\ calling' = "DontRun" /\ calling = "DontRun"
  BY DEF CallingInv
<1>4. ASSUME NEW i \in callbacks
      PROVE  Pending(i)' <=> Timer!Called(i)
  BY <1>3 DEF Pending, Timer!TypeOK
<1>5. CountInv'
  <2>1. ASSUME NEW i \in callbacks
        PROVE  ~ Pending(i)
    BY <1>3 DEF Pending
  <2>2. ASSUME NEW i \in callbacks
        PROVE  /\ maxNumRuns[i] = 0 => numRuns'[i] = 0 /\ calls[i] = 0
               /\ maxNumRuns[i] # 0 =>
                    /\ numRuns'[i] <= maxNumRuns[i]
                    /\ calls[i] = IF Timer!Called(i) THEN numRuns'[i] - 1 ELSE numRuns'[i]
    <3>1. /\ i \in Timer!Slots /\ numRuns[i] \in Nat /\ maxNumRuns[i] \in Nat
          /\ numRuns'[i] = IF Timer!Called(i) /\ maxNumRuns[i] # 0 THEN numRuns[i] + 1
                           ELSE numRuns[i]
      BY TimerNumbers DEF Timer!TypeOK
    <3>2. /\ maxNumRuns[i] = 0 => numRuns[i] = 0 /\ calls[i] = 0
          /\ maxNumRuns[i] # 0 => numRuns[i] <= maxNumRuns[i] /\ calls[i] = numRuns[i]
      BY <2>1 DEF CountInv
    <3>3. maxNumRuns[i] # 0 /\ Timer!Called(i) => numRuns[i] < maxNumRuns[i]
      BY DEF Timer!Called
    <3>4. QED
      BY <3>1, <3>2, <3>3
  <2>3. calls' = calls /\ maxNumRuns' = maxNumRuns /\ callbacks' = callbacks
    OBVIOUS
  <2>4. QED
    BY <1>4, <2>2, <2>3 DEF CountInv
<1>6. LastInv'
  <2>1. ASSUME NEW i \in callbacks, Timer!Called(i), toBeCalled'[i] = "RunAndDel"
        PROVE  maxNumRuns[i] # 0 /\ numRuns'[i] = maxNumRuns[i]
    <3>1. /\ i \in Timer!Slots /\ numRuns[i] \in Nat /\ maxNumRuns[i] \in Nat
          /\ numRuns'[i] = IF maxNumRuns[i] # 0 THEN numRuns[i] + 1 ELSE numRuns[i]
      BY <2>1, TimerNumbers DEF Timer!TypeOK
    <3>2. Timer!LastRun(i)
      BY <2>1, <3>1
    <3>3. QED
      BY <2>1, <3>1, <3>2 DEF Timer!LastRun, Timer!Called
  <2>2. calling' # "RunAndDel" /\ maxNumRuns' = maxNumRuns /\ callbacks' = callbacks
    BY <1>3
  <2>3. QED
    BY <1>4, <2>1, <2>2 DEF LastInv
<1>7. QED
  BY <1>1, <1>2, <1>5, <1>6

\* The second loop moves on from a slot that needs no call, or no further one.
LEMMA TimerMovesOn ==
  ASSUME TimerInv, slot # 0, calling' = "DontRun", slot' = Timer!Following,
         UNCHANGED Timer!timers, ~ Pending(slot)
  PROVE  TimerInv'
<1> USE DEF TimerInv, Timer!Slots, Timer!timers
<1>1. slot \in 1 .. MaxTimers /\ slot' = IF slot = MaxTimers THEN 0 ELSE slot + 1
  BY FollowingSlot DEF Timer!TypeOK
<1>2. Timer!TypeOK'
  BY <1>1, TimerAssumption DEF Timer!TypeOK
<1>3. \A i \in callbacks : Pending(i)' <=> Pending(i)
  BY <1>1 DEF Pending, Timer!TypeOK
<1>4. CountInv' /\ LastInv'
  BY <1>3 DEF CountInv, LastInv
<1>5. QED
  BY <1>2, <1>4 DEF CallingInv, EmptyInv

LEMMA TimerCallBack == TimerInv /\ Timer!CallBack => TimerInv'
<1> USE DEF Timer!Slots, Timer!RunForever
<1> SUFFICES ASSUME TimerInv, Timer!CallBack PROVE TimerInv'
  OBVIOUS
<1> USE DEF TimerInv, Timer!CallBack
<1>1. slot \in callbacks /\ Pending(slot)
  BY DEF EmptyInv, Pending, Timer!TypeOK
<1>2. /\ slot' = slot /\ slot \in 1 .. MaxTimers
      /\ \A i \in callbacks : Pending(i)' <=> Pending(i) /\ i # slot
  BY <1>1 DEF Pending, Timer!TypeOK
<1>3. Timer!TypeOK'
  BY TimerTypeStep DEF Timer!Next
<1>4. CallingInv' /\ EmptyInv'
  BY <1>1, <1>2 DEF CallingInv, EmptyInv, Timer!TypeOK
<1>5. CountInv'
  BY <1>1, <1>2, TimerAssumption DEF CountInv, Timer!TypeOK
<1>6. LastInv'
  BY <1>1, <1>2 DEF LastInv, Timer!TypeOK
<1>7. QED
  BY <1>3, <1>4, <1>5, <1>6

LEMMA TimerReturns == TimerInv /\ Timer!Returns => TimerInv'
<1> SUFFICES ASSUME TimerInv, Timer!Returns PROVE TimerInv'
  OBVIOUS
<1>1. slot \in 1 .. MaxTimers /\ slot # 0 /\ ~ Pending(slot)
  BY DEF TimerInv, Timer!TypeOK, CallingInv, Timer!Returns, Pending
<1>2. CASE calling # "RunAndDel"
  BY <1>1, <1>2, TimerMovesOn DEF Timer!Returns
<1>3. CASE calling = "RunAndDel"
  <2> USE DEF Timer!Slots
  <2>1. slot \in callbacks /\ Timer!DeleteTimer(slot) /\ calling' = "DontRun"
    BY <1>3 DEF TimerInv, LastInv, Timer!Returns
  <2>2. slot' = IF slot = MaxTimers THEN 0 ELSE slot + 1
    BY <1>1, FollowingSlot DEF Timer!Returns
  <2>3. /\ callbacks' = callbacks \ {slot} /\ maxNumRuns' = maxNumRuns
        /\ toBeCalled' = [toBeCalled EXCEPT ![slot] = "DontRun"]
        /\ numRuns' = [numRuns EXCEPT ![slot] = 0] /\ calls' = [calls EXCEPT ![slot] = 0]
        /\ Timer!TypeOK'
    <3>1. slot' \in 0 .. MaxTimers /\ calling' \in {"DontRun", "RunOnly", "RunAndDel"}
      BY <1>1, <2>1, <2>2, TimerAssumption
    <3>2. QED
      BY <1>1, <2>1, <3>1, DeletedType DEF TimerInv
  <2>4. \A i \in callbacks' : i \in callbacks /\ i # slot /\ (Pending(i)' <=> Pending(i))
    BY <1>1, <2>1, <2>2, <2>3 DEF TimerInv, Timer!TypeOK, Pending
  <2>5. CallingInv' /\ EmptyInv'
    BY <1>1, <2>1, <2>2, <2>3 DEF TimerInv, Timer!TypeOK, CallingInv, EmptyInv
  <2>6. CountInv' /\ LastInv'
    BY <1>1, <2>1, <2>3, <2>4 DEF TimerInv, Timer!TypeOK, CountInv, LastInv
  <2>7. QED
    BY <2>3, <2>5, <2>6 DEF TimerInv
<1>4. QED
  BY <1>2, <1>3

LEMMA TimerStep == TimerInv /\ ~ Recycles /\ Timer!Next => TimerInv'
<1> SUFFICES ASSUME TimerInv, ~ Recycles, Timer!Next PROVE TimerInv'
  OBVIOUS
<1> USE DEF Timer!Slots
<1>1. CASE Timer!Tick
  BY <1>1, TimerAssumption
  DEF TimerInv, Timer!TypeOK, CallingInv, EmptyInv, CountInv, LastInv, Pending, Timer!Tick
<1>2. CASE Timer!Run
  BY <1>2, TimerRun
<1>3. CASE Timer!Pass
  BY <1>3, TimerMovesOn DEF Timer!Pass, Timer!timers, Pending
<1>4. CASE Timer!CallBack
  BY <1>4, TimerCallBack
<1>5. CASE Timer!Returns
  BY <1>5, TimerReturns
<1>6. CASE \E d \in Delays, n \in Counts : Timer!SetTimer(d, n)
  BY <1>6, TimerSet
<1>7. ASSUME NEW i \in Timer!Slots, Timer!Delete(i)
      PROVE  TimerInv'
  BY <1>7, TimerDelete DEF Timer!Delete
<1>8. ASSUME NEW i \in Timer!Slots, Timer!RestartTimer(i)
      PROVE  TimerInv'
  BY <1>8, TimerAssumption
  DEF TimerInv, Timer!TypeOK, CallingInv, EmptyInv, CountInv, LastInv, Pending,
      Timer!RestartTimer
<1>9. ASSUME NEW i \in Timer!Slots, NEW on \in BOOLEAN, Timer!Enable(i, on)
      PROVE  TimerInv'
  <2>1. enabled' \in [Timer!Slots -> BOOLEAN]
    BY <1>9, Zenon DEF TimerInv, Timer!TypeOK, Timer!Enable
  <2>2. QED
    BY <1>9, <2>1
    DEF TimerInv, Timer!TypeOK, CallingInv, EmptyInv, CountInv, LastInv, Pending,
        Timer!Enable
<1>10. QED
  BY <1>1, <1>2, <1>3, <1>4, <1>5, <1>6, <1>7, <1>8, <1>9 DEF Timer!Next, Timer!Call

LEMMA TimerSafe == TimerInv => TimersKept
<1> USE DEF Timer!Slots, Timer!RunForever, TimerInv
<1> SUFFICES ASSUME TimerInv PROVE TimersKept
  OBVIOUS
<1>1. ASSUME NEW i \in callbacks, maxNumRuns[i] # 0
      PROVE  calls[i] <= maxNumRuns[i]
  <2>1. i \in Timer!Slots /\ calls[i] \in Nat /\ numRuns[i] \in Nat /\ maxNumRuns[i] \in Nat
    BY TimerNumbers DEF Timer!TypeOK
  <2>2. /\ numRuns[i] <= maxNumRuns[i]
        /\ calls[i] = IF Pending(i) THEN numRuns[i] - 1 ELSE numRuns[i]
    BY <1>1 DEF CountInv
  <2>3. QED
    BY <2>1, <2>2
<1>2. ASSUME calling = "RunAndDel", slot \in callbacks
      PROVE  calls[slot] = maxNumRuns[slot]
  <2>1. slot \in 1 .. MaxTimers /\ ~ Pending(slot)
    BY <1>2 DEF Pending, Timer!TypeOK
  <2>2. QED
    BY <1>2, <2>1 DEF LastInv, CountInv
<1>3. ASSUME NEW i \in Timer!Slots, toBeCalled[i] # "DontRun"
      PROVE  i \in callbacks
  BY <1>3 DEF EmptyInv
<1>4. QED
  BY <1>1, <1>2, <1>3 DEF TimersKept, Timer!TimersKept

(***************************************************************************)
(* EventDispatch                                                           *)
(***************************************************************************)

\* How many events were sent at most so many units ago.
SentWithin(age) ==
  CASE age = 0 -> sent[0]
    [] age = 1 -> sent[0] + sent[1]
    [] age = 2 -> sent[0] + sent[1] + sent[2]
    [] OTHER   -> sent[0] + sent[1] + sent[2] + sent[3]

\* The last k attempts are no older than the last k events sent, those turned down and
\* the wrap of the clock can only make them younger.
AttemptInv ==
  \A k \in 1 .. 4, age \in Events!Ages : SentWithin(age) >= k => eventTicks[6 - k] <= age

EventInv == Events!TypeOK /\ AttemptInv /\ Events!AtMostFour

LEMMA EventInit == Events!Init => EventInv
<1> SUFFICES ASSUME Events!Init PROVE EventInv
  OBVIOUS
<1> USE EventAssumption DEF Events!Init, Events!Ages, Events!Ring, Events!Second
<1>1. Events!TypeOK
  <2>1. handlers \in Seq(Filters) /\ Len(handlers) = 0
    OBVIOUS
  <2>2. updating \in BOOLEAN
    BY Zenon
  <2>3. called.handler \in 0 .. MaxHandlers + 1
    BY DEF Events!NoCall
  <2>4. QED
    BY <2>1, <2>2, <2>3 DEF Events!TypeOK
<1>2. QED
  BY <1>1 DEF EventInv, AttemptInv, Events!AtMostFour, SentWithin

LEMMA EventNumbers ==
  Events!TypeOK =>
    /\ \A age \in Events!Ages : sent[age] \in Nat
    /\ \A k \in 1 .. 5 : eventTicks[k] \in Int
BY EventAssumption DEF Events!TypeOK, Events!Ages, Events!Ring

LEMMA TailOfFive ==
  ASSUME NEW S, NEW s \in Seq(S), Len(s) = 5
  PROVE  /\ Tail(s) \in Seq(S) /\ Len(Tail(s)) = 4
         /\ \A k \in 1 .. 4 : Tail(s)[k] = s[k + 1]
<1>1. s # <<>>
  OBVIOUS
<1>2. QED
  <2>1. /\ Tail(s) \in Seq(S) /\ Len(Tail(s)) = Len(s) - 1
        /\ \A k \in 1 .. Len(Tail(s)) : Tail(s)[k] = s[k + 1]
    BY <1>1, HeadTailProperties, Zenon
  <2> DEFINE t == Tail(s)
  <2> HIDE DEF t
  <2>2. t \in Seq(S) /\ Len(t) = 5 - 1 /\ \A k \in 1 .. Len(t) : t[k] = s[k + 1]
    BY <2>1, Zenon DEF t
  <2>3. Len(t) = 4 /\ \A k \in 1 .. 4 : t[k] = s[k + 1]
    BY <2>2
  <2>4. QED
    BY <2>2, <2>3, Zenon DEF t

LEMMA Appended ==
  ASSUME NEW S, NEW s \in Seq(S), NEW x \in S
  PROVE  /\ Append(s, x) \in Seq(S) /\ Len(Append(s, x)) = Len(s) + 1
         /\ \A k \in 1 .. Len(s) : Append(s, x)[k] = s[k]
         /\ Append(s, x)[Len(s) + 1] = x
OBVIOUS

LEMMA AppendToFour ==
  ASSUME NEW S, NEW s \in Seq(S), NEW x \in S, Len(s) = 4
  PROVE  /\ Append(s, x) \in Seq(S) /\ Len(Append(s, x)) = 5
         /\ \A k \in 1 .. 4 : Append(s, x)[k] = s[k]
         /\ Append(s, x)[5] = x
<1> DEFINE t == Append(s, x)
<1> HIDE DEF t
<1>1. /\ t \in Seq(S) /\ Len(t) = Len(s) + 1
      /\ \A k \in 1 .. Len(s) : t[k] = s[k]
      /\ t[Len(s) + 1] = x
  BY Appended, Zenon DEF t
<1>2. Len(t) = 5 /\ (\A k \in 1 .. 4 : t[k] = s[k]) /\ t[5] = x
  BY <1>1
<1>4. QED
  BY <1>1, <1>2, Zenon DEF t

LEMMA FiveAsSeq ==
  ASSUME NEW S
  PROVE  \A s : s \in [1 .. 5 -> S] <=> s \in Seq(S) /\ Len(s) = 5
<1>1. ASSUME NEW s \in [1 .. 5 -> S]
      PROVE  s \in Seq(S) /\ Len(s) = 5
  <2>1. s \in Seq(S)
    BY 5 \in Nat, SeqDef
  <2>2. QED
    BY <2>1, LenProperties
<1>2. ASSUME NEW s \in Seq(S), Len(s) = 5
      PROVE  s \in [1 .. 5 -> S]
  BY <1>2, LenProperties
<1>3. QED
  BY <1>1, <1>2, Zenon

\* What send_event does to the ages of the last five attempts.
Shift(s, x) == Append(Tail(s), x)

LEMMA Shifted ==
  ASSUME NEW S, NEW s, s \in [1 .. 5 -> S], NEW x \in S
  PROVE  /\ Shift(s, x) \in [1 .. 5 -> S]
         /\ \A k \in 1 .. 4 : Shift(s, x)[k] = s[k + 1]
         /\ Shift(s, x)[5] = x
<1>1. s \in Seq(S) /\ Len(s) = 5
  BY FiveAsSeq, Zenon
<1> DEFINE t == Tail(s)
<1>2. t \in Seq(S) /\ Len(t) = 4 /\ \A k \in 1 .. 4 : t[k] = s[k + 1]
  BY <1>1, TailOfFive, Zenon
<1> DEFINE u == Append(t, x)
<1> HIDE DEF t
<1>3. /\ u \in Seq(S) /\ Len(u) = 5
      /\ \A k \in 1 .. 4 : u[k] = t[k]
      /\ u[5] = x
  <2>1. t \in Seq(S) /\ Len(t) = 4
    BY <1>2, Zenon
  <2> HIDE <1>1, <1>2
  <2>2. QED
    BY <2>1, AppendToFour, Zenon
<1> HIDE DEF u
<1>4. u \in [1 .. 5 -> S]
  BY <1>3, FiveAsSeq, Zenon
<1>5. \A k \in 1 .. 4 : u[k] = s[k + 1]
  BY <1>2, <1>3, Zenon
<1>6. u = Shift(s, x)
  BY DEF Shift, t, u
<1>7. QED
  BY <1>3, <1>4, <1>5, <1>6, Zenon

LEMMA EventSend == EventInv /\ Events!SendEvent => EventInv'
<1> SUFFICES ASSUME EventInv, Events!SendEvent PROVE EventInv'
  OBVIOUS
<1> USE DEF Events!Ages, Events!Ring, Events!Second
<1>1. /\ eventTicks' \in [1 .. 5 -> 0 .. Wrap - 1]
      /\ \A k \in 1 .. 4 : eventTicks'[k] = eventTicks[k + 1]
      /\ eventTicks'[5] = 0
  <2> DEFINE S == 0 .. Wrap - 1
  <2>1. 0 \in S /\ eventTicks \in [1 .. 5 -> S]
    BY EventAssumption DEF EventInv, Events!TypeOK
  <2>2. eventTicks' = Shift(eventTicks, 0)
    BY DEF Events!SendEvent, Shift
  <2> HIDE DEF S
  <2>3. Shift(eventTicks, 0) \in [1 .. 5 -> S]
    BY <2>1, Shifted, Zenon
  <2>4. \A k \in 1 .. 4 : Shift(eventTicks, 0)[k] = eventTicks[k + 1]
    BY <2>1, Shifted
  <2>5. Shift(eventTicks, 0)[5] = 0
    BY <2>1, Shifted
  <2>6. QED
    BY <2>2, <2>3, <2>4, <2>5 DEF S
<1>2. sent' \in [0 .. 3 -> Nat]
  BY DEF Events!SendEvent, EventInv, Events!TypeOK
<1>3. Events!TypeOK'
  BY <1>1, <1>2 DEF Events!SendEvent, EventInv, Events!TypeOK
<1>4. AttemptInv' /\ Events!AtMostFour'
  <2>1. /\ \A age \in 0 .. 3 : sent[age] \in Nat
        /\ \A k \in 1 .. 5 : eventTicks[k] \in Int
    BY EventNumbers DEF EventInv
  <2>2. CASE Events!Burst
    <3>1. sent' = sent
      BY <2>2 DEF Events!SendEvent
    <3>2. QED
      BY <1>1, <2>1, <3>1 DEF EventInv, AttemptInv, SentWithin, Events!AtMostFour
  <2>3. CASE ~ Events!Burst
    <3>1. ~ (eventTicks[2] <= 3)
      BY <2>1, <2>3 DEF Events!Burst
    <3>2. SentWithin(3) < 4
      BY <2>1, <3>1 DEF EventInv, AttemptInv, SentWithin
    <3>3. sent'[0] = sent[0] + 1 /\ \A age \in 1 .. 3 : sent'[age] = sent[age]
      BY <2>3 DEF Events!SendEvent, EventInv, Events!TypeOK
    <3>4. \A age \in 0 .. 3 : SentWithin(age)' = SentWithin(age) + 1 /\ SentWithin(age) \in Nat
      BY <2>1, <3>3 DEF SentWithin
    <3>5. AttemptInv'
      <4>1. ASSUME NEW k \in 1 .. 4, NEW age \in 0 .. 3, SentWithin(age) + 1 >= k
            PROVE  eventTicks'[6 - k] <= age
        <5>1. CASE k = 1
          BY <1>1, <5>1
        <5>2. CASE k # 1
          <6>1. k - 1 \in 1 .. 4 /\ SentWithin(age) >= k - 1
            BY <3>4, <4>1, <5>2
          <6>2. eventTicks[6 - (k - 1)] <= age
            BY <6>1 DEF EventInv, AttemptInv
          <6>3. 6 - k \in 1 .. 4 /\ 6 - k + 1 = 6 - (k - 1)
            BY <5>2
          <6>4. QED
            BY <1>1, <6>2, <6>3
        <5>3. QED
          BY <5>1, <5>2
      <4>2. QED
        BY <3>4, <4>1 DEF AttemptInv
    <3>6. Events!AtMostFour'
      BY <2>1, <3>2, <3>3 DEF SentWithin, Events!AtMostFour
    <3>7. QED
      BY <3>5, <3>6
  <2>4. QED
    BY <2>2, <2>3
<1>5. QED
  BY <1>3, <1>4 DEF EventInv

LEMMA EventTick == EventInv /\ Events!Tick => EventInv'
<1> SUFFICES ASSUME EventInv, Events!Tick PROVE EventInv'
  OBVIOUS
<1> USE DEF Events!Ages, Events!Ring, Events!Second
<1>1. /\ \A age \in 0 .. 3 : sent[age] \in Nat
      /\ \A k \in 1 .. 5 : eventTicks[k] \in 0 .. Wrap - 1
  BY DEF EventInv, Events!TypeOK
<1>2. \A k \in 1 .. 5 :
        /\ eventTicks'[k] \in 0 .. Wrap - 1
        /\ eventTicks'[k] <= eventTicks[k] + 1
  BY <1>1, EventAssumption DEF Events!Tick, Events!Older
<1>3. eventTicks' \in [1 .. 5 -> 0 .. Wrap - 1]
  BY <1>2 DEF Events!Tick
<1>4. /\ sent' \in [0 .. 3 -> Nat] /\ sent'[0] = 0
      /\ \A age \in 1 .. 3 : sent'[age] = sent[age - 1]
  BY <1>1 DEF Events!Tick
<1>5. Events!TypeOK'
  BY <1>3, <1>4 DEF Events!Tick, EventInv, Events!TypeOK
<1>6. /\ SentWithin(0)' = 0
      /\ \A age \in 1 .. 3 : SentWithin(age)' = SentWithin(age - 1)
  BY <1>1, <1>4 DEF SentWithin
<1>7. AttemptInv'
  <2>1. ASSUME NEW k \in 1 .. 4, NEW age \in 0 .. 3, SentWithin(age)' >= k
        PROVE  eventTicks'[6 - k] <= age
    <3>1. age \in 1 .. 3 /\ age - 1 \in 0 .. 3 /\ SentWithin(age - 1) >= k
      BY <1>6, <2>1
    <3>2. eventTicks[6 - k] <= age - 1
      BY <3>1 DEF EventInv, AttemptInv
    <3>3. 6 - k \in 1 .. 5
      OBVIOUS
    <3>4. QED
      BY <1>1, <1>2, <3>2, <3>3
  <2>2. QED
    BY <2>1 DEF AttemptInv
<1>8. Events!AtMostFour'
  <2>1. sent'[1] = sent[0] /\ sent'[2] = sent[1] /\ sent'[3] = sent[2]
    BY <1>4
  <2>2. QED
    BY <1>1, <1>4, <2>1 DEF EventInv, Events!AtMostFour
<1>9. QED
  BY <1>5, <1>7, <1>8 DEF EventInv

LEMMA EventStep == EventInv /\ Events!Next => EventInv'
<1> SUFFICES ASSUME EventInv, Events!Next PROVE EventInv'
  OBVIOUS
<1>1. CASE Events!SendEvent
  BY <1>1, EventSend
<1>2. CASE Events!Tick
  BY <1>2, EventTick
<1>3. ASSUME UNCHANGED <<eventTicks, sent>>, Events!TypeOK'
      PROVE  EventInv'
  BY <1>3 DEF EventInv, AttemptInv, SentWithin, Events!AtMostFour
<1>4. CASE Events!Update
  <2>1. updating' \in BOOLEAN
    BY <1>4, Zenon DEF Events!Update
  <2>2. QED
    BY <1>3, <1>4, <2>1 DEF Events!Update, EventInv, Events!TypeOK
<1>5. ASSUME NEW filter \in Filters, Events!AddEventHandler(filter)
      PROVE  EventInv'
  <2>1. handlers' \in Seq(Filters) /\ Len(handlers') <= MaxHandlers
    BY <1>5, EventAssumption DEF Events!AddEventHandler, EventInv, Events!TypeOK
  <2>2. called'.handler \in 0 .. MaxHandlers + 1
    BY <1>5, EventAssumption DEF Events!AddEventHandler, Events!NoCall
  <2>3. QED
    BY <1>3, <1>5, <2>1, <2>2 DEF Events!AddEventHandler, EventInv, Events!TypeOK
<1>6. ASSUME NEW name \in Names, Events!ReceiveEvent(name)
      PROVE  EventInv'
  <2> DEFINE hits == {i \in DOMAIN handlers : Events!IsPrefix(handlers[i], Events!Seen(name, i))}
             none == IF Len(handlers) = MaxHandlers THEN {0, MaxHandlers + 1} ELSE {0}
             first == {h \in hits : \A k \in hits : h <= k}
  <2>1. PICK i \in IF hits = {} THEN none ELSE first :
          called' = [name |-> name, handler |-> i, whole |-> Events!Seen(name, i) = name]
    BY <1>6 DEF Events!ReceiveEvent
  <2>2. hits \subseteq 1 .. MaxHandlers
    BY EventAssumption DEF EventInv, Events!TypeOK
  <2>3. i \in 0 .. MaxHandlers + 1
    BY <2>2, EventAssumption
  <2>4. called'.handler = i
    BY <2>1
  <2>5. QED
    BY <1>3, <1>6, <2>3, <2>4 DEF Events!ReceiveEvent, EventInv, Events!TypeOK
<1>7. QED
  BY <1>1, <1>2, <1>4, <1>5, <1>6 DEF Events!Next

(***************************************************************************)
(* Ring buffers                                                            *)
(***************************************************************************)

\* What is in a ring of n slots from the tail t to the head h, the oldest first; an index
\* may stand at n for a moment, where it means 0.
RingSeq(buf, n, h, t) == [k \in 1 .. (h - t) % n |-> buf[(t + k - 1) % n]]
\* How many, and where: the modulo of the code without the modulo.
Count(n, h, t) == IF h >= t THEN IF h - t < n THEN h - t ELSE 0 ELSE h - t + n
Place(n, i) == IF i < n THEN i ELSE i - n

LEMMA Modulo ==
  ASSUME NEW n \in Nat, n > 1
  PROVE  /\ \A i \in 0 .. n - 1 : i % n = i
         /\ \A i \in n .. 2 * n - 1 : i % n = i - n
         /\ \A i \in - n .. -1 : i % n = i + n
OBVIOUS

LEMMA CountIs ==
  ASSUME NEW n \in Nat, n > 1, NEW h \in 0 .. n, NEW t \in 0 .. n
  PROVE (h - t) % n = Count(n, h, t) /\ Count(n, h, t) \in 0 .. n - 1
<1> DEFINE d == h - t
<1>1. d \in - n .. n
  OBVIOUS
<1>2. CASE d \in 0 .. n - 1
  BY <1>2, Modulo DEF Count
<1>3. CASE d = n
  <2>1. d \in n .. 2 * n - 1
    BY <1>3
  <2>2. d % n = d - n
    BY <2>1, Modulo
  <2>3. QED
    BY <1>3, <2>2 DEF Count
<1>4. CASE d \in - n .. -1
  <2>1. d % n = d + n
    BY <1>4, Modulo
  <2>3. QED
    BY <1>4, <2>1 DEF Count
<1>5. QED
  BY <1>1, <1>2, <1>3, <1>4

LEMMA PlaceIs ==
  ASSUME NEW n \in Nat, n > 1, NEW i \in 0 .. 2 * n - 1
  PROVE i % n = Place(n, i) /\ Place(n, i) \in 0 .. n - 1
<1>1. CASE i \in 0 .. n - 1
  BY <1>1, Modulo DEF Place
<1>2. CASE i \in n .. 2 * n - 1
  BY <1>2, Modulo DEF Place
<1>3. QED
  BY <1>1, <1>2

LEMMA SeqOfLength ==
  ASSUME NEW S, NEW n \in Nat, NEW f, f \in [1 .. n -> S]
  PROVE  f \in Seq(S) /\ Len(f) = n
<1>1. f \in Seq(S)
  BY SeqDef
<1>2. QED
  BY <1>1, LenProperties

IsRing(S, n, buf, h, t) ==
  n \in Nat /\ n > 1 /\ buf \in [0 .. n - 1 -> S] /\ h \in 0 .. n /\ t \in 0 .. n

RingFacts(S, n, buf, h, t) ==
  /\ RingSeq(buf, n, h, t) \in Seq(S)
  /\ Len(RingSeq(buf, n, h, t)) = Count(n, h, t) /\ Count(n, h, t) \in 0 .. n - 1
  /\ \A k \in 1 .. Count(n, h, t) : RingSeq(buf, n, h, t)[k] = buf[Place(n, t + k - 1)]

LEMMA RingIs ==
  ASSUME NEW S, NEW n, NEW buf, NEW h, NEW t, IsRing(S, n, buf, h, t)
  PROVE  RingFacts(S, n, buf, h, t)
<1> USE DEF IsRing
<1> DEFINE c == Count(n, h, t)
           f == RingSeq(buf, n, h, t)
<1>1. (h - t) % n = c /\ c \in 0 .. n - 1
  BY CountIs
<1> HIDE DEF c
<1>2. f = [k \in 1 .. c |-> buf[(t + k - 1) % n]]
  BY <1>1 DEF RingSeq
<1>3. \A k \in 1 .. c : /\ (t + k - 1) % n = Place(n, t + k - 1)
                        /\ Place(n, t + k - 1) \in 0 .. n - 1
  <2>1. \A k \in 1 .. c : t + k - 1 \in 0 .. 2 * n - 1
    BY <1>1
  <2>2. QED
    BY <2>1, PlaceIs
<1> HIDE DEF f
<1>4. /\ f \in [1 .. c -> S]
      /\ \A k \in 1 .. c : f[k] = buf[Place(n, t + k - 1)]
  BY <1>2, <1>3
<1>5. f \in Seq(S) /\ Len(f) = c
  <2>1. c \in Nat
    BY <1>1
  <2>2. QED
    BY <2>1, <1>4, SeqOfLength
<1>6. QED
  BY <1>1, <1>4, <1>5 DEF c, f, RingFacts

LEMMA Joined ==
  ASSUME NEW S, NEW s \in Seq(S), NEW u \in Seq(S), NEW w \in Seq(S),
         Len(w) = Len(s) + Len(u),
         \A k \in 1 .. Len(s) : w[k] = s[k],
         \A k \in 1 .. Len(u) : w[Len(s) + k] = u[k]
  PROVE  w = s \o u
<1> DEFINE v == s \o u
<1>1. /\ v \in Seq(S) /\ Len(v) = Len(s) + Len(u)
      /\ \A i \in 1 .. Len(s) + Len(u) : v[i] = IF i <= Len(s) THEN s[i] ELSE u[i - Len(s)]
  BY ConcatProperties
<1> HIDE DEF v
<1>2. ASSUME NEW i \in 1 .. Len(w)
      PROVE  w[i] = v[i]
  <2>1. CASE i <= Len(s)
    BY <1>1, <2>1
  <2>2. CASE ~ (i <= Len(s))
    <3>1. i - Len(s) \in 1 .. Len(u) /\ Len(s) + (i - Len(s)) = i
      BY <1>1, <2>2
    <3>2. w[i] = u[i - Len(s)]
      BY <3>1
    <3>3. QED
      BY <1>1, <2>2, <3>2
  <2>3. QED
    BY <2>1, <2>2
<1>3. w = v
  BY <1>1, <1>2, SeqEqual
<1>4. QED
  BY <1>3 DEF v

LEMMA RingTake ==
  ASSUME NEW S, NEW n \in Nat, n > 1, NEW buf \in [0 .. n - 1 -> S],
         NEW h \in 0 .. n, NEW t \in 0 .. n - 1, NEW m \in 1 .. Count(n, h, t), t + m <= n
  PROVE  RingSeq(buf, n, h, t) = [k \in 1 .. m |-> buf[t + k - 1]] \o RingSeq(buf, n, h, t + m)
<1> DEFINE c == Count(n, h, t)
           w == RingSeq(buf, n, h, t)
           s == [k \in 1 .. m |-> buf[t + k - 1]]
           after == t + m
           u == RingSeq(buf, n, h, after)
<1>1. c \in 0 .. n - 1 /\ m \in Nat /\ m <= c /\ after \in 0 .. n
  BY CountIs
<1>2. Count(n, h, after) = c - m
  BY <1>1 DEF Count
<1>3. w \in Seq(S) /\ Len(w) = c /\ \A k \in 1 .. c : w[k] = buf[Place(n, t + k - 1)]
  <2>1. IsRing(S, n, buf, h, t)
    BY <1>1 DEF IsRing
  <2>2. RingFacts(S, n, buf, h, t)
    BY <2>1, RingIs
  <2>3. QED
    BY <2>2 DEF RingFacts
<1>4. /\ u \in Seq(S) /\ Len(u) = c - m
      /\ \A k \in 1 .. c - m : u[k] = buf[Place(n, after + k - 1)]
  <2> HIDE DEF after, c
  <2>1. IsRing(S, n, buf, h, after)
    BY <1>1 DEF IsRing
  <2>2. RingFacts(S, n, buf, h, after)
    BY <2>1, RingIs
  <2>3. QED
    BY <1>2, <2>2 DEF RingFacts
<1>5. s \in Seq(S) /\ Len(s) = m /\ \A k \in 1 .. m : s[k] = buf[t + k - 1]
  <2>1. \A k \in 1 .. m : t + k - 1 \in 0 .. n - 1
    BY <1>1
  <2>2. s \in [1 .. m -> S]
    BY <2>1
  <2> HIDE DEF s
  <2>3. s \in Seq(S) /\ Len(s) = m
    BY <1>1, <2>2, SeqOfLength
  <2>4. QED
    BY <2>3 DEF s
<1> HIDE DEF c, w, s, u
<1>6. \A k \in 1 .. Len(s) : w[k] = s[k]
  <2>1. \A k \in 1 .. m : k \in 1 .. c /\ Place(n, t + k - 1) = t + k - 1
    BY <1>1 DEF Place
  <2>2. QED
    BY <1>3, <1>5, <2>1
<1>7. \A k \in 1 .. Len(u) : w[Len(s) + k] = u[k]
  <2>1. \A k \in 1 .. c - m : m + k \in 1 .. c /\ t + (m + k) - 1 = after + k - 1
    BY <1>1
  <2>2. QED
    <3>1. ASSUME NEW k \in 1 .. c - m
          PROVE  w[m + k] = u[k]
      <4>1. w[m + k] = buf[Place(n, t + (m + k) - 1)]
        BY <1>3, <2>1
      <4>2. u[k] = buf[Place(n, after + k - 1)]
        BY <1>4
      <4>3. QED
        BY <2>1, <4>1, <4>2
    <3>2. QED
      BY <1>4, <1>5, <3>1
<1>8. w = s \o u
  <2>1. Len(w) = Len(s) + Len(u)
    BY <1>1, <1>3, <1>4, <1>5
  <2>2. QED
    BY <1>3, <1>4, <1>5, <1>6, <1>7, <2>1, Joined
<1>9. QED
  BY <1>8 DEF w, s, u, after

LEMMA SeqOfOne ==
  ASSUME NEW S, NEW b \in S
  PROVE  <<b>> \in Seq(S) /\ Len(<<b>>) = 1 /\ <<b>>[1] = b
OBVIOUS

LEMMA RingPut ==
  ASSUME NEW S, NEW n \in Nat, n > 1, NEW buf \in [0 .. n - 1 -> S],
         NEW h \in 0 .. n - 1, NEW t \in 0 .. n, Count(n, h, t) < n - 1
  PROVE  RingSeq(buf, n, h + 1, t) = RingSeq(buf, n, h, t) \o <<buf[h]>>
<1> DEFINE c == Count(n, h, t)
           after == h + 1
           w == RingSeq(buf, n, after, t)
           s == RingSeq(buf, n, h, t)
           u == <<buf[h]>>
<1>1. c \in 0 .. n - 1 /\ c < n - 1 /\ h \in 0 .. n /\ after \in 0 .. n
  BY CountIs
<1>2. Count(n, after, t) = c + 1
  BY <1>1 DEF Count
<1>3. w \in Seq(S) /\ Len(w) = c + 1 /\ \A k \in 1 .. c + 1 : w[k] = buf[Place(n, t + k - 1)]
  <2> HIDE DEF after, c
  <2>1. IsRing(S, n, buf, after, t)
    BY <1>1 DEF IsRing
  <2>2. RingFacts(S, n, buf, after, t)
    BY <2>1, RingIs
  <2>3. QED
    BY <1>2, <2>2 DEF RingFacts
<1>4. s \in Seq(S) /\ Len(s) = c /\ \A k \in 1 .. c : s[k] = buf[Place(n, t + k - 1)]
  <2>1. IsRing(S, n, buf, h, t)
    BY <1>1 DEF IsRing
  <2>2. RingFacts(S, n, buf, h, t)
    BY <2>1, RingIs
  <2>3. QED
    BY <2>2 DEF RingFacts
<1>5. u \in Seq(S) /\ Len(u) = 1 /\ u[1] = buf[h]
  BY SeqOfOne
<1>6. Place(n, t + (c + 1) - 1) = h
  BY <1>1 DEF Place, Count
<1> HIDE DEF c, w, s, u
<1>7. \A k \in 1 .. Len(s) : w[k] = s[k]
  BY <1>1, <1>3, <1>4
<1>8. \A k \in 1 .. Len(u) : w[Len(s) + k] = u[k]
  <2>1. w[c + 1] = buf[h]
    BY <1>1, <1>3, <1>6
  <2>2. QED
    BY <1>4, <1>5, <2>1
<1>9. w = s \o u
  BY <1>1, <1>3, <1>4, <1>5, <1>7, <1>8, Joined
<1>10. QED
  BY <1>9 DEF w, s, u, after

With(buf, h, x) == [buf EXCEPT ![h] = x]

LEMMA RingSame ==
  ASSUME NEW S, NEW n \in Nat, n > 1, NEW buf \in [0 .. n - 1 -> S], NEW x \in S,
         NEW h \in 0 .. n - 1, NEW t \in 0 .. n, NEW new, new = With(buf, h, x)
  PROVE  RingSeq(new, n, h, t) = RingSeq(buf, n, h, t)
<1> DEFINE c == Count(n, h, t)
           w == RingSeq(new, n, h, t)
           s == RingSeq(buf, n, h, t)
<1>1. c \in 0 .. n - 1 /\ h \in 0 .. n
  BY CountIs
<1>2. new \in [0 .. n - 1 -> S] /\ \A i \in 0 .. n - 1 : i # h => new[i] = buf[i]
  BY DEF With
<1>3. w \in Seq(S) /\ Len(w) = c /\ \A k \in 1 .. c : w[k] = new[Place(n, t + k - 1)]
  <2>1. IsRing(S, n, new, h, t)
    BY <1>1, <1>2 DEF IsRing
  <2>2. RingFacts(S, n, new, h, t)
    BY <2>1, RingIs
  <2>3. QED
    BY <2>2 DEF RingFacts
<1>4. s \in Seq(S) /\ Len(s) = c /\ \A k \in 1 .. c : s[k] = buf[Place(n, t + k - 1)]
  <2>1. IsRing(S, n, buf, h, t)
    BY <1>1 DEF IsRing
  <2>2. RingFacts(S, n, buf, h, t)
    BY <2>1, RingIs
  <2>3. QED
    BY <2>2 DEF RingFacts
<1>5. \A k \in 1 .. c : Place(n, t + k - 1) \in 0 .. n - 1 /\ Place(n, t + k - 1) # h
  BY <1>1 DEF Place, Count
<1> HIDE DEF c, w, s
<1>6. w = s
  BY <1>2, <1>3, <1>4, <1>5, SeqEqual
<1>7. QED
  BY <1>6 DEF w, s

LEMMA RingWraps ==
  ASSUME NEW buf, NEW n \in Nat, n > 1, NEW i \in 0 .. n
  PROVE  /\ RingSeq(buf, n, n, i) = RingSeq(buf, n, 0, i)
         /\ RingSeq(buf, n, i, n) = RingSeq(buf, n, i, 0)
<1>1. /\ (n - i) % n = (0 - i) % n
      /\ (i - n) % n = (i - 0) % n
  BY CountIs DEF Count
<1>2. \A k \in 1 .. (i - n) % n : (n + k - 1) % n = (0 + k - 1) % n
  <2>1. (i - n) % n \in 0 .. n - 1
    BY CountIs
  <2>2. ASSUME NEW k \in 1 .. n - 1
        PROVE  (n + k - 1) % n = (0 + k - 1) % n
    <3>1. n + k - 1 \in n .. 2 * n - 1 /\ 0 + k - 1 \in 0 .. n - 1
      OBVIOUS
    <3>2. (n + k - 1) % n = n + k - 1 - n
      BY <3>1, Modulo
    <3>3. (0 + k - 1) % n = 0 + k - 1
      BY <3>1, Modulo
    <3>4. n + k - 1 - n = 0 + k - 1
      OBVIOUS
    <3>5. QED
      BY <3>2, <3>3, <3>4
  <2>3. QED
    BY <2>1, <2>2
<1>3. QED
  BY <1>1, <1>2 DEF RingSeq

LEMMA RingAfter ==
  ASSUME NEW n \in Nat, n > 1, NEW buf, NEW h \in 0 .. n - 1, NEW t \in 0 .. n - 1
  PROVE  /\ RingSeq(buf, n, Place(n, h + 1), t) = RingSeq(buf, n, h + 1, t)
         /\ RingSeq(buf, n, h, Place(n, t + 1)) = RingSeq(buf, n, h, t + 1)
<1>1. RingSeq(buf, n, Place(n, h + 1), t) = RingSeq(buf, n, h + 1, t)
  <2>1. CASE h + 1 = n
    <3>1. t \in 0 .. n /\ Place(n, h + 1) = 0
      BY <2>1 DEF Place
    <3>2. QED
      BY <2>1, <3>1, RingWraps
  <2>2. CASE h + 1 # n
    <3>1. Place(n, h + 1) = h + 1
      BY <2>2 DEF Place
    <3>2. QED
      BY <3>1
  <2>3. QED
    BY <2>1, <2>2
<1>2. RingSeq(buf, n, h, Place(n, t + 1)) = RingSeq(buf, n, h, t + 1)
  <2>1. CASE t + 1 = n
    <3>1. h \in 0 .. n /\ Place(n, t + 1) = 0
      BY <2>1 DEF Place
    <3>2. QED
      BY <2>1, <3>1, RingWraps
  <2>2. CASE t + 1 # n
    <3>1. Place(n, t + 1) = t + 1
      BY <2>2 DEF Place
    <3>2. QED
      BY <3>1
  <2>3. QED
    BY <2>1, <2>2
<1>3. QED
  BY <1>1, <1>2

LEMMA RingPush ==
  ASSUME NEW S, NEW n \in Nat, n > 1, NEW buf \in [0 .. n - 1 -> S],
         NEW h \in 0 .. n - 1, NEW t \in 0 .. n - 1, Place(n, h + 1) # t
  PROVE  /\ Count(n, h, t) < n - 1
         /\ RingSeq(buf, n, Place(n, h + 1), t) = RingSeq(buf, n, h, t) \o <<buf[h]>>
<1>1. Count(n, h, t) < n - 1
  BY DEF Place, Count
<1>2. t \in 0 .. n
  OBVIOUS
<1>3. RingSeq(buf, n, h + 1, t) = RingSeq(buf, n, h, t) \o <<buf[h]>>
  BY <1>1, <1>2, RingPut
<1>4. RingSeq(buf, n, Place(n, h + 1), t) = RingSeq(buf, n, h + 1, t)
  BY RingAfter
<1>5. QED
  BY <1>1, <1>3, <1>4

LEMMA RingPop ==
  ASSUME NEW S, NEW n \in Nat, n > 1, NEW buf \in [0 .. n - 1 -> S],
         NEW h \in 0 .. n - 1, NEW t \in 0 .. n - 1, h # t
  PROVE  RingSeq(buf, n, h, t) = <<buf[t]>> \o RingSeq(buf, n, h, Place(n, t + 1))
<1>1. 1 \in 1 .. Count(n, h, t) /\ t + 1 <= n /\ h \in 0 .. n
  BY DEF Count
<1>2. RingSeq(buf, n, h, t) = [k \in 1 .. 1 |-> buf[t + k - 1]] \o RingSeq(buf, n, h, t + 1)
  BY <1>1, RingTake
<1>3. [k \in 1 .. 1 |-> buf[t + k - 1]] = <<buf[t]>>
  <2>1. [k \in 1 .. 1 |-> buf[t + k - 1]] = [k \in 1 .. 1 |-> buf[t]]
    BY \A k \in 1 .. 1 : t + k - 1 = t
  <2>2. QED
    BY <2>1
<1>4. RingSeq(buf, n, h, Place(n, t + 1)) = RingSeq(buf, n, h, t + 1)
  BY RingAfter
<1>5. QED
  BY <1>2, <1>3, <1>4

LEMMA FirstOut ==
  ASSUME NEW S, NEW s \in Seq(S), NEW u \in Seq(S), s # <<>>
  PROVE  /\ Len(s) \in 1 .. Len(s \o u)
         /\ SubSeq(s \o u, 1, Len(s)) = s
         /\ SubSeq(s \o u, Len(s) + 1, Len(s \o u)) = u
<1> DEFINE q == s \o u
<1>1. Len(s) \in Nat \ {0} /\ Len(u) \in Nat /\ Len(q) = Len(s) + Len(u)
  BY EmptySeq, ConcatProperties, LenProperties
<1>2. SubSeq(q, 1, Len(s)) = s
  <2>1. 1 \in 1 .. Len(s) /\ Len(s) \in 1 .. Len(s)
    BY <1>1
  <2>2. SubSeq(q, 1, Len(s)) = SubSeq(s, 1, Len(s))
    BY <2>1, SubSeqOfConcat1
  <2>3. QED
    BY <2>2, SubSeqFull
<1>3. SubSeq(q, Len(s) + 1, Len(q)) = u
  <2>1. CASE u = <<>>
    <3>1. Len(q) < Len(s) + 1
      BY <1>1, <2>1
    <3> HIDE DEF q
    <3>2. QED
      BY <1>1, <2>1, <3>1, SubSeqEmpty
  <2>2. CASE u # <<>>
    <3>1. Len(u) >= 1
      BY <1>1, <2>2, EmptySeq
    <3> DEFINE a == Len(s) + 1
               b == Len(s) + Len(u)
    <3>2. a \in Len(s) + 1 .. Len(s) + Len(u) /\ b \in Len(s) + 1 .. Len(s) + Len(u)
      BY <1>1, <3>1
    <3>3. SubSeq(q, a, b) = SubSeq(u, a - Len(s), b - Len(s))
      BY <3>2, SubSeqOfConcat2
    <3>4. a - Len(s) = 1 /\ b - Len(s) = Len(u)
      BY <1>1
    <3>5. SubSeq(u, 1, Len(u)) = u
      BY SubSeqFull
    <3>6. QED
      BY <1>1, <3>3, <3>4, <3>5
  <2>3. QED
    BY <2>1, <2>2
<1>4. QED
  BY <1>1, <1>2, <1>3

(***************************************************************************)
(* UsartSerial                                                             *)
(***************************************************************************)

OutBytes == 0 .. Usart!OutCircle - 1
InBytes  == 0 .. Usart!InCircle - 1

\* A register is empty or holds a byte.
CellOf(B) == {<<>>} \cup {<<b>> : b \in B}

\* The interrupt stays enabled as long as there is something to send while a byte is read;
\* from the check to the new head the slot at the head is free, and holds the byte.
WriterInv ==
  /\ dr \in CellOf(OutBytes) /\ shifted \in CellOf(OutBytes)
  /\ rdr \in CellOf(InBytes) /\ taken \in CellOf(InBytes)
  /\ writer = "read" /\ txHead # txTail => txEnabled
  /\ writer = "head" =>
       tx[txHead] = written /\ Place(SerialBufferSize, txHead + 1) # txTail
  /\ writer = "read" => rxHead # rxTail

UsartInv == Usart!TypeOK /\ WriterInv

LEMMA UsartAfter ==
  \A i \in 0 .. SerialBufferSize - 1 :
    /\ Usart!After(i) = Place(SerialBufferSize, i + 1)
    /\ Usart!After(i) \in 0 .. SerialBufferSize - 1 /\ Usart!After(i) # i
<1>1. ASSUME NEW i \in 0 .. SerialBufferSize - 1
      PROVE  /\ (i + 1) % SerialBufferSize = Place(SerialBufferSize, i + 1)
             /\ Place(SerialBufferSize, i + 1) \in 0 .. SerialBufferSize - 1
             /\ Place(SerialBufferSize, i + 1) # i
  <2>1. i + 1 \in 0 .. 2 * SerialBufferSize - 1
    BY UsartAssumption
  <2>2. /\ (i + 1) % SerialBufferSize = Place(SerialBufferSize, i + 1)
        /\ Place(SerialBufferSize, i + 1) \in 0 .. SerialBufferSize - 1
    BY <2>1, UsartAssumption, PlaceIs
  <2>3. Place(SerialBufferSize, i + 1) # i
    BY UsartAssumption DEF Place
  <2>4. QED
    BY <2>2, <2>3
<1>2. QED
  BY <1>1 DEF Usart!After

\* The numbers of the bytes, as TypeOK has them.
LEMMA CellType ==
  ASSUME NEW r, r \in CellOf(OutBytes) \/ r \in CellOf(InBytes)
  PROVE  r = <<>> \/ r[1] \in 0 .. Usart!OutCircle - 1
<1>1. InBytes \subseteq OutBytes
  BY UsartAssumption DEF InBytes, OutBytes, Usart!InCircle, Usart!OutCircle
<1>2. PICK b \in OutBytes : r = <<>> \/ r = <<b>>
  <2>1. CASE r \in CellOf(OutBytes)
    <3>1. 0 \in OutBytes
      BY UsartAssumption DEF OutBytes, Usart!OutCircle
    <3>2. QED
      BY <2>1, <3>1 DEF CellOf
  <2>2. CASE r \in CellOf(InBytes)
    <3>1. 0 \in OutBytes
      BY UsartAssumption DEF OutBytes, Usart!OutCircle
    <3>2. QED
      BY <1>1, <2>2, <3>1 DEF CellOf
  <2>3. QED
    BY <2>1, <2>2
<1>3. QED
  BY <1>2 DEF OutBytes

UsartTypes ==
  /\ writer \in {"idle", "wait", "head", "enable", "read"}
  /\ level \in {"thread", "handler", "masked"}
  /\ tx \in [0 .. SerialBufferSize - 1 -> OutBytes]
  /\ rx \in [0 .. SerialBufferSize - 1 -> InBytes]
  /\ txHead \in 0 .. SerialBufferSize - 1 /\ txTail \in 0 .. SerialBufferSize - 1
  /\ rxHead \in 0 .. SerialBufferSize - 1 /\ rxTail \in 0 .. SerialBufferSize - 1
  /\ txEnabled \in BOOLEAN /\ written \in OutBytes /\ arrived \in InBytes

SendsOn == writer = "idle" /\ txHead # txTail => txEnabled

LEMMA UsartParts == UsartInv <=> UsartTypes /\ SendsOn /\ WriterInv
<1>1. UsartInv => UsartTypes /\ SendsOn /\ WriterInv
  BY DEF UsartInv, Usart!TypeOK, UsartTypes, SendsOn, OutBytes, InBytes
<1>2. ASSUME UsartTypes, SendsOn, WriterInv
      PROVE  UsartInv
  <2>1. \A r \in {dr, shifted, rdr, taken} : r = <<>> \/ r[1] \in 0 .. Usart!OutCircle - 1
    BY <1>2, CellType DEF WriterInv
  <2>2. QED
    BY <1>2, <2>1 DEF UsartInv, Usart!TypeOK, UsartTypes, SendsOn, OutBytes, InBytes
<1>3. QED
  BY <1>1, <1>2

LEMMA UsartPartsNext == UsartInv' <=> (UsartTypes /\ SendsOn /\ WriterInv)'
BY UsartParts, PTL

LEMMA UsartInit == Usart!Init => UsartInv
<1> SUFFICES ASSUME Usart!Init PROVE UsartInv
  OBVIOUS
<1>1. 0 \in OutBytes /\ 0 \in InBytes /\ 0 \in 0 .. SerialBufferSize - 1
  BY UsartAssumption DEF OutBytes, InBytes, Usart!OutCircle, Usart!InCircle
<1>2. txEnabled \in BOOLEAN
  BY Zenon DEF Usart!Init
<1>3. UsartTypes
  BY <1>1, <1>2 DEF UsartTypes, Usart!Init
<1>4. SendsOn /\ WriterInv
  BY DEF SendsOn, WriterInv, Usart!Init, CellOf
<1>5. QED
  BY <1>3, <1>4, UsartParts

LEMMA CellFull == ASSUME NEW B, NEW b \in B PROVE <<b>> \in CellOf(B) /\ <<b>> # <<>>
BY DEF CellOf

LEMMA CellHolds ==
  ASSUME NEW B, NEW r \in CellOf(B), r # <<>>
  PROVE  r[1] \in B /\ r = <<r[1]>>
BY DEF CellOf

LEMMA CellEmpty == ASSUME NEW B PROVE <<>> \in CellOf(B)
BY DEF CellOf

\* What the interrupt, or the loop in write, takes from the transmit buffer.
LEMMA UsartSendType ==
  ASSUME UsartInv, txHead # txTail, dr' = <<tx[txTail]>>, txTail' = Usart!After(txTail)
  PROVE  /\ dr' \in CellOf(OutBytes) /\ txTail' \in 0 .. SerialBufferSize - 1
         /\ Place(SerialBufferSize, txHead + 1) # txTail =>
              Place(SerialBufferSize, txHead + 1) # txTail'
<1>1. UsartTypes
  BY UsartParts
<1>2. tx[txTail] \in OutBytes
  BY <1>1 DEF UsartTypes
<1>3. /\ txTail' = Place(SerialBufferSize, txTail + 1)
      /\ txTail' \in 0 .. SerialBufferSize - 1
  BY <1>1, UsartAfter DEF UsartTypes
<1>4. Place(SerialBufferSize, txHead + 1) # Place(SerialBufferSize, txTail + 1)
  BY <1>1, UsartAssumption DEF UsartTypes, Place
<1>5. QED
  BY <1>2, <1>3, <1>4, CellFull

LEMMA UsartInterrupt == UsartInv /\ Usart!Interrupt => UsartInv'
<1> SUFFICES ASSUME UsartInv, Usart!Interrupt PROVE UsartInv'
  OBVIOUS
<1>1. UsartTypes /\ SendsOn /\ WriterInv
  BY UsartParts
<1>2. UNCHANGED <<writer, level, tx, txHead, shifted, rxTail, taken, written, arrived>>
  BY DEF Usart!Interrupt
<1>3. /\ rx' \in [0 .. SerialBufferSize - 1 -> InBytes]
      /\ rxHead' \in 0 .. SerialBufferSize - 1
      /\ rxHead # rxTail => rxHead' # rxTail
  <2>1. CASE rdr = <<>> \/ Usart!After(rxHead) = rxTail
    BY <1>1, <2>1 DEF Usart!Interrupt, Usart!StoreChar, UsartTypes
  <2>2. CASE rdr # <<>> /\ Usart!After(rxHead) # rxTail
    <3>1. rx' = [rx EXCEPT ![rxHead] = rdr[1]] /\ rxHead' = Usart!After(rxHead)
      BY <2>2 DEF Usart!Interrupt, Usart!StoreChar
    <3>2. rdr[1] \in InBytes
      BY <1>1, <2>2, CellHolds DEF WriterInv
    <3>3. QED
      BY <1>1, <2>2, <3>1, <3>2, UsartAfter DEF UsartTypes
  <2>3. QED
    BY <2>1, <2>2
<1>4. rdr' \in CellOf(InBytes)
  BY CellEmpty DEF Usart!Interrupt
<1>5. /\ dr' \in CellOf(OutBytes) /\ txTail' \in 0 .. SerialBufferSize - 1
      /\ txEnabled' \in BOOLEAN /\ (txEnabled => txEnabled' \/ txHead = txTail)
      /\ txHead' # txTail' => txHead # txTail
      /\ Place(SerialBufferSize, txHead + 1) # txTail =>
           Place(SerialBufferSize, txHead + 1) # txTail'
  <2>1. CASE ~ Usart!TxPending
    BY <1>1, <2>1 DEF Usart!Interrupt, UsartTypes, WriterInv
  <2>2. CASE Usart!TxPending /\ txHead = txTail
    <3>1. txEnabled' = FALSE /\ UNCHANGED <<dr, txTail>>
      BY <2>2 DEF Usart!Interrupt
    <3>2. txEnabled' \in BOOLEAN
      BY <3>1, Zenon
    <3>3. QED
      BY <1>1, <1>2, <2>2, <3>1, <3>2 DEF UsartTypes, WriterInv
  <2>3. CASE Usart!TxPending /\ txHead # txTail
    <3>1. dr' = <<tx[txTail]>> /\ txTail' = Usart!After(txTail) /\ UNCHANGED txEnabled
      BY <2>3 DEF Usart!Interrupt
    <3>2. QED
      BY <1>1, <2>3, <3>1, UsartSendType DEF UsartTypes
  <2>4. QED
    BY <2>1, <2>2, <2>3
<1>6. UsartTypes'
  BY <1>1, <1>2, <1>3, <1>5 DEF UsartTypes
<1>7. SendsOn'
  BY <1>1, <1>2, <1>5 DEF SendsOn
<1>8. WriterInv'
  <2>1. writer' = "read" /\ txHead' # txTail' => txEnabled'
    BY <1>1, <1>2, <1>5 DEF WriterInv
  <2>2. writer' = "head" =>
          tx'[txHead'] = written' /\ Place(SerialBufferSize, txHead' + 1) # txTail'
    BY <1>1, <1>2, <1>5 DEF WriterInv
  <2>3. writer' = "read" => rxHead' # rxTail'
    BY <1>1, <1>2, <1>3 DEF WriterInv
  <2>4. shifted' \in CellOf(OutBytes) /\ taken' \in CellOf(InBytes)
    BY <1>1, <1>2 DEF WriterInv
  <2>5. QED
    BY <1>4, <1>5, <2>1, <2>2, <2>3, <2>4 DEF WriterInv
<1>9. QED
  BY <1>6, <1>7, <1>8, UsartPartsNext

LEMMA UsartStep == UsartInv /\ Usart!Next => UsartInv'
<1> SUFFICES ASSUME UsartInv, Usart!Next PROVE UsartInv'
  OBVIOUS
<1> USE DEF Usart!sending, Usart!receiving
<1>1. UsartTypes /\ SendsOn /\ WriterInv
  BY UsartParts
<1>2. SUFFICES UsartTypes' /\ SendsOn' /\ WriterInv'
  BY UsartPartsNext
<1>3. CASE Usart!Interrupt
  <2>1. UsartInv'
    BY <1>3, UsartInterrupt
  <2>2. QED
    BY <2>1, UsartPartsNext
<1>4. CASE Usart!Write
  <2>1. txEnabled' \in BOOLEAN
    BY <1>4, Zenon DEF Usart!Write
  <2>2. QED
    BY <1>1, <1>4, <2>1 DEF Usart!Write, UsartTypes, SendsOn, WriterInv
<1>5. CASE Usart!SendByPolling
  <2>1. /\ dr' = <<tx[txTail]>> /\ txTail' = Usart!After(txTail) /\ writer' = "wait"
        /\ UNCHANGED <<level, tx, txHead, txEnabled, written, shifted, rx, rxHead, rxTail,
                       rdr, arrived, taken>>
    BY <1>5 DEF Usart!SendByPolling
  <2>2. txHead # txTail
    BY <1>1, <1>5, UsartAfter DEF Usart!SendByPolling, Usart!MustWait, UsartTypes
  <2>3. dr' \in CellOf(OutBytes) /\ txTail' \in 0 .. SerialBufferSize - 1
    BY <2>1, <2>2, UsartSendType
  <2>4. QED
    BY <1>1, <2>1, <2>3 DEF UsartTypes, SendsOn, WriterInv
<1>6. CASE Usart!Fill
  <2>1. /\ tx' = [tx EXCEPT ![txHead] = written] /\ writer' = "head"
        /\ UNCHANGED <<level, txHead, txTail, txEnabled, dr, written, shifted, rx, rxHead,
                       rxTail, rdr, arrived, taken>>
    BY <1>6 DEF Usart!Fill
  <2>2. Place(SerialBufferSize, txHead + 1) # txTail
    BY <1>1, <1>6, UsartAfter DEF Usart!Fill, Usart!MustWait, UsartTypes
  <2>3. tx' \in [0 .. SerialBufferSize - 1 -> OutBytes] /\ tx'[txHead] = written
    BY <1>1, <2>1 DEF UsartTypes
  <2>4. QED
    BY <1>1, <2>1, <2>2, <2>3 DEF UsartTypes, SendsOn, WriterInv
<1>7. CASE Usart!SetHead
  <2>1. /\ txHead' = Usart!After(txHead) /\ written' = (written + 1) % Usart!OutCircle
        /\ writer' = "enable"
        /\ UNCHANGED <<level, tx, txTail, txEnabled, dr, shifted, rx, rxHead, rxTail, rdr,
                       arrived, taken>>
    BY <1>7 DEF Usart!SetHead
  <2>2. txHead' \in 0 .. SerialBufferSize - 1
    BY <1>1, <2>1, UsartAfter DEF UsartTypes
  <2>3. written' \in OutBytes
    BY <1>1, <2>1, UsartAssumption DEF UsartTypes, OutBytes, Usart!OutCircle
  <2>4. QED
    BY <1>1, <2>1, <2>2, <2>3 DEF UsartTypes, SendsOn, WriterInv
<1>8. CASE Usart!Enable
  <2>1. txEnabled' \in BOOLEAN
    BY <1>8, Zenon DEF Usart!Enable
  <2>2. QED
    BY <1>1, <1>8, <2>1 DEF Usart!Enable, UsartTypes, SendsOn, WriterInv
<1>9. CASE Usart!Read
  BY <1>1, <1>9 DEF Usart!Read, UsartTypes, SendsOn, WriterInv
<1>10. CASE Usart!ReadDone
  <2>1. rx[rxTail] \in InBytes /\ rxTail' \in 0 .. SerialBufferSize - 1
    BY <1>1, <1>10, UsartAfter DEF Usart!ReadDone, UsartTypes
  <2>2. taken' \in CellOf(InBytes)
    BY <1>10, <2>1, CellFull DEF Usart!ReadDone
  <2>3. QED
    BY <1>1, <1>10, <2>1, <2>2 DEF Usart!ReadDone, UsartTypes, SendsOn, WriterInv
<1>11. CASE Usart!Shift
  BY <1>1, <1>11, CellEmpty DEF Usart!Shift, UsartTypes, SendsOn, WriterInv
<1>12. CASE Usart!Arrive
  <2>1. arrived' \in InBytes
    BY <1>1, <1>12, UsartAssumption DEF Usart!Arrive, UsartTypes, InBytes, Usart!InCircle
  <2>2. rdr' \in CellOf(InBytes)
    BY <1>1, <1>12, CellFull DEF Usart!Arrive, UsartTypes
  <2>3. QED
    BY <1>1, <1>12, <2>1, <2>2 DEF Usart!Arrive, UsartTypes, SendsOn, WriterInv
<1>13. QED
  BY <1>3, <1>4, <1>5, <1>6, <1>7, <1>8, <1>9, <1>10, <1>11, <1>12 DEF Usart!Next

\* The two directions as sequences.
TxQ == dr \o RingSeq(tx, SerialBufferSize, txHead, txTail)
RxQ == RingSeq(rx, SerialBufferSize, rxHead, rxTail) \o rdr

LEMMA CellSeq ==
  ASSUME NEW B, NEW r \in CellOf(B)
  PROVE  r \in Seq(B) /\ Len(r) \in 0 .. 1 /\ (r # <<>> => Len(r) = 1)
<1>1. CASE r = <<>>
  BY <1>1
<1>2. CASE r # <<>>
  <2>1. PICK b \in B : r = <<b>>
    BY <1>2 DEF CellOf
  <2>2. QED
    BY <1>2, <2>1, SeqOfOne
<1>3. QED
  BY <1>1, <1>2

LEMMA TxQFacts ==
  ASSUME UsartInv
  PROVE  /\ TxQ \in Seq(OutBytes)
         /\ Len(TxQ) = Len(dr) + Count(SerialBufferSize, txHead, txTail)
         /\ RingSeq(tx, SerialBufferSize, txHead, txTail) \in Seq(OutBytes)
<1>1. UsartTypes /\ WriterInv
  BY UsartParts
<1>2. IsRing(OutBytes, SerialBufferSize, tx, txHead, txTail)
  BY <1>1, UsartAssumption DEF UsartTypes, IsRing
<1>3. RingFacts(OutBytes, SerialBufferSize, tx, txHead, txTail)
  BY <1>2, RingIs
<1>4. dr \in Seq(OutBytes)
  BY <1>1, CellSeq DEF WriterInv
<1>5. QED
  BY <1>3, <1>4, ConcatProperties DEF RingFacts, TxQ

LEMMA RxQFacts ==
  ASSUME UsartInv
  PROVE  /\ RxQ \in Seq(InBytes)
         /\ Len(RxQ) = Count(SerialBufferSize, rxHead, rxTail) + Len(rdr)
         /\ RingSeq(rx, SerialBufferSize, rxHead, rxTail) \in Seq(InBytes)
<1>1. UsartTypes /\ WriterInv
  BY UsartParts
<1>2. IsRing(InBytes, SerialBufferSize, rx, rxHead, rxTail)
  BY <1>1, UsartAssumption DEF UsartTypes, IsRing
<1>3. RingFacts(InBytes, SerialBufferSize, rx, rxHead, rxTail)
  BY <1>2, RingIs
<1>4. rdr \in Seq(InBytes)
  BY <1>1, CellSeq DEF WriterInv
<1>5. QED
  BY <1>3, <1>4, ConcatProperties DEF RingFacts, RxQ

\* The oldest byte goes from the transmit buffer to the register: nothing seen outside.
LEMMA TxMoves ==
  ASSUME UsartInv, dr = <<>>, txHead # txTail, dr' = <<tx[txTail]>>,
         txTail' = Usart!After(txTail), UNCHANGED <<tx, txHead>>
  PROVE  TxQ' = TxQ
<1>1. UsartTypes
  BY UsartParts
<1>2. txTail' = Place(SerialBufferSize, txTail + 1)
  BY <1>1, UsartAfter DEF UsartTypes
<1>3. RingSeq(tx, SerialBufferSize, txHead, txTail) =
        <<tx[txTail]>> \o RingSeq(tx, SerialBufferSize, txHead, Place(SerialBufferSize, txTail + 1))
  BY <1>1, UsartAssumption, RingPop DEF UsartTypes
<1>4. TxQ = RingSeq(tx, SerialBufferSize, txHead, txTail)
  <2>1. RingSeq(tx, SerialBufferSize, txHead, txTail) \in Seq(OutBytes)
    BY TxQFacts
  <2>2. QED
    BY <2>1, ConcatEmptySeq DEF TxQ
<1>5. QED
  BY <1>2, <1>3, <1>4 DEF TxQ

LEMMA TxStep ==
  ASSUME UsartInv, Usart!Next
  PROVE  \/ TxQ' = TxQ /\ UNCHANGED <<written, shifted>>
         \/ /\ TxQ' = TxQ \o <<written>> /\ Len(TxQ) < SerialBufferSize
            /\ written' = (written + 1) % Usart!OutCircle /\ UNCHANGED shifted
         \/ /\ TxQ = shifted' \o TxQ' /\ shifted' # <<>>
            /\ shifted' \in Seq(OutBytes) /\ TxQ' \in Seq(OutBytes) /\ UNCHANGED written
<1> USE DEF Usart!sending, Usart!receiving
<1>1. UsartTypes /\ WriterInv
  BY UsartParts
<1>2. CASE Usart!Interrupt
  <2>1. UNCHANGED <<tx, txHead, written, shifted>>
    BY <1>2 DEF Usart!Interrupt
  <2>2. CASE UNCHANGED <<dr, txTail>>
    BY <2>1, <2>2 DEF TxQ
  <2>3. CASE ~ UNCHANGED <<dr, txTail>>
    <3>1. /\ Usart!TxPending /\ txHead # txTail
          /\ dr' = <<tx[txTail]>> /\ txTail' = Usart!After(txTail)
      BY <1>2, <2>3 DEF Usart!Interrupt
    <3>2. dr = <<>>
      BY <3>1 DEF Usart!TxPending
    <3>3. TxQ' = TxQ
      BY <2>1, <3>1, <3>2, TxMoves
    <3>4. QED
      BY <2>1, <3>3
  <2>4. QED
    BY <2>2, <2>3
<1>3. CASE Usart!SendByPolling
  <2>1. /\ dr' = <<tx[txTail]>> /\ txTail' = Usart!After(txTail)
        /\ UNCHANGED <<tx, txHead, written, shifted>>
    BY <1>3 DEF Usart!SendByPolling
  <2>2. txHead # txTail /\ dr = <<>>
    BY <1>1, <1>3, UsartAfter
    DEF Usart!SendByPolling, Usart!MustWait, Usart!TxPending, UsartTypes
  <2>3. TxQ' = TxQ
    BY <2>1, <2>2, TxMoves
  <2>4. QED
    BY <2>1, <2>3
<1>4. CASE Usart!Fill
  <2>1. /\ tx' = [tx EXCEPT ![txHead] = written]
        /\ UNCHANGED <<txHead, txTail, dr, written, shifted>>
    BY <1>4 DEF Usart!Fill
  <2>2. txTail \in 0 .. SerialBufferSize
    BY <1>1, UsartAssumption DEF UsartTypes
  <2>3. RingSeq(tx', SerialBufferSize, txHead, txTail) =
          RingSeq(tx, SerialBufferSize, txHead, txTail)
    <3>1. tx' = With(tx, txHead, written)
      BY <2>1 DEF With
    <3> HIDE <2>1
    <3>2. QED
      BY <1>1, <2>2, <3>1, UsartAssumption, RingSame DEF UsartTypes
  <2>4. TxQ' = TxQ
    BY <2>1, <2>3 DEF TxQ
  <2>5. QED
    BY <2>1, <2>4
<1>5. CASE Usart!SetHead
  <2>1. /\ txHead' = Usart!After(txHead) /\ written' = (written + 1) % Usart!OutCircle
        /\ UNCHANGED <<tx, txTail, dr, shifted>>
    BY <1>5 DEF Usart!SetHead
  <2>2. /\ txHead' = Place(SerialBufferSize, txHead + 1) /\ tx[txHead] = written
        /\ Place(SerialBufferSize, txHead + 1) # txTail
    BY <1>1, <1>5, <2>1, UsartAfter DEF UsartTypes, WriterInv, Usart!SetHead
  <2> DEFINE s == RingSeq(tx, SerialBufferSize, txHead, txTail)
  <2>3. /\ Count(SerialBufferSize, txHead, txTail) < SerialBufferSize - 1
        /\ RingSeq(tx, SerialBufferSize, Place(SerialBufferSize, txHead + 1), txTail) =
             s \o <<tx[txHead]>>
    BY <1>1, <2>2, UsartAssumption, RingPush DEF UsartTypes
  <2>4. TxQ' = dr \o (s \o <<written>>)
    BY <2>1, <2>2, <2>3 DEF TxQ
  <2>5. /\ s \in Seq(OutBytes) /\ dr \in Seq(OutBytes) /\ <<written>> \in Seq(OutBytes)
        /\ Len(dr) \in 0 .. 1
    BY <1>1, TxQFacts, CellSeq, SeqOfOne DEF UsartTypes, WriterInv
  <2>6. dr \o (s \o <<written>>) = (dr \o s) \o <<written>>
    BY <2>5, ConcatAssociative
  <2>7. Len(TxQ) < SerialBufferSize
    <3>1. Count(SerialBufferSize, txHead, txTail) \in Int
      BY <1>1, UsartAssumption DEF UsartTypes, Count
    <3>2. Len(TxQ) = Len(dr) + Count(SerialBufferSize, txHead, txTail)
      BY TxQFacts
    <3>3. \A l \in 0 .. 1, c \in Int : c < SerialBufferSize - 1 => l + c < SerialBufferSize
      BY UsartAssumption
    <3>4. QED
      BY <2>3, <2>5, <3>1, <3>2, <3>3, Zenon
  <2>8. TxQ = dr \o s
    BY DEF TxQ
  <2> HIDE DEF s
  <2>9. TxQ' = TxQ \o <<written>>
    BY <2>4, <2>6, <2>8
  <2>10. QED
    BY <2>1, <2>7, <2>9
<1>6. CASE Usart!Shift
  <2>1. /\ dr # <<>> /\ dr' = <<>> /\ shifted' = dr /\ UNCHANGED <<tx, txHead, txTail, written>>
    BY <1>6 DEF Usart!Shift
  <2> DEFINE s == RingSeq(tx, SerialBufferSize, txHead, txTail)
  <2>2. s \in Seq(OutBytes) /\ dr \in Seq(OutBytes)
    BY <1>1, TxQFacts, CellSeq DEF WriterInv
  <2>3. TxQ' = <<>> \o s
    BY <2>1 DEF TxQ
  <2>4. TxQ' = s
    BY <2>2, <2>3, ConcatEmptySeq
  <2>5. TxQ = shifted' \o TxQ'
    BY <2>1, <2>4 DEF TxQ
  <2>6. QED
    BY <2>1, <2>2, <2>4, <2>5
<1>7. CASE Usart!Write \/ Usart!Enable \/ Usart!Read \/ Usart!ReadDone \/ Usart!Arrive
  BY <1>7 DEF Usart!Write, Usart!Enable, Usart!Read, Usart!ReadDone, Usart!Arrive, TxQ
<1>8. QED
  BY <1>2, <1>3, <1>4, <1>5, <1>6, <1>7 DEF Usart!Next

LEMMA RxStep ==
  ASSUME UsartInv, Usart!Next
  PROVE  \/ RxQ' = RxQ /\ UNCHANGED <<arrived, taken>>
         \/ /\ Len(RxQ) = SerialBufferSize /\ UNCHANGED <<arrived, taken>>
            /\ RxQ' \in Seq(InBytes) /\ RxQ = RxQ' \o rdr /\ Len(rdr) = 1
         \/ /\ RxQ' = RxQ \o <<arrived>> /\ Len(RxQ) < SerialBufferSize
            /\ arrived' = (arrived + 1) % Usart!InCircle /\ UNCHANGED taken
         \/ /\ RxQ = taken' \o RxQ' /\ taken' # <<>>
            /\ taken' \in Seq(InBytes) /\ RxQ' \in Seq(InBytes) /\ UNCHANGED arrived
<1> USE DEF Usart!sending, Usart!receiving
<1> DEFINE s == RingSeq(rx, SerialBufferSize, rxHead, rxTail)
<1>1. UsartTypes /\ WriterInv
  BY UsartParts
<1>2. /\ s \in Seq(InBytes) /\ rdr \in Seq(InBytes) /\ Len(rdr) \in 0 .. 1
      /\ (rdr # <<>> => Len(rdr) = 1)
      /\ RxQ = s \o rdr /\ Len(RxQ) = Count(SerialBufferSize, rxHead, rxTail) + Len(rdr)
      /\ Count(SerialBufferSize, rxHead, rxTail) \in 0 .. SerialBufferSize - 1
  <2>1. Count(SerialBufferSize, rxHead, rxTail) \in 0 .. SerialBufferSize - 1
    BY <1>1, UsartAssumption DEF UsartTypes, Count
  <2>2. QED
    BY <1>1, <2>1, RxQFacts, CellSeq DEF WriterInv, RxQ
<1>3. CASE Usart!Interrupt
  <2>1. UNCHANGED <<rxTail, taken, arrived>> /\ rdr' = <<>>
    BY <1>3 DEF Usart!Interrupt
  <2>2. CASE rdr = <<>>
    <3>1. UNCHANGED <<rx, rxHead, rdr>>
      BY <1>3, <2>1, <2>2 DEF Usart!Interrupt
    <3>2. QED
      BY <2>1, <3>1 DEF RxQ
  <2>3. CASE rdr # <<>> /\ Usart!After(rxHead) = rxTail
    <3>1. UNCHANGED <<rx, rxHead>>
      BY <1>3, <2>3 DEF Usart!Interrupt, Usart!StoreChar
    <3>2. RxQ' = s \o <<>>
      BY <2>1, <3>1 DEF RxQ
    <3>3. RxQ' = s
      BY <1>2, <3>2, ConcatEmptySeq
    <3>4. Count(SerialBufferSize, rxHead, rxTail) = SerialBufferSize - 1
      BY <1>1, <2>3, UsartAssumption, UsartAfter DEF UsartTypes, Count, Place
    <3>5. Len(rdr) = 1 /\ Len(RxQ) = SerialBufferSize
      <4>1. Len(rdr) = 1 /\ Len(RxQ) = SerialBufferSize - 1 + 1
        BY <1>2, <2>3, <3>4, Zenon
      <4>2. QED
        BY <4>1, UsartAssumption
    <3>6. RxQ' \in Seq(InBytes) /\ RxQ = RxQ' \o rdr
      BY <1>2, <3>3
    <3>7. QED
      BY <2>1, <3>5, <3>6
  <2>4. CASE rdr # <<>> /\ Usart!After(rxHead) # rxTail
    <3> DEFINE new == [rx EXCEPT ![rxHead] = rdr[1]]
    <3>1. rx' = new /\ rxHead' = Usart!After(rxHead)
      BY <1>3, <2>4 DEF Usart!Interrupt, Usart!StoreChar
    <3>2. rdr[1] \in InBytes /\ rdr = <<rdr[1]>>
      BY <1>1, <2>4, CellHolds DEF WriterInv
    <3>3. /\ rxHead' = Place(SerialBufferSize, rxHead + 1)
          /\ Place(SerialBufferSize, rxHead + 1) # rxTail
      BY <1>1, <2>4, <3>1, UsartAfter DEF UsartTypes
    <3>4. new \in [0 .. SerialBufferSize - 1 -> InBytes] /\ new[rxHead] = rdr[1]
      BY <1>1, <3>2 DEF UsartTypes
    <3>5. RingSeq(new, SerialBufferSize, rxHead, rxTail) = s
      <4>1. rxTail \in 0 .. SerialBufferSize
        BY <1>1, UsartAssumption DEF UsartTypes
      <4>2. new = With(rx, rxHead, rdr[1])
        BY DEF With
      <4> HIDE DEF new
      <4>3. QED
        BY <1>1, <3>2, <4>1, <4>2, UsartAssumption, RingSame DEF UsartTypes
    <3> HIDE DEF new
    <3>6. RingSeq(new, SerialBufferSize, Place(SerialBufferSize, rxHead + 1), rxTail) =
            RingSeq(new, SerialBufferSize, rxHead, rxTail) \o <<new[rxHead]>>
      BY <1>1, <3>3, <3>4, UsartAssumption, RingPush DEF UsartTypes
    <3>7. RingSeq(new, SerialBufferSize, Place(SerialBufferSize, rxHead + 1), rxTail) = s \o rdr
      BY <3>2, <3>4, <3>5, <3>6
    <3>8. RxQ' = (s \o rdr) \o <<>>
      BY <2>1, <3>1, <3>3, <3>7 DEF RxQ
    <3>9. s \o rdr \in Seq(InBytes)
      BY <1>2, ConcatProperties
    <3>10. RxQ' = RxQ
      BY <1>2, <3>8, <3>9, ConcatEmptySeq
    <3>11. QED
      BY <2>1, <3>10
  <2>5. QED
    BY <2>2, <2>3, <2>4
<1>4. CASE Usart!ReadDone
  <2>1. /\ taken' = <<rx[rxTail]>> /\ rxTail' = Usart!After(rxTail)
        /\ UNCHANGED <<rx, rxHead, rdr, arrived>>
    BY <1>4 DEF Usart!ReadDone
  <2>2. rxHead # rxTail /\ rxTail' = Place(SerialBufferSize, rxTail + 1) /\ rx[rxTail] \in InBytes
    BY <1>1, <1>4, <2>1, UsartAfter DEF UsartTypes, WriterInv, Usart!ReadDone
  <2> DEFINE u == RingSeq(rx, SerialBufferSize, rxHead, Place(SerialBufferSize, rxTail + 1))
  <2>3. s = <<rx[rxTail]>> \o u
    BY <1>1, <2>2, UsartAssumption, RingPop DEF UsartTypes
  <2>4. RxQ' = u \o rdr
    BY <2>1, <2>2 DEF RxQ
  <2>5. u \in Seq(InBytes)
    <3> DEFINE after == Place(SerialBufferSize, rxTail + 1)
    <3>1. after \in 0 .. SerialBufferSize
      BY <1>1, UsartAssumption DEF UsartTypes, Place
    <3> HIDE DEF after
    <3>2. IsRing(InBytes, SerialBufferSize, rx, rxHead, after)
      BY <1>1, <3>1, UsartAssumption DEF UsartTypes, IsRing
    <3>3. RingFacts(InBytes, SerialBufferSize, rx, rxHead, after)
      BY <3>2, RingIs
    <3>4. QED
      BY <3>3 DEF RingFacts, after
  <2>6. <<rx[rxTail]>> \in Seq(InBytes) /\ <<rx[rxTail]>> # <<>>
    BY <2>2, SeqOfOne
  <2>7. u \o rdr \in Seq(InBytes)
    BY <1>2, <2>5, ConcatProperties
  <2> HIDE DEF u
  <2>8. RxQ = <<rx[rxTail]>> \o (u \o rdr)
    BY <1>2, <2>3, <2>5, <2>6, ConcatAssociative
  <2>9. QED
    BY <2>1, <2>4, <2>6, <2>7, <2>8
<1>5. CASE Usart!Arrive
  <2>1. /\ rdr = <<>> /\ rdr' = <<arrived>> /\ arrived' = (arrived + 1) % Usart!InCircle
        /\ UNCHANGED <<rx, rxHead, rxTail, taken>>
    BY <1>5 DEF Usart!Arrive
  <2>2. RxQ' = s \o <<arrived>>
    BY <2>1 DEF RxQ
  <2>3. RxQ = s /\ Len(rdr) = 0
    BY <1>2, <2>1, ConcatEmptySeq
  <2>4. QED
    BY <1>2, <2>1, <2>2, <2>3, UsartAssumption
<1>6. CASE \/ Usart!Write \/ Usart!SendByPolling \/ Usart!Fill \/ Usart!SetHead
           \/ Usart!Enable \/ Usart!Read \/ Usart!Shift
  BY <1>6
  DEF Usart!Write, Usart!SendByPolling, Usart!Fill, Usart!SetHead, Usart!Enable, Usart!Read,
      Usart!Shift, RxQ
<1>7. QED
  BY <1>3, <1>4, <1>5, <1>6 DEF Usart!Next

LEMMA OnePut ==
  ASSUME NEW n \in Nat, n > 0, NEW b \in 0 .. n - 1
  PROVE  [k \in 1 .. 1 |-> (b + k - 1) % n] = <<b>>
<1>1. \A k \in 1 .. 1 : (b + k - 1) % n = b
  <2>1. b % n = b
    OBVIOUS
  <2>2. \A k \in 1 .. 1 : b + k - 1 = b
    OBVIOUS
  <2>3. QED
    BY <2>1, <2>2
<1>2. [k \in 1 .. 1 |-> (b + k - 1) % n] = [k \in 1 .. 1 |-> b]
  BY <1>1
<1>3. QED
  BY <1>2

LEMMA TxIs == TxQ = dr \o Usart!Contents(tx, txHead, txTail)
BY DEF TxQ, Usart!Contents, RingSeq

LEMMA RxIs == RxQ = Usart!Contents(rx, rxHead, rxTail) \o rdr
BY DEF RxQ, Usart!Contents, RingSeq

LEMMA TxIsNext == TxQ' = (dr \o Usart!Contents(tx, txHead, txTail))'
BY DEF TxQ, Usart!Contents, RingSeq

LEMMA RxIsNext == RxQ' = (Usart!Contents(rx, rxHead, rxTail) \o rdr)'
BY DEF RxQ, Usart!Contents, RingSeq

LEMMA TxImplements ==
  UsartInv /\ [Usart!Next]_usart =>
    [Usart!TxQueue!Next]_(Usart!TxQueue!queue)
<1> DEFINE Goal == [Usart!TxQueue!Next]_(Usart!TxQueue!queue)
<1> SUFFICES ASSUME UsartInv, [Usart!Next]_usart PROVE Goal
  OBVIOUS
<1>1. /\ TxQ = dr \o Usart!Contents(tx, txHead, txTail)
      /\ TxQ' = (dr \o Usart!Contents(tx, txHead, txTail))'
  BY TxIs, TxIsNext
<1>2. TxQ \in Seq(OutBytes) /\ written \in OutBytes
  BY TxQFacts, UsartParts DEF UsartTypes
<1>3. CASE TxQ' = TxQ /\ UNCHANGED <<written, shifted>>
  BY <1>1, <1>3 DEF Usart!TxQueue!queue
<1>4. CASE /\ TxQ' = TxQ \o <<written>> /\ Len(TxQ) < SerialBufferSize
           /\ written' = (written + 1) % Usart!OutCircle /\ UNCHANGED shifted
  <2>1. [k \in 1 .. 1 |-> (written + k - 1) % Usart!OutCircle] = <<written>>
    BY <1>2, UsartAssumption, OnePut DEF OutBytes, Usart!OutCircle
  <2>2. 1 \in 1 .. SerialBufferSize - Len(TxQ)
    <3>1. Len(TxQ) \in Nat
      BY <1>2, LenProperties
    <3>2. QED
      BY <1>4, <3>1, UsartAssumption
  <2>3. /\ TxQ' = TxQ \o [k \in 1 .. 1 |-> (written + k - 1) % Usart!OutCircle]
        /\ written' = (written + 1) % Usart!OutCircle /\ UNCHANGED shifted
    BY <1>4, <2>1
  <2>4. Usart!TxQueue!Put
    BY <1>1, <2>2, <2>3, Zenon DEF Usart!TxQueue!Put, Usart!TxQueue!Comes
  <2>5. QED
    BY <2>4 DEF Usart!TxQueue!Next
<1>5. CASE /\ TxQ = shifted' \o TxQ' /\ shifted' # <<>>
           /\ shifted' \in Seq(OutBytes) /\ TxQ' \in Seq(OutBytes) /\ UNCHANGED written
  <2>1. /\ Len(shifted') \in 1 .. Len(shifted' \o TxQ')
        /\ SubSeq(shifted' \o TxQ', 1, Len(shifted')) = shifted'
        /\ SubSeq(shifted' \o TxQ', Len(shifted') + 1, Len(shifted' \o TxQ')) = TxQ'
    BY <1>5, FirstOut
  <2>2. /\ Len(shifted') \in 1 .. Len(TxQ) /\ shifted' = SubSeq(TxQ, 1, Len(shifted'))
        /\ TxQ' = SubSeq(TxQ, Len(shifted') + 1, Len(TxQ)) /\ UNCHANGED written
    BY <1>5, <2>1, Zenon
  <2>3. Usart!TxQueue!Get
    BY <1>1, <2>2, Zenon DEF Usart!TxQueue!Get
  <2>4. QED
    BY <2>3 DEF Usart!TxQueue!Next
<1>6. CASE UNCHANGED usart
  BY <1>6 DEF usart, Usart!Contents, Usart!TxQueue!queue
<1>7. CASE Usart!Next
  <2> HIDE DEF Goal
  <2>1. QED
    BY <1>3, <1>4, <1>5, <1>7, TxStep, Zenon
<1>8. QED
  BY <1>6, <1>7

LEMMA RxImplements ==
  UsartInv /\ [Usart!Next]_usart =>
    [Usart!RxQueue!Next]_(Usart!RxQueue!queue)
<1> DEFINE Goal == [Usart!RxQueue!Next]_(Usart!RxQueue!queue)
<1> SUFFICES ASSUME UsartInv, [Usart!Next]_usart PROVE Goal
  OBVIOUS
<1>1. /\ RxQ = Usart!Contents(rx, rxHead, rxTail) \o rdr
      /\ RxQ' = (Usart!Contents(rx, rxHead, rxTail) \o rdr)'
  BY RxIs, RxIsNext
<1>2. RxQ \in Seq(InBytes) /\ arrived \in InBytes
  BY RxQFacts, UsartParts DEF UsartTypes
<1>3. CASE RxQ' = RxQ /\ UNCHANGED <<arrived, taken>>
  BY <1>1, <1>3 DEF Usart!RxQueue!queue
<1>4. CASE /\ RxQ' = RxQ \o <<arrived>> /\ Len(RxQ) < SerialBufferSize
           /\ arrived' = (arrived + 1) % Usart!InCircle /\ UNCHANGED taken
  <2>1. [k \in 1 .. 1 |-> (arrived + k - 1) % Usart!InCircle] = <<arrived>>
    BY <1>2, UsartAssumption, OnePut DEF InBytes, Usart!InCircle
  <2>2. 1 \in 1 .. SerialBufferSize - Len(RxQ)
    <3>1. Len(RxQ) \in Nat
      BY <1>2, LenProperties
    <3>2. QED
      BY <1>4, <3>1, UsartAssumption
  <2>3. /\ RxQ' = RxQ \o [k \in 1 .. 1 |-> (arrived + k - 1) % Usart!InCircle]
        /\ arrived' = (arrived + 1) % Usart!InCircle /\ UNCHANGED taken
    BY <1>4, <2>1
  <2>4. Usart!RxQueue!Put
    BY <1>1, <2>2, <2>3, Zenon DEF Usart!RxQueue!Put, Usart!RxQueue!Comes
  <2>5. QED
    BY <2>4 DEF Usart!RxQueue!Next
<1>5. CASE /\ RxQ = taken' \o RxQ' /\ taken' # <<>>
           /\ taken' \in Seq(InBytes) /\ RxQ' \in Seq(InBytes) /\ UNCHANGED arrived
  <2>1. /\ Len(taken') \in 1 .. Len(taken' \o RxQ')
        /\ SubSeq(taken' \o RxQ', 1, Len(taken')) = taken'
        /\ SubSeq(taken' \o RxQ', Len(taken') + 1, Len(taken' \o RxQ')) = RxQ'
    BY <1>5, FirstOut
  <2>2. /\ Len(taken') \in 1 .. Len(RxQ) /\ taken' = SubSeq(RxQ, 1, Len(taken'))
        /\ RxQ' = SubSeq(RxQ, Len(taken') + 1, Len(RxQ)) /\ UNCHANGED arrived
    BY <1>5, <2>1, Zenon
  <2>3. Usart!RxQueue!Get
    BY <1>1, <2>2, Zenon DEF Usart!RxQueue!Get
  <2>4. QED
    BY <2>3 DEF Usart!RxQueue!Next
\* The newest byte finds the buffer full.
<1>6. CASE /\ Len(RxQ) = SerialBufferSize /\ UNCHANGED <<arrived, taken>>
           /\ RxQ' \in Seq(InBytes) /\ RxQ = RxQ' \o rdr /\ Len(rdr) = 1
  <2>1. rdr \in Seq(InBytes)
    BY UsartParts, CellSeq DEF WriterInv
  <2>2. Len(RxQ') = SerialBufferSize - 1
    <3>1. Len(RxQ') \in Nat /\ Len(RxQ) = Len(RxQ') + Len(rdr)
      BY <1>6, <2>1, ConcatProperties, LenProperties
    <3>2. QED
      BY <1>6, <3>1, UsartAssumption
  <2>3. RxQ' # <<>>
    BY <2>2, UsartAssumption
  <2>4. SubSeq(RxQ' \o rdr, 1, Len(RxQ')) = RxQ'
    BY <1>6, <2>1, <2>3, FirstOut
  <2>5. RxQ' = SubSeq(RxQ, 1, SerialBufferSize - 1)
    BY <1>6, <2>2, <2>4, Zenon
  <2>6. Usart!RxQueue!LoseNewest
    BY <1>1, <1>6, <2>5, Zenon DEF Usart!RxQueue!LoseNewest
  <2>7. QED
    BY <2>6 DEF Usart!RxQueue!Next
<1>7. CASE UNCHANGED usart
  BY <1>7 DEF usart, Usart!receiving, Usart!Contents, Usart!RxQueue!queue
<1>8. CASE Usart!Next
  <2> HIDE DEF Goal
  <2>1. QED
    BY <1>3, <1>4, <1>5, <1>6, <1>8, RxStep, Zenon
<1>9. QED
  BY <1>7, <1>8

LEMMA UsartQueuesEmpty ==
  Usart!Init => /\ TxQ = <<>> /\ written = 0
                /\ RxQ = <<>> /\ arrived = 0
<1> SUFFICES ASSUME Usart!Init PROVE TxQ = <<>> /\ RxQ = <<>> /\ written = 0 /\ arrived = 0
  OBVIOUS
<1>1. UsartInv
  BY UsartInit
<1>2. /\ txHead = 0 /\ txTail = 0 /\ rxHead = 0 /\ rxTail = 0 /\ dr = <<>> /\ rdr = <<>>
      /\ written = 0 /\ arrived = 0
  BY DEF Usart!Init
<1>3. /\ TxQ \in Seq(OutBytes) /\ Len(TxQ) = Len(dr) + Count(SerialBufferSize, txHead, txTail)
      /\ RxQ \in Seq(InBytes) /\ Len(RxQ) = Count(SerialBufferSize, rxHead, rxTail) + Len(rdr)
  BY <1>1, TxQFacts, RxQFacts
<1>4. Count(SerialBufferSize, 0, 0) = 0 /\ Len(<<>>) = 0
  BY UsartAssumption DEF Count
<1>5. Len(TxQ) = 0 /\ Len(RxQ) = 0
  BY <1>2, <1>3, <1>4
<1>6. QED
  BY <1>2, <1>3, <1>5, EmptySeq

\* USARTSerial hands on each byte once and in order in both directions, whatever the
\* interrupt, user code at any level of interrupts and the polling write do to the indexes.
THEOREM UsartIsQueue == Usart!Init /\ [][Usart!Next]_usart => Usart!IsQueue
<1>1. Usart!Init => UsartInv
  BY UsartInit
<1>2. UsartInv /\ [Usart!Next]_usart => UsartInv'
  <2>1. UsartInv /\ UNCHANGED usart => UsartInv'
    BY DEF UsartInv, WriterInv, Usart!TypeOK, usart
  <2>2. QED
    BY <2>1, UsartStep
<1>3. Usart!Init => /\ dr \o Usart!Contents(tx, txHead, txTail) = <<>> /\ written = 0
                    /\ Usart!Contents(rx, rxHead, rxTail) \o rdr = <<>> /\ arrived = 0
  BY UsartQueuesEmpty, TxIs, RxIs
<1>4. QED
  BY <1>1, <1>2, <1>3, TxImplements, RxImplements, PTL
  DEF Usart!IsQueue, Usart!TxQueue!Spec, Usart!RxQueue!Spec, Usart!TxQueue!Init,
      Usart!RxQueue!Init
(***************************************************************************)
(* UsbSerial                                                               *)
(***************************************************************************)

Packets == {s \in Seq(Usb!Octets) : Len(s) <= VIRTUAL_COM_PORT_DATA_SIZE}

UsbTypes ==
  /\ sender \in {"idle", "in", "wrap", "last"}
  /\ ring \in [0 .. USART_RX_DATA_SIZE - 1 -> Usb!Octets]
  /\ ptrIn \in 0 .. USART_RX_DATA_SIZE /\ ptrOut \in 0 .. USART_RX_DATA_SIZE
  /\ rxLength \in 0 .. USART_RX_DATA_SIZE /\ ptrOut + rxLength <= USART_RX_DATA_SIZE
  /\ txState \in {0, 1} /\ rxState \in {0, 1} /\ ready \in BOOLEAN
  /\ packet \in Packets /\ host \in Packets /\ rxBuf \in Packets /\ char \in Packets
  /\ rxPtr \in 0 .. PtrRange - 1 /\ put \in Usb!Octets /\ offered \in Usb!Octets

\* The pointer is past the ring between two instructions only, and the last byte of a packet
\* is there to be read whatever has come since the endpoint was enabled.
PointerInv ==
  /\ ptrIn = USART_RX_DATA_SIZE => sender = "wrap"
  /\ sender = "last" => rxPtr < Len(rxBuf)

UsbBase == UsbTypes /\ PointerInv

\* The slot at ptrIn holds the byte until it is counted; a packet is in the endpoint
\* during a transfer only.
SendInv ==
  /\ sender = "in" => ring[ptrIn] = put
  /\ txState = 0 => packet = <<>> /\ rxLength = 0
  /\ txState = 1 => packet # <<>>

\* The endpoint accepts a packet when the one before has been read, but for its last byte.
ReceiveInv ==
  /\ ready => rxState = 0
  /\ rxState = 0 => rxPtr = IF sender = "last" THEN Len(rxBuf) - 1 ELSE Len(rxBuf)

TransferInv == SendInv /\ ReceiveInv

LEMMA UsbBaseType == UsbBase => Usb!TypeOK
<1> SUFFICES ASSUME UsbBase PROVE Usb!TypeOK
  OBVIOUS
<1>1. \A s \in {packet, host, rxBuf, char} :
        s \in Seq(Usb!Octets) /\ Len(s) <= VIRTUAL_COM_PORT_DATA_SIZE
  BY DEF UsbBase, UsbTypes, Packets
<1>2. QED
  BY <1>1 DEF UsbBase, UsbTypes, PointerInv, Usb!TypeOK

LEMMA UsbNumbers ==
  /\ 0 \in Usb!Octets /\ \A b \in Usb!Octets : Usb!NextOctet(b) \in Usb!Octets
  /\ \A i \in Int : i % Usb!Circle \in Usb!Octets
BY UsbAssumption DEF Usb!Octets, Usb!NextOctet, Usb!Circle

LEMMA PacketIs ==
  ASSUME NEW n \in 1 .. VIRTUAL_COM_PORT_DATA_SIZE, NEW f, f \in [1 .. n -> Usb!Octets]
  PROVE  f \in Packets /\ Len(f) = n /\ f # <<>>
<1>1. n \in Nat /\ n > 0 /\ n <= VIRTUAL_COM_PORT_DATA_SIZE
  BY UsbAssumption
<1>2. f \in Seq(Usb!Octets) /\ Len(f) = n
  BY <1>1, SeqOfLength
<1>3. f # <<>>
  BY <1>1, <1>2
<1>4. QED
  BY <1>1, <1>2, <1>3 DEF Packets

LEMMA OctetPacket == ASSUME NEW b \in Usb!Octets PROVE <<b>> \in Packets /\ <<b>> # <<>>
<1>1. <<b>> \in Seq(Usb!Octets) /\ Len(<<b>>) = 1
  BY SeqOfOne
<1>2. QED
  BY <1>1, UsbAssumption DEF Packets

LEMMA EmptyPacket == <<>> \in Packets /\ Len(<<>>) = 0
BY UsbAssumption DEF Packets

LEMMA UsbTakesType ==
  ASSUME UsbTypes, NEW ptr \in 0 .. USART_RX_DATA_SIZE, NEW length \in 1 .. USART_RX_DATA_SIZE,
         ptr + length <= USART_RX_DATA_SIZE, Usb!TakePacket(ptr, length)
  PROVE  /\ packet' \in Packets /\ packet' # <<>>
         /\ ptrOut' \in 1 .. USART_RX_DATA_SIZE /\ rxLength' \in 0 .. USART_RX_DATA_SIZE
         /\ ptrOut' + rxLength' <= USART_RX_DATA_SIZE
         /\ \E n \in 1 .. length :
              /\ packet' = [k \in 1 .. n |-> ring[ptr + k - 1]]
              /\ ptrOut' = ptr + n /\ rxLength' = length - n
<1> DEFINE n == Usb!Least(length, VIRTUAL_COM_PORT_DATA_SIZE)
<1>1. n \in 1 .. length /\ n \in 1 .. VIRTUAL_COM_PORT_DATA_SIZE
  BY UsbAssumption DEF Usb!Least
<1>2. packet' = [k \in 1 .. n |-> ring[ptr + k - 1]] /\ ptrOut' = ptr + n /\ rxLength' = length - n
  BY DEF Usb!TakePacket
<1> HIDE DEF n
<1>3. \A k \in 1 .. n : ptr + k - 1 \in 0 .. USART_RX_DATA_SIZE - 1
  BY <1>1, UsbAssumption
<1>4. packet' \in [1 .. n -> Usb!Octets]
  BY <1>2, <1>3 DEF UsbTypes
<1>5. packet' \in Packets /\ packet' # <<>>
  BY <1>1, <1>4, PacketIs
<1>6. /\ ptrOut' \in 1 .. USART_RX_DATA_SIZE /\ rxLength' \in 0 .. USART_RX_DATA_SIZE
      /\ ptrOut' + rxLength' <= USART_RX_DATA_SIZE
  BY <1>1, <1>2, UsbAssumption
<1>7. QED
  BY <1>1, <1>2, <1>5, <1>6

\* What Handle_USBAsynchXfer begins with.
LEMMA UsbBegins ==
  ASSUME UsbTypes, Usb!Handle_USBAsynchXfer
  PROVE  \E ptr \in 0 .. USART_RX_DATA_SIZE - 1 :
           /\ ptr = IF ptrOut = USART_RX_DATA_SIZE THEN 0 ELSE ptrOut
           /\ \/ ptr = ptrIn /\ ptrOut' = ptr /\ UNCHANGED <<txState, packet, rxLength>>
              \/ \E length \in 1 .. USART_RX_DATA_SIZE :
                   /\ ptr # ptrIn /\ ptr + length <= USART_RX_DATA_SIZE
                   /\ length = IF ptr > ptrIn THEN USART_RX_DATA_SIZE - ptr ELSE ptrIn - ptr
                   /\ txState' = 1 /\ Usb!TakePacket(ptr, length)
<1> DEFINE ptr == IF ptrOut = USART_RX_DATA_SIZE THEN 0 ELSE ptrOut
           length == IF ptr > ptrIn THEN USART_RX_DATA_SIZE - ptr ELSE ptrIn - ptr
<1>1. IF ptr = ptrIn THEN ptrOut' = ptr /\ UNCHANGED <<txState, packet, rxLength>>
      ELSE txState' = 1 /\ Usb!TakePacket(ptr, length)
  BY DEF Usb!Handle_USBAsynchXfer
<1>2. ptr \in 0 .. USART_RX_DATA_SIZE - 1
  BY UsbAssumption DEF UsbTypes
<1>3. ptr # ptrIn => length \in 1 .. USART_RX_DATA_SIZE /\ ptr + length <= USART_RX_DATA_SIZE
  BY <1>2, UsbAssumption DEF UsbTypes
<1> HIDE DEF ptr
<1>4. CASE ptr = ptrIn
  BY <1>1, <1>2, <1>4 DEF ptr
<1>5. CASE ptr # ptrIn
  <2>1. txState' = 1 /\ Usb!TakePacket(ptr, length)
    BY <1>1, <1>5
  <2>2. QED
    BY <1>2, <1>3, <1>5, <2>1 DEF ptr
<1>6. QED
  BY <1>4, <1>5

LEMMA UsbInit == Usb!Init => UsbBase /\ TransferInv
<1> SUFFICES ASSUME Usb!Init PROVE UsbBase /\ TransferInv
  OBVIOUS
<1>1. ready \in BOOLEAN
  BY Zenon DEF Usb!Init
<1>2. UsbTypes
  BY <1>1, UsbNumbers, EmptyPacket, UsbAssumption DEF UsbTypes, Usb!Init
<1>3. PointerInv /\ TransferInv
  BY UsbAssumption, EmptyPacket DEF PointerInv, TransferInv, SendInv, ReceiveInv, Usb!Init
<1>4. QED
  BY <1>2, <1>3 DEF UsbBase

LEMMA UsbBaseStep == UsbBase /\ Usb!Next => UsbBase'
<1> SUFFICES ASSUME UsbBase, Usb!Next PROVE UsbBase'
  OBVIOUS
<1> USE DEF Usb!toHost, Usb!fromHost
<1>1. UsbTypes /\ PointerInv
  BY DEF UsbBase
<1>2. CASE Usb!SendData
  <2>1. ring' \in [0 .. USART_RX_DATA_SIZE - 1 -> Usb!Octets]
    BY <1>1, <1>2 DEF Usb!SendData, UsbTypes
  <2>2. QED
    BY <1>1, <1>2, <2>1 DEF Usb!SendData, UsbBase, UsbTypes, PointerInv
<1>3. CASE Usb!SendDataIn
  <2>1. ptrIn' \in 0 .. USART_RX_DATA_SIZE
    BY <1>1, <1>3, UsbAssumption DEF Usb!SendDataIn, UsbTypes, PointerInv
  <2>2. put' \in Usb!Octets
    BY <1>1, <1>3, UsbNumbers DEF Usb!SendDataIn, UsbTypes
  <2>3. QED
    BY <1>1, <1>3, <2>1, <2>2 DEF Usb!SendDataIn, UsbBase, UsbTypes, PointerInv
<1>4. CASE Usb!SendDataWrap
  <2>1. ptrIn' \in 0 .. USART_RX_DATA_SIZE /\ ptrIn' # USART_RX_DATA_SIZE
    BY <1>1, <1>4, UsbAssumption DEF Usb!SendDataWrap, UsbTypes
  <2>2. QED
    BY <1>1, <1>4, <2>1 DEF Usb!SendDataWrap, UsbBase, UsbTypes, PointerInv
<1>5. CASE Usb!Handle_USBAsynchXfer
  <2>1. UNCHANGED <<sender, ring, ptrIn, host, put, rxState, rxBuf, rxPtr, ready, char, offered>>
    BY <1>5 DEF Usb!Handle_USBAsynchXfer
  <2>2. PICK ptr \in 0 .. USART_RX_DATA_SIZE - 1 :
           /\ ptr = IF ptrOut = USART_RX_DATA_SIZE THEN 0 ELSE ptrOut
           /\ \/ ptr = ptrIn /\ ptrOut' = ptr /\ UNCHANGED <<txState, packet, rxLength>>
              \/ \E length \in 1 .. USART_RX_DATA_SIZE :
                   /\ ptr # ptrIn /\ ptr + length <= USART_RX_DATA_SIZE
                   /\ length = IF ptr > ptrIn THEN USART_RX_DATA_SIZE - ptr ELSE ptrIn - ptr
                   /\ txState' = 1 /\ Usb!TakePacket(ptr, length)
    BY <1>1, <1>5, UsbBegins
  <2>3. CASE ptrOut' = ptr /\ UNCHANGED <<txState, packet, rxLength>>
    <3>1. ptrOut' \in 0 .. USART_RX_DATA_SIZE /\ ptrOut' + rxLength' <= USART_RX_DATA_SIZE
      BY <1>1, <2>2, <2>3, UsbAssumption DEF UsbTypes
    <3>2. QED
      BY <1>1, <2>1, <2>3, <3>1 DEF UsbBase, UsbTypes, PointerInv
  <2>4. ASSUME NEW length \in 1 .. USART_RX_DATA_SIZE, ptr + length <= USART_RX_DATA_SIZE,
               txState' = 1, Usb!TakePacket(ptr, length)
        PROVE  UsbBase'
    <3>1. ptr \in 0 .. USART_RX_DATA_SIZE
      BY UsbAssumption
    <3>2. /\ packet' \in Packets
          /\ ptrOut' \in 1 .. USART_RX_DATA_SIZE /\ rxLength' \in 0 .. USART_RX_DATA_SIZE
          /\ ptrOut' + rxLength' <= USART_RX_DATA_SIZE
      BY <1>1, <2>4, <3>1, UsbTakesType
    <3>3. ptrOut' \in 0 .. USART_RX_DATA_SIZE
      BY <3>2
    <3>4. QED
      BY <1>1, <2>1, <2>4, <3>2, <3>3 DEF UsbBase, UsbTypes, PointerInv
  <2>5. QED
    BY <2>2, <2>3, <2>4
<1>6. CASE Usb!EP1_IN_Callback
  <2>1. /\ host' = packet
        /\ UNCHANGED <<sender, ring, ptrIn, put, rxState, rxBuf, rxPtr, ready, char, offered>>
    BY <1>6 DEF Usb!EP1_IN_Callback
  <2>2. CASE rxLength = 0
    BY <1>1, <1>6, <2>1, <2>2, EmptyPacket
    DEF Usb!EP1_IN_Callback, UsbBase, UsbTypes, PointerInv
  <2>3. CASE rxLength # 0
    <3>1. Usb!TakePacket(ptrOut, rxLength) /\ txState' = txState
      BY <1>6, <2>3 DEF Usb!EP1_IN_Callback
    <3>2. rxLength \in 1 .. USART_RX_DATA_SIZE
      BY <1>1, <2>3 DEF UsbTypes
    <3>3. /\ packet' \in Packets
          /\ ptrOut' \in 1 .. USART_RX_DATA_SIZE /\ rxLength' \in 0 .. USART_RX_DATA_SIZE
          /\ ptrOut' + rxLength' <= USART_RX_DATA_SIZE
      BY <1>1, <3>1, <3>2, UsbTakesType DEF UsbTypes
    <3>4. ptrOut' \in 0 .. USART_RX_DATA_SIZE
      BY <3>3
    <3>5. QED
      BY <1>1, <2>1, <3>1, <3>3, <3>4 DEF UsbBase, UsbTypes, PointerInv
  <2>4. QED
    BY <2>2, <2>3
<1>7. CASE Usb!EP3_OUT_Callback
  <2>1. PICK n \in 1 .. VIRTUAL_COM_PORT_DATA_SIZE :
          /\ rxBuf' = [k \in 1 .. n |-> (offered + k - 1) % Usb!Circle]
          /\ offered' = (offered + n) % Usb!Circle
    BY <1>7 DEF Usb!EP3_OUT_Callback
  <2>2. \A k \in 1 .. n : offered + k - 1 \in Int /\ offered + n \in Int
    BY <1>1, UsbAssumption DEF UsbTypes, Usb!Octets, Usb!Circle
  <2>3. rxBuf' \in [1 .. n -> Usb!Octets]
    BY <2>1, <2>2, UsbNumbers
  <2>4. rxBuf' \in Packets /\ Len(rxBuf') = n
    BY <2>3, PacketIs
  <2>5. offered' \in Usb!Octets
    <3>1. offered + n \in Int
      BY <1>1, UsbAssumption DEF UsbTypes, Usb!Octets, Usb!Circle
    <3>2. QED
      BY <2>1, <3>1, UsbNumbers
  <2>6. ready' = FALSE /\ rxState' = 1 /\ rxPtr' = 0
    BY <1>7 DEF Usb!EP3_OUT_Callback
  <2>7. ready' \in BOOLEAN
    BY <2>6, Zenon
  <2>8. rxPtr' \in 0 .. PtrRange - 1 /\ rxPtr' < Len(rxBuf')
    BY <2>4, <2>6, UsbAssumption
  <2>9. QED
    BY <1>1, <1>7, <2>4, <2>5, <2>6, <2>7, <2>8
    DEF Usb!EP3_OUT_Callback, UsbBase, UsbTypes, PointerInv
<1>8. /\ rxPtr < Len(rxBuf) => rxBuf[rxPtr + 1] \in Usb!Octets
      /\ Usb!NextPtr \in 0 .. PtrRange - 1
  <2>1. rxBuf \in Seq(Usb!Octets) /\ rxPtr \in Nat /\ Len(rxBuf) \in Nat
    BY <1>1, LenProperties DEF UsbTypes, Packets
  <2>2. rxPtr < Len(rxBuf) => rxPtr + 1 \in 1 .. Len(rxBuf)
    BY <2>1
  <2>3. Usb!NextPtr \in 0 .. PtrRange - 1
    BY <2>1, UsbAssumption DEF Usb!NextPtr
  <2>4. QED
    BY <2>1, <2>2, <2>3, ElementOfSeq
<1>9. CASE Usb!ReceiveData
  <2>1. /\ \E c \in IF rxPtr < Len(rxBuf) THEN {rxBuf[rxPtr + 1]} ELSE Usb!Octets : char' = <<c>>
        /\ sender = "idle" /\ rxPtr' = Usb!NextPtr
    BY <1>9 DEF Usb!ReceiveData
  <2>2. PICK c \in Usb!Octets : char' = <<c>>
    BY <1>8, <2>1
  <2>3. char' \in Packets
    BY <2>2, OctetPacket
  <2>4. QED
    BY <1>1, <1>8, <1>9, <2>1, <2>3 DEF Usb!ReceiveData, UsbBase, UsbTypes, PointerInv
<1>10. CASE Usb!ReceiveLast
  <2>1. ready' \in BOOLEAN
    BY <1>10, Zenon DEF Usb!ReceiveLast
  <2>2. Len(rxBuf) \in Nat
    BY <1>1, LenProperties DEF UsbTypes, Packets
  <2>3. QED
    BY <1>1, <1>10, <2>1, <2>2 DEF Usb!ReceiveLast, UsbBase, UsbTypes, PointerInv
<1>11. CASE Usb!ReceiveLastDone
  <2>1. sender = "last" /\ char' = <<rxBuf[rxPtr + 1]>> /\ rxPtr' = Usb!NextPtr
    BY <1>11 DEF Usb!ReceiveLastDone
  <2>2. char' \in Packets
    BY <1>1, <1>8, <2>1, OctetPacket DEF PointerInv
  <2>3. QED
    BY <1>1, <1>8, <1>11, <2>1, <2>2 DEF Usb!ReceiveLastDone, UsbBase, UsbTypes, PointerInv
<1>12. QED
  BY <1>2, <1>3, <1>4, <1>5, <1>6, <1>7, <1>9, <1>10, <1>11 DEF Usb!Next

LEMMA CountMoves ==
  ASSUME NEW n \in Nat, n > 1, NEW h \in 0 .. n, NEW t \in 0 .. n
  PROVE  /\ h < n /\ ~ (Count(n, h, t) < n - 1) =>
              Count(n, h, t) = n - 1 /\ Count(n, h + 1, t) = 0
         /\ t # 0 => Count(n, 0, t) = Count(n, n, t)
         /\ h < n => Count(n, h, n) = Count(n, h, 0)
         /\ \A m \in 1 .. Count(n, h, t) : t + m <= n => Count(n, h, t + m) = Count(n, h, t) - m
BY DEF Count

\* A packet takes what it holds from the front of the ring.
LEMMA UsbTakes ==
  ASSUME UsbTypes, NEW ptr \in 0 .. USART_RX_DATA_SIZE - 1,
         NEW length \in 1 .. Count(USART_RX_DATA_SIZE, ptrIn, ptr),
         ptr + length <= USART_RX_DATA_SIZE, Usb!TakePacket(ptr, length),
         UNCHANGED <<ring, ptrIn>>
  PROVE  /\ packet' \o RingSeq(ring, USART_RX_DATA_SIZE, ptrIn, ptrOut') =
              RingSeq(ring, USART_RX_DATA_SIZE, ptrIn, ptr)
         /\ packet' # <<>> /\ ptrOut' # 0
         /\ rxLength' <= Count(USART_RX_DATA_SIZE, ptrIn, ptrOut')
         /\ Count(USART_RX_DATA_SIZE, ptrIn, ptrOut') <= Count(USART_RX_DATA_SIZE, ptrIn, ptr)
<1>1. /\ ptr \in 0 .. USART_RX_DATA_SIZE /\ length \in 1 .. USART_RX_DATA_SIZE
      /\ Count(USART_RX_DATA_SIZE, ptrIn, ptr) \in 0 .. USART_RX_DATA_SIZE - 1
  BY UsbAssumption, CountIs DEF UsbTypes
<1>2. /\ packet' # <<>> /\ ptrOut' \in 1 .. USART_RX_DATA_SIZE
      /\ \E n \in 1 .. length :
           /\ packet' = [k \in 1 .. n |-> ring[ptr + k - 1]]
           /\ ptrOut' = ptr + n /\ rxLength' = length - n
  BY <1>1, UsbTakesType
<1>3. PICK n \in 1 .. length :
        /\ packet' = [k \in 1 .. n |-> ring[ptr + k - 1]]
        /\ ptrOut' = ptr + n /\ rxLength' = length - n
  BY <1>2
<1>4. n \in 1 .. Count(USART_RX_DATA_SIZE, ptrIn, ptr) /\ ptr + n <= USART_RX_DATA_SIZE
  BY <1>1, UsbAssumption
<1>5. RingSeq(ring, USART_RX_DATA_SIZE, ptrIn, ptr) =
        [k \in 1 .. n |-> ring[ptr + k - 1]] \o RingSeq(ring, USART_RX_DATA_SIZE, ptrIn, ptr + n)
  <2>1. ring \in [0 .. USART_RX_DATA_SIZE - 1 -> Usb!Octets] /\ ptrIn \in 0 .. USART_RX_DATA_SIZE
    BY DEF UsbTypes
  <2>2. USART_RX_DATA_SIZE \in Nat /\ USART_RX_DATA_SIZE > 1
    BY UsbAssumption
  <2>3. \A m \in 1 .. Count(USART_RX_DATA_SIZE, ptrIn, ptr) : ptr + m <= USART_RX_DATA_SIZE =>
          RingSeq(ring, USART_RX_DATA_SIZE, ptrIn, ptr) =
            [k \in 1 .. m |-> ring[ptr + k - 1]]
              \o RingSeq(ring, USART_RX_DATA_SIZE, ptrIn, ptr + m)
    <3> HIDE <1>1, <1>2, <1>3, <1>4
    <3>1. QED
      BY <2>1, <2>2, RingTake
  <2>4. QED
    BY <1>4, <2>3
<1>6. Count(USART_RX_DATA_SIZE, ptrIn, ptr + n) = Count(USART_RX_DATA_SIZE, ptrIn, ptr) - n
  <2>1. \A m \in 1 .. Count(USART_RX_DATA_SIZE, ptrIn, ptr) : ptr + m <= USART_RX_DATA_SIZE =>
          Count(USART_RX_DATA_SIZE, ptrIn, ptr + m) = Count(USART_RX_DATA_SIZE, ptrIn, ptr) - m
    <3>1. ptrIn \in 0 .. USART_RX_DATA_SIZE
      BY DEF UsbTypes
    <3>2. QED
      BY <1>1, <3>1, UsbAssumption, CountMoves
  <2>2. QED
    BY <1>4, <2>1
<1>7. packet' \o RingSeq(ring, USART_RX_DATA_SIZE, ptrIn, ptrOut') =
        RingSeq(ring, USART_RX_DATA_SIZE, ptrIn, ptr)
  BY <1>3, <1>5
<1>8. /\ rxLength' <= Count(USART_RX_DATA_SIZE, ptrIn, ptrOut')
      /\ Count(USART_RX_DATA_SIZE, ptrIn, ptrOut') <= Count(USART_RX_DATA_SIZE, ptrIn, ptr)
  <2> DEFINE c == Count(USART_RX_DATA_SIZE, ptrIn, ptr)
  <2>1. /\ Count(USART_RX_DATA_SIZE, ptrIn, ptrOut') = c - n /\ rxLength' = length - n
        /\ c \in Nat /\ length \in 1 .. c /\ n \in 1 .. length
    BY <1>1, <1>3, <1>6, UsbAssumption
  <2> HIDE DEF c
  <2>2. length - n <= c - n /\ c - n <= c
    BY <2>1
  <2>3. QED
    BY <2>1, <2>2 DEF c
<1>9. ptrOut' # 0
  BY <1>2
<1>10. QED
  BY <1>2, <1>7, <1>8, <1>9

\* What Handle_USBAsynchXfer finds in the ring, between transfers, but for the instant at
\* which it takes the pointer at the end of the ring for one that has not gone round.
LEMMA UsbStarts ==
  ASSUME UsbBase, TransferInv, ~ Usb!AtWrap, Usb!Handle_USBAsynchXfer
  PROVE  /\ packet = <<>> /\ rxLength = 0 /\ txState = 0
         /\ \E ptr \in 0 .. USART_RX_DATA_SIZE - 1 :
           /\ ptrIn = USART_RX_DATA_SIZE => ptr # 0
           /\ Count(USART_RX_DATA_SIZE, ptrIn, ptr) = Count(USART_RX_DATA_SIZE, ptrIn, ptrOut)
           /\ RingSeq(ring, USART_RX_DATA_SIZE, ptrIn, ptr) =
                RingSeq(ring, USART_RX_DATA_SIZE, ptrIn, ptrOut)
           /\ \/ ptrOut' = ptr /\ UNCHANGED <<txState, packet, rxLength>>
              \/ \E length \in 1 .. Count(USART_RX_DATA_SIZE, ptrIn, ptr) :
                   /\ ptr + length <= USART_RX_DATA_SIZE
                   /\ txState' = 1 /\ Usb!TakePacket(ptr, length)
<1>1. UsbTypes
  BY DEF UsbBase
<1>2. /\ packet = <<>> /\ rxLength = 0 /\ txState = 0
      /\ ptrIn < USART_RX_DATA_SIZE \/ ptrOut < USART_RX_DATA_SIZE
  BY <1>1, UsbAssumption
  DEF Usb!Handle_USBAsynchXfer, Usb!AtWrap, UsbTypes, TransferInv, SendInv
<1>3. PICK ptr \in 0 .. USART_RX_DATA_SIZE - 1 :
           /\ ptr = IF ptrOut = USART_RX_DATA_SIZE THEN 0 ELSE ptrOut
           /\ \/ ptr = ptrIn /\ ptrOut' = ptr /\ UNCHANGED <<txState, packet, rxLength>>
              \/ \E length \in 1 .. USART_RX_DATA_SIZE :
                   /\ ptr # ptrIn /\ ptr + length <= USART_RX_DATA_SIZE
                   /\ length = IF ptr > ptrIn THEN USART_RX_DATA_SIZE - ptr ELSE ptrIn - ptr
                   /\ txState' = 1 /\ Usb!TakePacket(ptr, length)
  BY <1>1, UsbBegins
<1>4. ptrIn = USART_RX_DATA_SIZE => ptr # 0
  BY <1>1, <1>2, <1>3, UsbAssumption DEF Usb!AtWrap, UsbTypes
<1>5. Count(USART_RX_DATA_SIZE, ptrIn, ptr) = Count(USART_RX_DATA_SIZE, ptrIn, ptrOut)
  <2>1. CASE ptrOut = USART_RX_DATA_SIZE
    <3>1. ptr = 0 /\ ptrIn < USART_RX_DATA_SIZE /\ ptrOut \in 0 .. USART_RX_DATA_SIZE
      BY <1>1, <1>2, <1>3, <2>1, UsbAssumption
    <3>2. QED
      BY <1>1, <2>1, <3>1, UsbAssumption, CountMoves DEF UsbTypes
  <2>2. CASE ptrOut # USART_RX_DATA_SIZE
    BY <1>3, <2>2
  <2>3. QED
    BY <2>1, <2>2
<1>6. RingSeq(ring, USART_RX_DATA_SIZE, ptrIn, ptr) =
        RingSeq(ring, USART_RX_DATA_SIZE, ptrIn, ptrOut)
  <2>1. CASE ptrOut = USART_RX_DATA_SIZE
    <3>1. ptr = 0
      BY <1>3, <2>1
    <3>2. QED
      BY <1>1, <2>1, <3>1, UsbAssumption, RingWraps DEF UsbTypes
  <2>2. CASE ptrOut # USART_RX_DATA_SIZE
    BY <1>3, <2>2
  <2>3. QED
    BY <2>1, <2>2
<1>7. ASSUME NEW length \in 1 .. USART_RX_DATA_SIZE, ptr # ptrIn,
             length = IF ptr > ptrIn THEN USART_RX_DATA_SIZE - ptr ELSE ptrIn - ptr
      PROVE  length \in 1 .. Count(USART_RX_DATA_SIZE, ptrIn, ptr)
  BY <1>1, <1>4, <1>7, UsbAssumption DEF UsbTypes, Count
<1>8. QED
  <2>1. CASE ptrOut' = ptr /\ UNCHANGED <<txState, packet, rxLength>>
    BY <1>2, <1>4, <1>5, <1>6, <2>1
  <2>2. CASE \E length \in 1 .. USART_RX_DATA_SIZE :
               /\ ptr # ptrIn /\ ptr + length <= USART_RX_DATA_SIZE
               /\ length = IF ptr > ptrIn THEN USART_RX_DATA_SIZE - ptr ELSE ptrIn - ptr
               /\ txState' = 1 /\ Usb!TakePacket(ptr, length)
    <3>1. \E length \in 1 .. Count(USART_RX_DATA_SIZE, ptrIn, ptr) :
            /\ ptr + length <= USART_RX_DATA_SIZE
            /\ txState' = 1 /\ Usb!TakePacket(ptr, length)
      BY <1>7, <2>2
    <3>2. QED
      BY <1>2, <1>4, <1>5, <1>6, <3>1
  <2>3. QED
    BY <1>3, <2>1, <2>2

\* In a packet the pointer does not wrap.
LEMMA SmallPtr ==
  ASSUME rxPtr \in Nat, rxPtr + 1 <= VIRTUAL_COM_PORT_DATA_SIZE
  PROVE  Usb!NextPtr = rxPtr + 1
<1>1. rxPtr + 1 \in 0 .. PtrRange - 1 /\ PtrRange \in Nat /\ PtrRange > 1
  BY UsbAssumption
<1>2. (rxPtr + 1) % PtrRange = rxPtr + 1
  BY <1>1, Modulo
<1>3. QED
  BY <1>2 DEF Usb!NextPtr

LEMMA UsbSendStep == UsbBase /\ TransferInv /\ Usb!Next => SendInv'
<1> SUFFICES ASSUME UsbBase, TransferInv, Usb!Next PROVE SendInv'
  OBVIOUS
<1> USE DEF Usb!toHost, Usb!fromHost
<1>1. UsbTypes /\ PointerInv /\ SendInv
  BY DEF UsbBase, TransferInv
<1>2. CASE Usb!SendData
  <2>1. /\ sender = "idle" /\ ring' = [ring EXCEPT ![ptrIn] = put]
        /\ UNCHANGED <<ptrIn, rxLength, txState, packet, put>>
    BY <1>2 DEF Usb!SendData
  <2>2. ptrIn \in 0 .. USART_RX_DATA_SIZE - 1
    BY <1>1, <2>1, UsbAssumption DEF UsbTypes, PointerInv
  <2>3. ring'[ptrIn] = put
    BY <1>1, <2>1, <2>2 DEF UsbTypes
  <2>4. QED
    BY <1>1, <2>1, <2>3 DEF SendInv
<1>3. CASE Usb!SendDataIn \/ Usb!SendDataWrap
  BY <1>1, <1>3 DEF Usb!SendDataIn, Usb!SendDataWrap, SendInv
\* Both interrupts begin a packet by TakePacket or leave none.
<1>4. ASSUME NEW ptr \in 0 .. USART_RX_DATA_SIZE, NEW length \in 1 .. USART_RX_DATA_SIZE,
             ptr + length <= USART_RX_DATA_SIZE, Usb!TakePacket(ptr, length), txState' = 1,
             UNCHANGED <<sender, ring, ptrIn, put>>
      PROVE  SendInv'
  <2>1. packet' # <<>>
    BY <1>1, <1>4, UsbTakesType
  <2>2. QED
    BY <1>1, <1>4, <2>1 DEF SendInv
<1>5. CASE Usb!Handle_USBAsynchXfer
  <2>1. UNCHANGED <<sender, ring, ptrIn, put>>
    BY <1>5 DEF Usb!Handle_USBAsynchXfer
  <2>2. PICK ptr \in 0 .. USART_RX_DATA_SIZE - 1 :
           \/ UNCHANGED <<txState, packet, rxLength>>
           \/ \E length \in 1 .. USART_RX_DATA_SIZE :
                /\ ptr + length <= USART_RX_DATA_SIZE
                /\ txState' = 1 /\ Usb!TakePacket(ptr, length)
    BY <1>1, <1>5, UsbBegins
  <2>3. CASE UNCHANGED <<txState, packet, rxLength>>
    BY <1>1, <2>1, <2>3 DEF SendInv
  <2>4. ptr \in 0 .. USART_RX_DATA_SIZE
    BY UsbAssumption
  <2>5. QED
    BY <1>4, <2>1, <2>2, <2>3, <2>4
<1>6. CASE Usb!EP1_IN_Callback
  <2>1. UNCHANGED <<sender, ring, ptrIn, put>> /\ txState = 1
    BY <1>6 DEF Usb!EP1_IN_Callback
  <2>2. CASE rxLength = 0
    <3>1. txState' = 0 /\ packet' = <<>> /\ UNCHANGED rxLength
      BY <1>6, <2>2 DEF Usb!EP1_IN_Callback
    <3>2. QED
      BY <1>1, <2>1, <2>2, <3>1 DEF SendInv
  <2>3. CASE rxLength # 0
    <3>1. Usb!TakePacket(ptrOut, rxLength) /\ txState' = 1
      BY <1>6, <2>1, <2>3 DEF Usb!EP1_IN_Callback
    <3>2. /\ rxLength \in 1 .. USART_RX_DATA_SIZE
          /\ ptrOut \in 0 .. USART_RX_DATA_SIZE /\ ptrOut + rxLength <= USART_RX_DATA_SIZE
      BY <1>1, <2>3, UsbAssumption DEF UsbTypes
    <3>3. QED
      BY <1>4, <2>1, <3>1, <3>2
  <2>4. QED
    BY <2>2, <2>3
<1>7. CASE Usb!EP3_OUT_Callback \/ Usb!ReceiveData \/ Usb!ReceiveLast \/ Usb!ReceiveLastDone
  <2>1. UNCHANGED <<ring, ptrIn, rxLength, txState, packet, put>>
    BY <1>7 DEF Usb!EP3_OUT_Callback, Usb!ReceiveData, Usb!ReceiveLast, Usb!ReceiveLastDone
  <2>2. sender' = "in" => sender = "in"
    BY <1>7 DEF Usb!EP3_OUT_Callback, Usb!ReceiveData, Usb!ReceiveLast, Usb!ReceiveLastDone
  <2>3. QED
    BY <1>1, <2>1, <2>2 DEF SendInv
<1>8. QED
  BY <1>2, <1>3, <1>5, <1>6, <1>7 DEF Usb!Next

LEMMA UsbReceiveStep == UsbBase /\ TransferInv /\ Usb!Next => ReceiveInv'
<1> SUFFICES ASSUME UsbBase, TransferInv, Usb!Next PROVE ReceiveInv'
  OBVIOUS
<1> USE DEF Usb!toHost, Usb!fromHost
<1>1. UsbTypes /\ PointerInv /\ ReceiveInv
  BY DEF UsbBase, TransferInv
<1>2. rxPtr \in Nat /\ Len(rxBuf) \in 0 .. VIRTUAL_COM_PORT_DATA_SIZE
  BY <1>1, UsbAssumption, LenProperties DEF UsbTypes, Packets
<1>3. CASE \/ Usb!SendData \/ Usb!SendDataIn \/ Usb!SendDataWrap
           \/ Usb!Handle_USBAsynchXfer \/ Usb!EP1_IN_Callback
  <2>1. UNCHANGED <<rxState, rxBuf, rxPtr, ready>> /\ (sender' = "last" <=> sender = "last")
    BY <1>3
    DEF Usb!SendData, Usb!SendDataIn, Usb!SendDataWrap, Usb!Handle_USBAsynchXfer,
        Usb!EP1_IN_Callback
  <2>2. QED
    BY <1>1, <2>1 DEF ReceiveInv
<1>4. CASE Usb!EP3_OUT_Callback
  <2>1. ready' = FALSE /\ rxState' = 1
    BY <1>4 DEF Usb!EP3_OUT_Callback
  <2>2. QED
    BY <2>1 DEF ReceiveInv
<1>5. CASE Usb!ReceiveData
  <2>1. rxState' = 1 /\ rxState = 1 /\ ready' = ready
    BY <1>5 DEF Usb!ReceiveData
  <2>2. QED
    BY <1>1, <2>1 DEF ReceiveInv
<1>6. CASE Usb!ReceiveLast
  BY <1>1, <1>2, <1>6 DEF Usb!ReceiveLast, ReceiveInv
<1>7. CASE Usb!ReceiveLastDone
  <2>1. /\ sender = "last" /\ sender' = "idle" /\ rxPtr' = Usb!NextPtr
        /\ UNCHANGED <<rxState, rxBuf, ready>>
    BY <1>7 DEF Usb!ReceiveLastDone
  <2>2. rxState = 0 => Usb!NextPtr = Len(rxBuf)
    <3>1. SUFFICES ASSUME rxState = 0 PROVE Usb!NextPtr = Len(rxBuf)
      OBVIOUS
    <3>2. rxPtr + 1 = Len(rxBuf)
      BY <1>1, <1>2, <2>1, <3>1 DEF ReceiveInv
    <3>3. Usb!NextPtr = rxPtr + 1
      BY <1>2, <3>2, SmallPtr
    <3>4. QED
      BY <3>2, <3>3
  <2>3. QED
    BY <1>1, <2>1, <2>2 DEF ReceiveInv
<1>8. QED
  BY <1>3, <1>4, <1>5, <1>6, <1>7 DEF Usb!Next

UsbTxQ == packet \o RingSeq(ring, USART_RX_DATA_SIZE, ptrIn, ptrOut)
UsbRxQ == SubSeq(rxBuf, rxPtr + 1, Len(rxBuf))

LEMMA UsbTxQFacts ==
  ASSUME UsbTypes
  PROVE  /\ RingSeq(ring, USART_RX_DATA_SIZE, ptrIn, ptrOut) \in Seq(Usb!Octets)
         /\ packet \in Seq(Usb!Octets) /\ UsbTxQ \in Seq(Usb!Octets)
         /\ Len(packet) \in 0 .. VIRTUAL_COM_PORT_DATA_SIZE
         /\ Len(UsbTxQ) = Len(packet) + Count(USART_RX_DATA_SIZE, ptrIn, ptrOut)
<1>1. IsRing(Usb!Octets, USART_RX_DATA_SIZE, ring, ptrIn, ptrOut)
  BY UsbAssumption DEF UsbTypes, IsRing
<1>2. /\ RingSeq(ring, USART_RX_DATA_SIZE, ptrIn, ptrOut) \in Seq(Usb!Octets)
      /\ Len(RingSeq(ring, USART_RX_DATA_SIZE, ptrIn, ptrOut)) =
           Count(USART_RX_DATA_SIZE, ptrIn, ptrOut)
  BY <1>1, RingIs DEF RingFacts
<1>3. packet \in Seq(Usb!Octets) /\ Len(packet) \in 0 .. VIRTUAL_COM_PORT_DATA_SIZE
  BY UsbAssumption, LenProperties DEF UsbTypes, Packets
<1>4. /\ UsbTxQ \in Seq(Usb!Octets)
      /\ Len(UsbTxQ) = Len(packet) + Len(RingSeq(ring, USART_RX_DATA_SIZE, ptrIn, ptrOut))
  BY <1>2, <1>3, ConcatProperties DEF UsbTxQ
<1>5. QED
  BY <1>2, <1>3, <1>4

LEMMA EmptyRing ==
  ASSUME NEW buf, NEW n, NEW h, NEW t, (h - t) % n = 0
  PROVE  RingSeq(buf, n, h, t) = <<>>
BY DEF RingSeq

LEMMA UsbTxStep ==
  ASSUME UsbBase, TransferInv, UsbBase', Usb!Next
  PROVE  \/ Usb!Overtaken \/ Usb!AtWrap
         \/ UsbTxQ' = UsbTxQ /\ UNCHANGED <<put, host>>
         \/ /\ UsbTxQ' = UsbTxQ \o <<put>>
            /\ Len(UsbTxQ) < USART_RX_DATA_SIZE + VIRTUAL_COM_PORT_DATA_SIZE
            /\ put' = (put + 1) % Usb!Circle /\ UNCHANGED host
         \/ /\ UsbTxQ = host' \o UsbTxQ' /\ host' # <<>>
            /\ host' \in Seq(Usb!Octets) /\ UsbTxQ' \in Seq(Usb!Octets) /\ UNCHANGED put
         \/ /\ UsbTxQ' = packet /\ Len(UsbTxQ) = Len(packet) + (USART_RX_DATA_SIZE - 1)
            /\ put' = (put + 1) % Usb!Circle /\ UNCHANGED host
<1> USE DEF Usb!toHost, Usb!fromHost
<1>1. UsbTypes /\ PointerInv /\ SendInv /\ UsbTypes'
  BY DEF UsbBase, TransferInv
<1>2. Count(USART_RX_DATA_SIZE, ptrIn, ptrOut) \in 0 .. USART_RX_DATA_SIZE - 1
  BY <1>1, UsbAssumption, CountIs DEF UsbTypes
<1> DEFINE s == RingSeq(ring, USART_RX_DATA_SIZE, ptrIn, ptrOut)
<1>3. CASE Usb!SendData
  <2>1. /\ ring' = [ring EXCEPT ![ptrIn] = put] /\ sender = "idle"
        /\ UNCHANGED <<ptrIn, ptrOut, packet, put, host>>
    BY <1>3 DEF Usb!SendData
  <2>2. ptrIn \in 0 .. USART_RX_DATA_SIZE - 1
    BY <1>1, <2>1, UsbAssumption DEF UsbTypes, PointerInv
  <2>3. ring' = With(ring, ptrIn, put)
    BY <2>1 DEF With
  <2>4. RingSeq(ring', USART_RX_DATA_SIZE, ptrIn, ptrOut) = s
    <3> HIDE <2>1
    <3>1. QED
      BY <1>1, <2>2, <2>3, UsbAssumption, RingSame DEF UsbTypes
  <2>5. UsbTxQ' = UsbTxQ
    BY <2>1, <2>4 DEF UsbTxQ
  <2>6. QED
    BY <2>1, <2>5
<1>4. CASE Usb!SendDataIn
  <2>1. /\ sender = "in" /\ ptrIn' = ptrIn + 1 /\ put' = (put + 1) % Usb!Circle
        /\ UNCHANGED <<ring, ptrOut, packet, host>>
    BY <1>4 DEF Usb!SendDataIn, Usb!NextOctet
  <2>2. ptrIn \in 0 .. USART_RX_DATA_SIZE - 1 /\ ring[ptrIn] = put
    BY <1>1, <2>1, UsbAssumption DEF UsbTypes, PointerInv, SendInv
  <2>3. CASE Count(USART_RX_DATA_SIZE, ptrIn, ptrOut) < USART_RX_DATA_SIZE - 1
    <3>1. RingSeq(ring, USART_RX_DATA_SIZE, ptrIn + 1, ptrOut) = s \o <<ring[ptrIn]>>
      <4>1. /\ ring \in [0 .. USART_RX_DATA_SIZE - 1 -> Usb!Octets]
            /\ ptrOut \in 0 .. USART_RX_DATA_SIZE
        BY <1>1 DEF UsbTypes
      <4>2. QED
        BY <2>2, <2>3, <4>1, UsbAssumption, RingPut
    <3>2. UsbTxQ' = packet \o (s \o <<put>>)
      BY <2>1, <2>2, <3>1 DEF UsbTxQ
    <3>3. s \in Seq(Usb!Octets) /\ packet \in Seq(Usb!Octets) /\ <<put>> \in Seq(Usb!Octets)
      BY <1>1, UsbTxQFacts, SeqOfOne DEF UsbTypes
    <3>4. packet \o (s \o <<put>>) = (packet \o s) \o <<put>>
      BY <3>3, ConcatAssociative
    <3>5. UsbTxQ = packet \o s
      BY DEF UsbTxQ
    <3>6. Len(UsbTxQ) < USART_RX_DATA_SIZE + VIRTUAL_COM_PORT_DATA_SIZE
      <4>1. /\ Len(UsbTxQ) = Len(packet) + Count(USART_RX_DATA_SIZE, ptrIn, ptrOut)
            /\ Len(packet) \in 0 .. VIRTUAL_COM_PORT_DATA_SIZE
        BY <1>1, UsbTxQFacts
      <4>2. \A l \in 0 .. VIRTUAL_COM_PORT_DATA_SIZE, c \in 0 .. USART_RX_DATA_SIZE - 1 :
              l + c < USART_RX_DATA_SIZE + VIRTUAL_COM_PORT_DATA_SIZE
        BY UsbAssumption
      <4>3. QED
        BY <1>2, <4>1, <4>2, Zenon
    <3> HIDE DEF s
    <3>7. UsbTxQ' = UsbTxQ \o <<put>>
      BY <3>2, <3>4, <3>5
    <3>8. QED
      BY <2>1, <3>6, <3>7
  <2>4. CASE ~ (Count(USART_RX_DATA_SIZE, ptrIn, ptrOut) < USART_RX_DATA_SIZE - 1)
    <3>1. /\ Count(USART_RX_DATA_SIZE, ptrIn, ptrOut) = USART_RX_DATA_SIZE - 1
          /\ Count(USART_RX_DATA_SIZE, ptrIn', ptrOut') = 0
      BY <1>1, <2>1, <2>2, <2>4, UsbAssumption, CountMoves DEF UsbTypes
    <3>2. Len(UsbTxQ) = Len(packet) + (USART_RX_DATA_SIZE - 1)
      BY <1>1, <3>1, UsbTxQFacts
    <3>3. RingSeq(ring', USART_RX_DATA_SIZE, ptrIn', ptrOut') = <<>>
      <4>1. (ptrIn' - ptrOut') % USART_RX_DATA_SIZE = 0
        BY <1>1, <3>1, UsbAssumption, CountIs DEF UsbTypes
      <4>2. QED
        BY <4>1, EmptyRing
    <3>4. UsbTxQ' = packet
      <4>1. packet \in Seq(Usb!Octets)
        BY <1>1, UsbTxQFacts
      <4>2. UsbTxQ' = packet \o <<>>
        BY <2>1, <3>3 DEF UsbTxQ
      <4>3. QED
        BY <4>1, <4>2, ConcatEmptySeq
    <3>5. QED
      BY <2>1, <3>2, <3>4
  <2>5. QED
    BY <2>3, <2>4
<1>5. CASE Usb!SendDataWrap
  <2>1. /\ ptrIn' = IF ptrIn = USART_RX_DATA_SIZE THEN 0 ELSE ptrIn
        /\ UNCHANGED <<ring, ptrOut, packet, put, host>>
    BY <1>5 DEF Usb!SendDataWrap
  <2>2. RingSeq(ring, USART_RX_DATA_SIZE, ptrIn', ptrOut) = s
    <3>1. CASE ptrIn = USART_RX_DATA_SIZE
      BY <1>1, <2>1, <3>1, UsbAssumption, RingWraps DEF UsbTypes
    <3>2. CASE ptrIn # USART_RX_DATA_SIZE
      BY <2>1, <3>2
    <3>3. QED
      BY <3>1, <3>2
  <2>3. UsbTxQ' = UsbTxQ
    BY <2>1, <2>2 DEF UsbTxQ
  <2>4. QED
    BY <2>1, <2>3
<1>6. CASE Usb!Handle_USBAsynchXfer /\ ~ Usb!AtWrap
  <2>1. UNCHANGED <<ring, ptrIn, put, host>>
    BY <1>6 DEF Usb!Handle_USBAsynchXfer
  <2>2. /\ packet = <<>>
        /\ \E ptr \in 0 .. USART_RX_DATA_SIZE - 1 :
             /\ RingSeq(ring, USART_RX_DATA_SIZE, ptrIn, ptr) = s
             /\ \/ ptrOut' = ptr /\ UNCHANGED <<txState, packet, rxLength>>
                \/ \E length \in 1 .. Count(USART_RX_DATA_SIZE, ptrIn, ptr) :
                     /\ ptr + length <= USART_RX_DATA_SIZE
                     /\ txState' = 1 /\ Usb!TakePacket(ptr, length)
    <3>1. /\ packet = <<>> /\ rxLength = 0 /\ txState = 0
          /\ \E ptr \in 0 .. USART_RX_DATA_SIZE - 1 :
             /\ ptrIn = USART_RX_DATA_SIZE => ptr # 0
             /\ Count(USART_RX_DATA_SIZE, ptrIn, ptr) = Count(USART_RX_DATA_SIZE, ptrIn, ptrOut)
             /\ RingSeq(ring, USART_RX_DATA_SIZE, ptrIn, ptr) =
                  RingSeq(ring, USART_RX_DATA_SIZE, ptrIn, ptrOut)
             /\ \/ ptrOut' = ptr /\ UNCHANGED <<txState, packet, rxLength>>
                \/ \E length \in 1 .. Count(USART_RX_DATA_SIZE, ptrIn, ptr) :
                     /\ ptr + length <= USART_RX_DATA_SIZE
                     /\ txState' = 1 /\ Usb!TakePacket(ptr, length)
      BY <1>6, UsbStarts
    <3>2. QED
      BY <3>1, Zenon
  <2>3. PICK ptr \in 0 .. USART_RX_DATA_SIZE - 1 :
             /\ RingSeq(ring, USART_RX_DATA_SIZE, ptrIn, ptr) = s
             /\ \/ ptrOut' = ptr /\ UNCHANGED <<txState, packet, rxLength>>
                \/ \E length \in 1 .. Count(USART_RX_DATA_SIZE, ptrIn, ptr) :
                     /\ ptr + length <= USART_RX_DATA_SIZE
                     /\ txState' = 1 /\ Usb!TakePacket(ptr, length)
    BY <2>2, Zenon
  <2>4. CASE ptrOut' = ptr /\ UNCHANGED <<txState, packet, rxLength>>
    <3>1. UsbTxQ' = UsbTxQ
      BY <2>1, <2>3, <2>4 DEF UsbTxQ
    <3>2. QED
      BY <2>1, <3>1
  <2>5. ASSUME NEW length \in 1 .. Count(USART_RX_DATA_SIZE, ptrIn, ptr),
               ptr + length <= USART_RX_DATA_SIZE, Usb!TakePacket(ptr, length)
        PROVE  UsbTxQ' = UsbTxQ
    <3>1. packet' \o RingSeq(ring, USART_RX_DATA_SIZE, ptrIn, ptrOut') =
            RingSeq(ring, USART_RX_DATA_SIZE, ptrIn, ptr)
      <4>1. UNCHANGED <<ring, ptrIn>>
        BY <2>1
      <4>2. QED
        BY <1>1, <2>5, <4>1, UsbTakes
    <3>2. UsbTxQ' = s
      BY <2>1, <2>3, <3>1 DEF UsbTxQ
    <3>3. <<>> \o s = s
      BY <1>1, UsbTxQFacts, ConcatEmptySeq
    <3>4. UsbTxQ = <<>> \o s
      BY <2>2 DEF UsbTxQ
    <3>5. QED
      BY <3>2, <3>3, <3>4
  <2>6. QED
    BY <2>1, <2>3, <2>4, <2>5
<1>7. CASE Usb!EP1_IN_Callback /\ ~ Usb!Overtaken
  <2>1. UNCHANGED <<ring, ptrIn, put>> /\ txState = 1 /\ host' = packet
    BY <1>7 DEF Usb!EP1_IN_Callback
  <2>2. UsbTxQ' = s
    <3>1. CASE rxLength = 0
      <4>1. packet' = <<>> /\ ptrOut' = ptrOut
        BY <1>7, <3>1 DEF Usb!EP1_IN_Callback
      <4>2. UsbTxQ' = <<>> \o s
        BY <2>1, <4>1 DEF UsbTxQ
      <4>3. QED
        BY <1>1, <4>2, UsbTxQFacts, ConcatEmptySeq
    <3>2. CASE rxLength # 0
      <4>1. Usb!TakePacket(ptrOut, rxLength)
        BY <1>7, <3>2 DEF Usb!EP1_IN_Callback
      <4>2. /\ rxLength \in 1 .. Count(USART_RX_DATA_SIZE, ptrIn, ptrOut)
            /\ ptrOut \in 0 .. USART_RX_DATA_SIZE - 1 /\ ptrOut + rxLength <= USART_RX_DATA_SIZE
        <5>1. ~ (rxLength > Count(USART_RX_DATA_SIZE, ptrIn, ptrOut))
          BY <1>1, <1>7, UsbAssumption, CountIs DEF UsbTypes, Usb!Overtaken, Usb!Waiting
        <5>2. QED
          BY <1>1, <1>2, <3>2, <5>1, UsbAssumption DEF UsbTypes
      <4>3. UNCHANGED <<ring, ptrIn>>
        BY <2>1
      <4>4. packet' \o RingSeq(ring, USART_RX_DATA_SIZE, ptrIn, ptrOut') = s
        BY <1>1, <4>1, <4>2, <4>3, UsbTakes
      <4>5. QED
        BY <2>1, <4>4 DEF UsbTxQ
    <3>3. QED
      BY <3>1, <3>2
  <2>3. UsbTxQ = host' \o UsbTxQ'
    BY <2>1, <2>2 DEF UsbTxQ
  <2>4. /\ packet # <<>> /\ packet \in Seq(Usb!Octets)
        /\ s \in Seq(Usb!Octets)
    BY <1>1, <2>1, UsbTxQFacts DEF SendInv
  <2> HIDE DEF s
  <2>5. QED
    BY <2>1, <2>2, <2>3, <2>4
<1>8. CASE Usb!EP3_OUT_Callback \/ Usb!ReceiveData \/ Usb!ReceiveLast \/ Usb!ReceiveLastDone
  BY <1>8
  DEF Usb!EP3_OUT_Callback, Usb!ReceiveData, Usb!ReceiveLast, Usb!ReceiveLastDone, UsbTxQ
<1>9. QED
  BY <1>3, <1>4, <1>5, <1>6, <1>7, <1>8 DEF Usb!Next

LEMMA UsbRxQType == UsbTypes => UsbRxQ \in Seq(Usb!Octets)
<1> SUFFICES ASSUME UsbTypes PROVE UsbRxQ \in Seq(Usb!Octets)
  OBVIOUS
<1>1. rxBuf \in Seq(Usb!Octets) /\ rxPtr \in Nat /\ Len(rxBuf) \in Nat
  BY LenProperties DEF UsbTypes, Packets
<1>2. \A i \in rxPtr + 1 .. Len(rxBuf) : rxBuf[i] \in Usb!Octets
  <2>1. \A i \in rxPtr + 1 .. Len(rxBuf) : i \in 1 .. Len(rxBuf)
    BY <1>1
  <2>2. QED
    BY <1>1, <2>1, ElementOfSeq
<1>3. rxPtr + 1 \in Int /\ Len(rxBuf) \in Int
  BY <1>1
<1>4. QED
  BY <1>2, <1>3, SubSeqProperties DEF UsbRxQ

LEMMA UsbRxStep ==
  ASSUME UsbBase, TransferInv, UsbBase', Usb!Next
  PROVE  \/ Usb!PastEnd
         \/ UsbRxQ' = UsbRxQ /\ UNCHANGED <<offered, char>>
         \/ \E n \in 1 .. VIRTUAL_COM_PORT_DATA_SIZE :
              /\ UsbRxQ = <<>> \/ Len(UsbRxQ) = 1
              /\ UsbRxQ' = [k \in 1 .. n |-> (offered + k - 1) % Usb!Circle]
              /\ offered' = (offered + n) % Usb!Circle /\ UNCHANGED char
         \/ /\ UsbRxQ = char' \o UsbRxQ' /\ char' # <<>>
            /\ char' \in Seq(Usb!Octets) /\ UsbRxQ' \in Seq(Usb!Octets) /\ UNCHANGED offered
<1> USE DEF Usb!toHost, Usb!fromHost
<1>1. UsbTypes /\ PointerInv /\ ReceiveInv /\ UsbTypes'
  BY DEF UsbBase, TransferInv
<1>2. /\ rxBuf \in Seq(Usb!Octets) /\ rxPtr \in Nat
      /\ Len(rxBuf) \in 0 .. VIRTUAL_COM_PORT_DATA_SIZE /\ Len(rxBuf) \in Nat
  BY <1>1, UsbAssumption, LenProperties DEF UsbTypes, Packets
<1>3. CASE \/ Usb!SendData \/ Usb!SendDataIn \/ Usb!SendDataWrap
           \/ Usb!Handle_USBAsynchXfer \/ Usb!EP1_IN_Callback \/ Usb!ReceiveLast
  <2>1. UNCHANGED <<rxBuf, rxPtr, offered, char>>
    BY <1>3
    DEF Usb!SendData, Usb!SendDataIn, Usb!SendDataWrap, Usb!Handle_USBAsynchXfer,
        Usb!EP1_IN_Callback, Usb!ReceiveLast
  <2>2. QED
    BY <2>1 DEF UsbRxQ
<1>4. CASE Usb!EP3_OUT_Callback
  <2>1. /\ ready /\ rxPtr' = 0 /\ UNCHANGED char
        /\ \E n \in 1 .. VIRTUAL_COM_PORT_DATA_SIZE :
             /\ rxBuf' = [k \in 1 .. n |-> (offered + k - 1) % Usb!Circle]
             /\ offered' = (offered + n) % Usb!Circle
    BY <1>4 DEF Usb!EP3_OUT_Callback
  <2>2. UsbRxQ = <<>> \/ Len(UsbRxQ) = 1
    <3>1. CASE sender # "last"
      <4>1. rxPtr = Len(rxBuf)
        BY <1>1, <2>1, <3>1 DEF ReceiveInv
      <4>2. rxPtr + 1 \in Int /\ Len(rxBuf) \in Int /\ Len(rxBuf) < rxPtr + 1
        BY <1>2, <4>1
      <4>3. QED
        BY <4>2, SubSeqEmpty DEF UsbRxQ
    <3>2. CASE sender = "last"
      <4>1. rxPtr = Len(rxBuf) - 1
        BY <1>1, <2>1, <3>2 DEF ReceiveInv
      <4>2. rxPtr + 1 = Len(rxBuf) /\ Len(rxBuf) \in 1 .. Len(rxBuf)
        BY <1>2, <4>1
      <4>3. UsbRxQ = SubSeq(rxBuf, Len(rxBuf), Len(rxBuf))
        BY <4>2 DEF UsbRxQ
      <4>4. Len(SubSeq(rxBuf, Len(rxBuf), Len(rxBuf))) = 1
        BY <1>2, <4>2, SubSeqProperties
      <4>5. QED
        BY <4>3, <4>4
    <3>3. QED
      BY <3>1, <3>2
  <2>3. UsbRxQ' = rxBuf'
    <3>1. rxBuf' \in Seq(Usb!Octets)
      BY <1>1 DEF UsbTypes, Packets
    <3>2. UsbRxQ' = SubSeq(rxBuf', 1, Len(rxBuf'))
      BY <2>1 DEF UsbRxQ
    <3>3. QED
      BY <3>1, <3>2, SubSeqFull
  <2>4. QED
    BY <2>1, <2>2, <2>3
<1>5. ASSUME rxPtr < Len(rxBuf), char' = <<rxBuf[rxPtr + 1]>>, rxPtr' = rxPtr + 1,
             UNCHANGED <<rxBuf, offered>>
      PROVE  /\ UsbRxQ = char' \o UsbRxQ' /\ char' # <<>>
             /\ char' \in Seq(Usb!Octets) /\ UsbRxQ' \in Seq(Usb!Octets) /\ UNCHANGED offered
  <2>1. rxPtr + 1 \in 1 .. Len(rxBuf) /\ Len(rxBuf) \in rxPtr + 1 .. Len(rxBuf)
    BY <1>2, <1>5
  <2>2. UsbRxQ = <<rxBuf[rxPtr + 1]>> \o SubSeq(rxBuf, rxPtr + 1 + 1, Len(rxBuf))
    BY <1>2, <2>1, SubSeqRecursiveFirst DEF UsbRxQ
  <2>3. UsbRxQ' = SubSeq(rxBuf, rxPtr + 1 + 1, Len(rxBuf))
    BY <1>5 DEF UsbRxQ
  <2>4. rxBuf[rxPtr + 1] \in Usb!Octets
    BY <1>2, <2>1, ElementOfSeq
  <2>5. char' \in Seq(Usb!Octets) /\ char' # <<>>
    BY <1>5, <2>4, SeqOfOne
  <2>6. UsbRxQ' \in Seq(Usb!Octets)
    <3>1. (UsbTypes => UsbRxQ \in Seq(Usb!Octets))'
      BY UsbRxQType, PTL
    <3>2. QED
      BY <1>1, <3>1
  <2>7. QED
    BY <1>5, <2>2, <2>3, <2>5, <2>6
<1>6. rxPtr < Len(rxBuf) => Usb!NextPtr = rxPtr + 1
  <2>1. rxPtr < Len(rxBuf) => rxPtr + 1 <= VIRTUAL_COM_PORT_DATA_SIZE
    BY <1>2, UsbAssumption
  <2>2. QED
    BY <1>2, <2>1, SmallPtr
<1>7. CASE (Usb!ReceiveData /\ ~ Usb!PastEnd) \/ Usb!ReceiveLastDone
  <2>1. /\ rxPtr < Len(rxBuf) /\ char' = <<rxBuf[rxPtr + 1]>> /\ rxPtr' = Usb!NextPtr
        /\ UNCHANGED <<rxBuf, offered>>
    <3>1. CASE Usb!ReceiveData /\ ~ Usb!PastEnd
      <4>1. rxPtr < Len(rxBuf)
        BY <1>2, <3>1 DEF Usb!ReceiveData, Usb!PastEnd
      <4>2. QED
        BY <3>1, <4>1 DEF Usb!ReceiveData
    <3>2. CASE Usb!ReceiveLastDone
      BY <1>1, <3>2 DEF Usb!ReceiveLastDone, PointerInv
    <3>3. QED
      BY <1>7, <3>1, <3>2
  <2>2. QED
    BY <1>5, <1>6, <2>1
<1>8. QED
  BY <1>3, <1>4, <1>7 DEF Usb!Next

LEMMA UsbTxIs == UsbTxQ = packet \o Usb!Queued
BY DEF UsbTxQ, Usb!Queued, Usb!Waiting, RingSeq

LEMMA UsbTxIsNext == UsbTxQ' = (packet \o Usb!Queued)'
BY DEF UsbTxQ, Usb!Queued, Usb!Waiting, RingSeq

UsbInv == UsbBase /\ TransferInv

LEMMA UsbStep == UsbInv /\ [Usb!Next]_usb => UsbInv'
<1>1. UsbInv /\ UNCHANGED usb => UsbInv'
  <2>1. UsbInv /\ UNCHANGED usb => UsbTypes'
    BY DEF UsbInv, UsbBase, UsbTypes, usb
  <2>2. UsbInv /\ UNCHANGED usb => PointerInv' /\ SendInv' /\ ReceiveInv'
    BY DEF UsbInv, UsbBase, PointerInv, TransferInv, SendInv, ReceiveInv, usb
  <2>3. QED
    BY <2>1, <2>2 DEF UsbInv, UsbBase, TransferInv
<1>2. QED
  BY <1>1, UsbBaseStep, UsbSendStep, UsbReceiveStep DEF UsbInv, TransferInv

LEMMA FirstPart ==
  ASSUME NEW S, NEW u \in Seq(S), NEW w \in Seq(S)
  PROVE  SubSeq(u \o w, 1, Len(u)) = u
<1>1. CASE u = <<>>
  BY <1>1, SubSeqEmpty
<1>2. CASE u # <<>>
  BY <1>2, FirstOut
<1>3. QED
  BY <1>1, <1>2

LEMMA UsbTxImplements ==
  UsbInv /\ UsbInv' /\ [Usb!Next]_usb =>
    [Usb!Overtaken \/ Usb!AtWrap \/ Usb!ToHost!Next]_(Usb!ToHost!queue)
<1> DEFINE Goal == [Usb!Overtaken \/ Usb!AtWrap \/ Usb!ToHost!Next]_(Usb!ToHost!queue)
<1> SUFFICES ASSUME UsbInv, UsbInv', [Usb!Next]_usb PROVE Goal
  OBVIOUS
<1>1. /\ UsbTxQ = packet \o Usb!Queued
      /\ UsbTxQ' = (packet \o Usb!Queued)'
  BY UsbTxIs, UsbTxIsNext
<1>2. UsbTxQ \in Seq(Usb!Octets) /\ put \in 0 .. Usb!Circle - 1
  BY UsbTxQFacts DEF UsbInv, UsbBase, UsbTypes, Usb!Octets
<1>3. CASE UsbTxQ' = UsbTxQ /\ UNCHANGED <<put, host>>
  BY <1>1, <1>3 DEF Usb!ToHost!queue
<1>4. CASE /\ UsbTxQ' = UsbTxQ \o <<put>>
           /\ Len(UsbTxQ) < USART_RX_DATA_SIZE + VIRTUAL_COM_PORT_DATA_SIZE
           /\ put' = (put + 1) % Usb!Circle /\ UNCHANGED host
  <2>1. [k \in 1 .. 1 |-> (put + k - 1) % Usb!Circle] = <<put>>
    <3>1. Usb!Circle \in Nat /\ Usb!Circle > 0
      BY UsbAssumption DEF Usb!Circle
    <3>2. QED
      BY <1>2, <3>1, OnePut
  <2>2. 1 \in 1 .. (USART_RX_DATA_SIZE + VIRTUAL_COM_PORT_DATA_SIZE) - Len(UsbTxQ)
    <3>1. Len(UsbTxQ) \in Nat
      BY <1>2, LenProperties
    <3>2. QED
      BY <1>4, <3>1, UsbAssumption
  <2>3. /\ UsbTxQ' = UsbTxQ \o [k \in 1 .. 1 |-> (put + k - 1) % Usb!Circle]
        /\ put' = (put + 1) % Usb!Circle /\ UNCHANGED host
    BY <1>4, <2>1
  <2>4. Usb!ToHost!Put
    BY <1>1, <2>2, <2>3, Zenon DEF Usb!ToHost!Put, Usb!ToHost!Comes
  <2>5. QED
    BY <2>4 DEF Usb!ToHost!Next
<1>5. CASE /\ UsbTxQ = host' \o UsbTxQ' /\ host' # <<>>
           /\ host' \in Seq(Usb!Octets) /\ UsbTxQ' \in Seq(Usb!Octets) /\ UNCHANGED put
  <2>1. /\ Len(host') \in 1 .. Len(host' \o UsbTxQ')
        /\ SubSeq(host' \o UsbTxQ', 1, Len(host')) = host'
        /\ SubSeq(host' \o UsbTxQ', Len(host') + 1, Len(host' \o UsbTxQ')) = UsbTxQ'
    BY <1>5, FirstOut
  <2>2. /\ Len(host') \in 1 .. Len(UsbTxQ) /\ host' = SubSeq(UsbTxQ, 1, Len(host'))
        /\ UsbTxQ' = SubSeq(UsbTxQ, Len(host') + 1, Len(UsbTxQ)) /\ UNCHANGED put
    BY <1>5, <2>1, Zenon
  <2>3. Usb!ToHost!Get
    BY <1>1, <2>2, Zenon DEF Usb!ToHost!Get
  <2>4. QED
    BY <2>3 DEF Usb!ToHost!Next
\* The writer passes the reader.
<1>6. CASE /\ UsbTxQ' = packet /\ Len(UsbTxQ) = Len(packet) + (USART_RX_DATA_SIZE - 1)
           /\ put' = (put + 1) % Usb!Circle /\ UNCHANGED host
  <2>1. /\ packet \in Seq(Usb!Octets) /\ Len(packet) \in Nat
        /\ RingSeq(ring, USART_RX_DATA_SIZE, ptrIn, ptrOut) \in Seq(Usb!Octets)
    BY UsbTxQFacts DEF UsbInv, UsbBase
  <2>2. /\ Len(UsbTxQ) >= USART_RX_DATA_SIZE - 1
        /\ Len(UsbTxQ) - (USART_RX_DATA_SIZE - 1) = Len(packet)
    BY <1>6, <2>1, UsbAssumption
  <2>3. SubSeq(UsbTxQ, 1, Len(packet)) = packet
    BY <2>1, FirstPart DEF UsbTxQ
  <2>4. UsbTxQ' = SubSeq(UsbTxQ, 1, Len(UsbTxQ) - (USART_RX_DATA_SIZE - 1))
    BY <1>6, <2>2, <2>3
  <2>5. Usb!ToHost!LoseRing
    <3>1. "ring" \in {"ring"}
      OBVIOUS
    <3>2. QED
      BY <1>1, <1>6, <2>2, <2>4, <3>1, Zenon DEF Usb!ToHost!LoseRing
  <2>6. QED
    BY <2>5 DEF Usb!ToHost!Next
<1>7. CASE UNCHANGED usb
  BY <1>7 DEF usb, Usb!Queued, Usb!Waiting, Usb!ToHost!queue
<1>8. CASE Usb!Next
  <2>1. UsbBase /\ TransferInv /\ UsbBase'
    BY DEF UsbInv
  <2>2. Usb!Overtaken \/ Usb!AtWrap => Goal
    OBVIOUS
  <2> HIDE DEF Goal
  <2>3. QED
    BY <1>3, <1>4, <1>5, <1>6, <1>8, <2>1, <2>2, UsbTxStep, Zenon
<1>9. QED
  BY <1>7, <1>8

LEMMA UsbRxImplements ==
  UsbInv /\ UsbInv' /\ [Usb!Next]_usb =>
    [Usb!PastEnd \/ Usb!FromHost!Next]_(Usb!FromHost!queue)
<1> DEFINE Goal == [Usb!PastEnd \/ Usb!FromHost!Next]_(Usb!FromHost!queue)
<1> SUFFICES ASSUME UsbInv, UsbInv', [Usb!Next]_usb PROVE Goal
  OBVIOUS
<1>1. /\ UsbRxQ = SubSeq(rxBuf, rxPtr + 1, Len(rxBuf))
      /\ UsbRxQ' = SubSeq(rxBuf, rxPtr + 1, Len(rxBuf))'
  BY DEF UsbRxQ
<1>2. CASE UsbRxQ' = UsbRxQ /\ UNCHANGED <<offered, char>>
  BY <1>1, <1>2 DEF Usb!FromHost!queue
<1>3. ASSUME NEW n \in 1 .. VIRTUAL_COM_PORT_DATA_SIZE,
             UsbRxQ = <<>> \/ Len(UsbRxQ) = 1,
             UsbRxQ' = [k \in 1 .. n |-> (offered + k - 1) % Usb!Circle],
             offered' = (offered + n) % Usb!Circle, UNCHANGED char
      PROVE  Goal
  <2>1. CASE UsbRxQ = <<>>
    <3>1. VIRTUAL_COM_PORT_DATA_SIZE - Len(<<>>) = VIRTUAL_COM_PORT_DATA_SIZE
      BY UsbAssumption
    <3>2. n \in 1 .. VIRTUAL_COM_PORT_DATA_SIZE - Len(UsbRxQ)
      BY <1>3, <2>1, <3>1
    <3>3. UsbRxQ' = <<>> \o UsbRxQ'
      <4>1. (UsbTypes => UsbRxQ \in Seq(Usb!Octets))'
        BY UsbRxQType, PTL
      <4>2. UsbRxQ' \in Seq(Usb!Octets)
        BY <4>1 DEF UsbInv, UsbBase
      <4>3. QED
        BY <4>2, ConcatEmptySeq
    <3>4. UsbRxQ' = UsbRxQ \o [k \in 1 .. n |-> (offered + k - 1) % Usb!Circle]
      BY <1>3, <2>1, <3>3, Zenon
    <3>5. Usb!FromHost!Put
      BY <1>1, <1>3, <3>2, <3>4, Zenon DEF Usb!FromHost!Put, Usb!FromHost!Comes
    <3>6. QED
      BY <3>5 DEF Usb!FromHost!Next
  <2>2. CASE Len(UsbRxQ) = 1
    <3>1. "last" \in {"last"}
      OBVIOUS
    <3>2. Usb!FromHost!LoseLast
      BY <1>1, <1>3, <2>2, <3>1, Zenon DEF Usb!FromHost!LoseLast, Usb!FromHost!Comes
    <3>3. QED
      BY <3>2 DEF Usb!FromHost!Next
  <2>3. QED
    BY <1>3, <2>1, <2>2
<1>4. CASE /\ UsbRxQ = char' \o UsbRxQ' /\ char' # <<>>
           /\ char' \in Seq(Usb!Octets) /\ UsbRxQ' \in Seq(Usb!Octets) /\ UNCHANGED offered
  <2>1. /\ Len(char') \in 1 .. Len(char' \o UsbRxQ')
        /\ SubSeq(char' \o UsbRxQ', 1, Len(char')) = char'
        /\ SubSeq(char' \o UsbRxQ', Len(char') + 1, Len(char' \o UsbRxQ')) = UsbRxQ'
    BY <1>4, FirstOut
  <2>2. /\ Len(char') \in 1 .. Len(UsbRxQ) /\ char' = SubSeq(UsbRxQ, 1, Len(char'))
        /\ UsbRxQ' = SubSeq(UsbRxQ, Len(char') + 1, Len(UsbRxQ)) /\ UNCHANGED offered
    BY <1>4, <2>1, Zenon
  <2>3. Usb!FromHost!Get
    BY <1>1, <2>2, Zenon DEF Usb!FromHost!Get
  <2>4. QED
    BY <2>3 DEF Usb!FromHost!Next
<1>5. CASE UNCHANGED usb
  BY <1>5 DEF usb, Usb!FromHost!queue
<1>6. CASE Usb!Next
  <2>1. UsbBase /\ TransferInv /\ UsbBase'
    BY DEF UsbInv
  <2>2. Usb!PastEnd => Goal
    OBVIOUS
  <2> HIDE DEF Goal
  <2>3. QED
    BY <1>2, <1>3, <1>4, <1>6, <2>1, <2>2, UsbRxStep, Zenon
<1>7. QED
  BY <1>5, <1>6

LEMMA UsbQueuesEmpty ==
  Usb!Init => /\ packet \o Usb!Queued = <<>> /\ put = 0
              /\ SubSeq(rxBuf, rxPtr + 1, Len(rxBuf)) = <<>> /\ offered = 0
<1> SUFFICES ASSUME Usb!Init
             PROVE  /\ packet \o Usb!Queued = <<>> /\ put = 0
                    /\ SubSeq(rxBuf, rxPtr + 1, Len(rxBuf)) = <<>> /\ offered = 0
  OBVIOUS
<1>1. UsbTypes
  BY UsbInit DEF UsbBase
<1>2. /\ ptrIn = 0 /\ ptrOut = 0 /\ packet = <<>> /\ rxBuf = <<>> /\ rxPtr = 0
      /\ put = 0 /\ offered = 0
  BY DEF Usb!Init
<1>3. Count(USART_RX_DATA_SIZE, 0, 0) = 0 /\ Len(<<>>) = 0
  BY UsbAssumption DEF Count
<1>4. /\ UsbTxQ \in Seq(Usb!Octets)
      /\ Len(UsbTxQ) = Len(packet) + Count(USART_RX_DATA_SIZE, ptrIn, ptrOut)
  BY <1>1, UsbTxQFacts
<1>5. Len(UsbTxQ) = 0
  BY <1>2, <1>3, <1>4
<1>6. UsbTxQ = <<>>
  BY <1>4, <1>5, EmptySeq
<1>7. SubSeq(<<>>, 1, 0) = <<>>
  BY SubSeqEmpty
<1>8. QED
  BY <1>2, <1>3, <1>6, <1>7, UsbTxIs

\* The serial port over USB does so too, with a writer that never waits, pointers that pass
\* the end of the ring for a moment and packets that come one upon the other, but for the
\* rings that are overtaken, the byte that is superseded, and what happens in the states
\* Overtaken, AtWrap and PastEnd.
THEOREM UsbIsQueue == Usb!Init /\ [][Usb!Next]_usb => Usb!IsQueue
<1>1. Usb!Init => UsbInv
  BY UsbInit DEF UsbInv
<1>2. UsbInv /\ [Usb!Next]_usb => UsbInv'
  BY UsbStep
<1>3. UsbInv /\ UsbInv' /\ [Usb!Next]_usb =>
        [Usb!Overtaken \/ Usb!AtWrap \/ Usb!ToHost!Next]_(Usb!ToHost!queue)
  BY UsbTxImplements
<1>4. UsbInv /\ UsbInv' /\ [Usb!Next]_usb =>
        [Usb!PastEnd \/ Usb!FromHost!Next]_(Usb!FromHost!queue)
  BY UsbRxImplements
<1>5. Usb!Init => Usb!ToHost!Init /\ Usb!FromHost!Init
  BY UsbQueuesEmpty DEF Usb!ToHost!Init, Usb!FromHost!Init
<1>6. QED
  BY <1>1, <1>2, <1>3, <1>4, <1>5, PTL DEF Usb!IsQueue

(***************************************************************************)
(* MCDeviceLibraries                                                       *)
(***************************************************************************)

\* A step is one of one library, and leaves the variables of the others alone.
LEMMA OneLibrary ==
  [Next]_vars => /\ [Timer!Next]_timer /\ [Events!Next]_events
                 /\ [Usart!Next]_usart /\ [Usb!Next]_usb
BY DEF Next, vars

LEMMA TimerStutter ==
  UNCHANGED timer => (TimerInv => TimerInv') /\ (Timer!TypeOK => Timer!TypeOK')
BY DEF timer, TimerInv, Timer!TypeOK, CallingInv, EmptyInv, CountInv, LastInv, Pending

LEMMA EventStutter == EventInv /\ UNCHANGED events => EventInv'
BY DEF events, EventInv, Events!TypeOK, AttemptInv, SentWithin, Events!AtMostFour

LEMMA UsartStutter == UsartInv /\ UNCHANGED usart => UsartInv'
BY DEF UsartInv, WriterInv, Usart!TypeOK, usart

\* Callbacks get the calls their timers were set for, at any number of timers, delays and
\* runs; the callback of a last run that deletes its own timer is the known exception.
THEOREM TimersAlwaysKept ==
  ASSUME ~ Recycles
  PROVE  Spec => []TimersKept
<1>1. Init => TimerInv
  BY TimerInit DEF Init
<1>2. TimerInv /\ [Next]_vars => TimerInv'
  BY OneLibrary, TimerStep, TimerStutter
<1>3. QED
  BY <1>1, <1>2, TimerSafe, PTL DEF Spec

\* The four events a second that Spark.publish allows are never exceeded, across every wrap
\* of its millisecond counter.
THEOREM NeverMoreThanFour == Spec => []AtMostFour
<1>1. Init => EventInv
  BY EventInit DEF Init
<1>2. EventInv /\ [Next]_vars => EventInv'
  BY OneLibrary, EventStep, EventStutter
<1>3. EventInv => AtMostFour
  BY DEF EventInv, AtMostFour
<1>4. QED
  BY <1>1, <1>2, <1>3, PTL DEF Spec

\* Every variable of the four libraries stays in its range: no index leaves its buffer but
\* USB_Rx_ptr, where a packet of one byte comes before the last one is read.
THEOREM TypeCorrect == Spec => []TypeOK
<1> DEFINE Types == Timer!TypeOK /\ EventInv /\ UsartInv /\ UsbBase
<1>1. Init => Types
  BY TimerInit, EventInit, UsartInit, UsbInit DEF Init, TimerInv
<1>2. Types /\ [Next]_vars => Types'
  <2>1. UsbBase /\ UNCHANGED usb => UsbBase'
    BY DEF UsbBase, UsbTypes, PointerInv, usb
  <2>2. QED
    BY <2>1, OneLibrary, TimerTypeStep, TimerStutter, EventStep, EventStutter, UsartStep,
       UsartStutter, UsbBaseStep
<1>3. Types => TypeOK
  BY UsbBaseType DEF TypeOK, EventInv, UsartInv
<1>4. QED
  BY <1>1, <1>2, <1>3, PTL DEF Spec

\* Both directions of both serial ports are the bounded queue BoundedQueue specifies, for
\* every size of the buffers, every sender and every host: no byte is doubled or out of
\* order, and what is lost is the newest, received with the buffer of the USART full, a
\* whole ring that was overtaken on its way to the host, or a byte that a packet has
\* superseded.  The states in which the USB code gives no such promise are in IsQueue.
THEOREM SerialImplementsQueue == Spec => SerialIsQueue
<1>1. Spec => Usart!Init /\ [][Usart!Next]_usart
  BY OneLibrary, PTL DEF Spec, Init
<1>2. Spec => Usb!Init /\ [][Usb!Next]_usb
  BY OneLibrary, PTL DEF Spec, Init
<1>3. QED
  BY <1>1, <1>2, UsbIsQueue, UsartIsQueue, PTL DEF SerialIsQueue
=============================================================================
