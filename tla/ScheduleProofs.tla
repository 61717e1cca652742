--------------------------- MODULE ScheduleProofs ---------------------------
(***************************************************************************)
(* What TLAPS proves of Schedule: the types, that completions hold, and    *)
(* that runs are on time, for every interval and every bound.              *)
(*                                                                         *)
(* A run that is not saved yet is not known to the next process.  Shape    *)
(* says when there is such a run, Budget what it costs: how far the runs   *)
(* and what a process would start from may exceed the completions while    *)
(* the cache holds a record, a removal or the remains of a failed patch.   *)
(***************************************************************************)
EXTENDS Schedule, TLAPS

Recorded(c) == c.kind = "record"

\* Where the count is limited and what is in the cache when.
Shape ==
  /\ limit = NoLimit <=> completions = NoLimit
  /\ Recorded(saved) => (limit = NoLimit <=> saved.completions = NoLimit)
  /\ phase \in {"down", "loading"} => cached = NoRecord /\ ~poisoned
  /\ cached = Removal => phase = "stopped"
  /\ Recorded(cached) =>
       /\ phase = "interval"
       /\ timer = Every
       /\ cached.completions = completions

\* The completions that a process would start from.
Remembered == IF saved = NoRecord THEN limit ELSE saved.completions

Allowed == limit + crashes + 2 * failures

\* A run that is only in the cache may be lost, which is one too many; undefined
\* operations in the cache take the next save with them.
Excess ==
  (IF Recorded(cached) THEN 1 ELSE 0) - (IF poisoned THEN 1 ELSE 0)

Budget ==
  limit # NoLimit /\ ~ended =>
    /\ phase \in {"delayed", "interval", "stopped"} => runs + completions <= Allowed
    /\ runs + Remembered <= Allowed + Excess

ScheduleInv == ScheduleTypeOK /\ Shape /\ Budget

\* startTime is over once the interval is set, and the next run is an interval
\* away from the last.
Punctual ==
  /\ phase = "interval" => untilStart = 0 /\ sinceRun + timer >= Every
  /\ phase = "delayed" => timer >= untilStart
  /\ Recorded(saved) \/ Recorded(cached) => untilStart = 0

-----------------------------------------------------------------------------
(* Records of the store.                                                   *)

\* The three kinds of operations tell themselves apart.
LEMMA Kinds ==
  /\ ~Recorded(NoRecord)
  /\ ~Recorded(Removal)
  /\ NoRecord # Removal
  /\ \A n, age : /\ Recorded(Record(n, age))
                 /\ Record(n, age).completions = n
                 /\ Record(n, age).age = age
                 /\ Record(n, age) # NoRecord
                 /\ Record(n, age) # Removal
BY DEF Recorded, NoRecord, Removal, Record

\* What a well-typed cache and resource may hold.
LEMMA Held ==
  ASSUME ScheduleTypeOK
  PROVE  /\ saved = NoRecord \/ Recorded(saved)
         /\ Recorded(saved) => saved.completions \in Counts /\ saved.age \in 0..Every
         /\ cached \in {NoRecord, Removal} \/ Recorded(cached)
         /\ Recorded(cached) => cached.completions \in Counts /\ cached.age = 0
BY Kinds DEF ScheduleTypeOK, Recorded, NoRecord, Removal

-----------------------------------------------------------------------------
(* Types                                                                   *)

LEMMA InitTyped == Init => ScheduleTypeOK
<1> SUFFICES ASSUME Init PROVE ScheduleTypeOK
  OBVIOUS
<1>1. limit \in Limits /\ untilStart \in Nat /\ completions \in Counts
  BY ScheduleAssumption DEF Init, Counts
<1>2. 0 \in 0..MaxRuns /\ 0 \in 0..MaxCrashes /\ 0 \in 0..MaxFailures /\ Every \in 0..Every
  BY ScheduleAssumption
<1>3. QED
  BY <1>1, <1>2 DEF Init, ScheduleTypeOK

\* What a patch does to the resource and to the history.
LEMMA EffectTyped ==
  ASSUME ScheduleTypeOK, Effect \/ NoEffect
  PROVE  /\ saved' \in {NoRecord} \cup [kind : {"record"}, completions : Counts, age : 0..Every]
         /\ ended' \in BOOLEAN
<1>1. CASE NoEffect
  BY <1>1 DEF NoEffect, ScheduleTypeOK
<1>2. CASE Effect
  <2>1. ended' \in BOOLEAN
    BY <1>2 DEF Effect, ScheduleTypeOK
  <2>2. 0 \in 0..Every
    BY ScheduleAssumption
  <2>3. Applied \in {NoRecord} \cup [kind : {"record"}, completions : Counts, age : 0..Every]
    BY <2>2 DEF Applied, ScheduleTypeOK
  <2>4. QED
    BY <1>2, <2>1, <2>3 DEF Effect
<1>3. QED
  BY <1>1, <1>2

\* Each step keeps the types.
LEMMA StepTyped == ScheduleTypeOK /\ [Next]_vars => ScheduleTypeOK'
<1> SUFFICES ASSUME ScheduleTypeOK, [Next]_vars PROVE ScheduleTypeOK'
  OBVIOUS
<1> USE ScheduleAssumption DEF ScheduleTypeOK, Counts, object, store, history, counters
<1>1. CASE Load
  BY <1>1, Held, Kinds DEF Load
<1>2. CASE DelayOver
  BY <1>2 DEF DelayOver
<1>3. CASE Run
  BY <1>3 DEF Run, Ran, Fires, Left, Counted, Record
<1>4. CASE Stop
  BY <1>4 DEF Stop
<1>5. CASE Flush
  BY <1>5, EffectTyped DEF Flush
<1>6. CASE FlushFails
  BY <1>6, EffectTyped DEF FlushFails
<1>7. CASE TimePasses
  BY <1>7 DEF TimePasses, Older, Elapsed
<1>8. CASE Crash
  <2>1. limit \in Counts /\ crashes' \in 0..MaxCrashes
    BY <1>8 DEF Crash
  <2>2. Effect \/ NoEffect
    BY <1>8 DEF Crash
  <2>3. QED
    BY <1>8, <2>1, <2>2, EffectTyped DEF Crash
<1>9. CASE Restart
  BY <1>9 DEF Restart
<1>10. CASE UNCHANGED vars
  BY <1>10 DEF vars
<1>11. QED
  BY <1>1, <1>2, <1>3, <1>4, <1>5, <1>6, <1>7, <1>8, <1>9, <1>10 DEF Next, Goes

\* The schedule's state is well typed.
THEOREM ScheduleTypeCorrect == Spec => []ScheduleTypeOK
BY InitTyped, StepTyped, PTL DEF Spec

-----------------------------------------------------------------------------
(* Completions                                                             *)

LEMMA InitShaped == Init => Shape /\ Budget
BY Kinds, ScheduleAssumption
   DEF Init, Shape, Budget, Remembered, Allowed, Excess

\* A patch leaves the resource as it is or applies what is in the cache.
LEMMA Outcomes ==
  ASSUME Effect \/ NoEffect
  PROVE  /\ saved' = saved \/ saved' = cached \/ (cached = Removal /\ saved' = NoRecord)
         /\ ~ended' => ~ended /\ (saved' = saved \/ (saved' = cached /\ cached # Removal))
<1>1. CASE NoEffect
  BY <1>1 DEF NoEffect
<1>2. CASE Effect
  <2>1. saved' = IF cached = Removal THEN NoRecord ELSE cached
    BY <1>2 DEF Effect, Applied
  <2>2. ~ended' => ~ended /\ cached # Removal
    BY <1>2, Zenon DEF Effect
  <2>3. QED
    BY <2>1, <2>2
<1>3. QED
  BY <1>1, <1>2

\* Each step keeps limits and cache in shape.
LEMMA StepShaped == ScheduleTypeOK /\ Shape /\ [Next]_vars => Shape'
<1> SUFFICES ASSUME ScheduleTypeOK, Shape, [Next]_vars PROVE Shape'
  OBVIOUS
<1> USE Kinds, Held, ScheduleAssumption DEF Shape, object, store, history, counters
<1>1. CASE Load
  BY <1>1 DEF Load
<1>2. CASE DelayOver
  BY <1>2 DEF DelayOver
<1>3. CASE Run
  BY <1>3 DEF Run, Ran, Fires, Left, ScheduleTypeOK, Counts
<1>4. CASE Stop
  BY <1>4 DEF Stop, Fires
<1>5. CASE Flush
  <2>1. Effect \/ NoEffect
    BY <1>5 DEF Flush
  <2>2. QED
    BY <1>5, <2>1, Outcomes DEF Flush
<1>6. CASE FlushFails
  <2>1. Effect \/ NoEffect
    BY <1>6 DEF FlushFails
  <2>2. QED
    BY <1>6, <2>1, Outcomes DEF FlushFails
<1>7. CASE TimePasses
  BY <1>7 DEF TimePasses, ScheduleTypeOK
<1>8. CASE Crash
  <2>1. Effect \/ NoEffect
    BY <1>8 DEF Crash
  <2>2. QED
    BY <1>8, <2>1, Outcomes DEF Crash
<1>9. CASE Restart
  BY <1>9 DEF Restart
<1>10. CASE UNCHANGED vars
  BY <1>10 DEF vars
<1>11. QED
  BY <1>1, <1>2, <1>3, <1>4, <1>5, <1>6, <1>7, <1>8, <1>9, <1>10 DEF Next, Goes

\* The budget is made of integers wherever there is a limit.
LEMMA Numbers ==
  ASSUME ScheduleTypeOK, Shape, limit # NoLimit
  PROVE  /\ limit \in Nat /\ completions \in Nat /\ Remembered \in Nat
         /\ runs \in Nat /\ crashes \in Nat /\ failures \in Nat
         /\ Recorded(saved) => saved.completions \in Nat
         /\ Recorded(cached) => cached.completions \in Nat
BY Held, ScheduleAssumption DEF ScheduleTypeOK, Shape, Remembered, Counts

\* Each step keeps within the budget.
LEMMA StepBudgeted ==
  ScheduleTypeOK /\ Shape /\ Budget /\ [Next]_vars => Budget'
<1> SUFFICES ASSUME ScheduleTypeOK, Shape, Budget, [Next]_vars,
                    limit' # NoLimit, ~ended'
             PROVE  /\ phase' \in {"delayed", "interval", "stopped"} => runs' + completions' <= Allowed'
                    /\ runs' + Remembered' <= Allowed' + Excess'
  BY DEF Budget
<1>0. limit' = limit
  BY DEF Next, Goes, vars, Load, DelayOver, Run, Ran, Stop, Flush, FlushFails, TimePasses, Crash, Restart
<1>a. limit # NoLimit
  BY <1>0
<1> USE <1>0, <1>a, Kinds, Held, Numbers, ScheduleAssumption
    DEF Shape, Budget, Allowed, Excess, Remembered, object, store, history, counters
<1>1. CASE Load
  BY <1>1 DEF Load
<1>2. CASE DelayOver
  BY <1>2 DEF DelayOver
<1>3. CASE Run
  BY <1>3 DEF Run, Ran, Fires, Left, Counted
<1>4. CASE Stop
  BY <1>4 DEF Stop, Fires
<1>5. CASE Flush
  <2>1. CASE Refused
    BY <1>5, <2>1 DEF Flush, NoEffect, Refused
  <2>2. CASE ~Refused
    <3>1. Effect /\ ~poisoned /\ cached # NoRecord
      BY <1>5, <2>2 DEF Flush, Refused
    <3>2. saved' = cached /\ Recorded(cached) /\ ~ended
      BY <3>1, Outcomes DEF Effect, Applied
    <3>3. QED
      BY <1>5, <3>1, <3>2 DEF Flush
  <2>3. QED
    BY <2>1, <2>2
<1>6. CASE FlushFails
  BY <1>6, Outcomes DEF FlushFails
<1>7. CASE TimePasses
  <2>1. CASE saved = NoRecord
    BY <1>7, <2>1 DEF TimePasses
  <2>2. CASE Recorded(saved)
    <3>1. Recorded(saved') /\ saved'.completions = saved.completions
      BY <1>7, <2>2 DEF TimePasses, ScheduleTypeOK, Recorded
    <3>2. QED
      BY <1>7, <2>2, <3>1 DEF TimePasses
  <2>3. QED
    BY <2>1, <2>2
<1>8. CASE Crash
  <2>1. CASE NoEffect
    BY <1>8, <2>1 DEF Crash, NoEffect
  <2>2. CASE cached # NoRecord /\ ~Refused /\ Effect
    <3>1. saved' = cached /\ Recorded(cached) /\ ~ended /\ ~poisoned
      BY <2>2, Outcomes DEF Effect, Applied, Refused
    <3>2. QED
      BY <1>8, <3>1 DEF Crash
  <2>3. QED
    BY <1>8, <2>1, <2>2 DEF Crash
<1>9. CASE Restart
  BY <1>9 DEF Restart
<1>10. CASE UNCHANGED vars
  BY <1>10 DEF vars
<1>11. QED
  BY <1>1, <1>2, <1>3, <1>4, <1>5, <1>6, <1>7, <1>8, <1>9, <1>10 DEF Next, Goes

LEMMA InvariantHolds == Spec => []ScheduleInv
<1>1. Init => ScheduleInv
  BY InitTyped, InitShaped DEF ScheduleInv
<1>2. ScheduleInv /\ [Next]_vars => ScheduleInv'
  BY StepTyped, StepShaped, StepBudgeted DEF ScheduleInv
<1>3. QED
  BY <1>1, <1>2, PTL DEF Spec

\* Completions hold until stop() drops the record: the budget implies it, as
\* a process that is down or loading has nothing in its cache.
THEOREM CompletionsHoldAlways == Spec => []CompletionsHold
<1>1. ScheduleInv => CompletionsHold
  <2> SUFFICES ASSUME ScheduleInv, limit # NoLimit, ~ended
               PROVE  runs <= Allowed
    BY DEF CompletionsHold, Allowed
  <2>1. ScheduleTypeOK /\ Shape /\ Budget
    BY DEF ScheduleInv
  <2>2. CASE phase \in {"down", "loading"}
    BY <2>1, <2>2, Numbers, Kinds DEF Shape, Budget, Excess, Allowed
  <2>3. CASE phase \in {"delayed", "interval", "stopped"}
    BY <2>1, <2>3, Numbers DEF Budget, Allowed
  <2>4. QED
    BY <2>1, <2>2, <2>3 DEF ScheduleTypeOK
<1>2. QED
  BY <1>1, InvariantHolds, PTL

-----------------------------------------------------------------------------
(* Times                                                                   *)

LEMMA InitPunctual == Init => Punctual
BY Kinds DEF Init, Punctual

\* Each step keeps the next run an interval away.
LEMMA StepPunctual ==
  ScheduleTypeOK /\ Shape /\ Punctual /\ [Next]_vars => Punctual'
<1> SUFFICES ASSUME ScheduleTypeOK, Shape, Punctual, [Next]_vars PROVE Punctual'
  OBVIOUS
<1>0. /\ untilStart \in Nat /\ timer \in Nat /\ sinceRun \in 0..Every
      /\ Every \in Nat \ {0}
  BY ScheduleAssumption DEF ScheduleTypeOK
<1> USE <1>0, Kinds, Held DEF Punctual, object, store, history, counters
<1>1. CASE Load
  BY <1>1 DEF Load, Shape
<1>2. CASE DelayOver
  BY <1>2 DEF DelayOver
<1>3. CASE Run
  BY <1>3 DEF Run, Ran, Fires
<1>4. CASE Stop
  BY <1>4 DEF Stop, Fires
<1>5. CASE Flush
  <2>1. Effect \/ NoEffect
    BY <1>5 DEF Flush
  <2>2. QED
    BY <1>5, <2>1, Outcomes DEF Flush
<1>6. CASE FlushFails
  <2>1. Effect \/ NoEffect
    BY <1>6 DEF FlushFails
  <2>2. QED
    BY <1>6, <2>1, Outcomes DEF FlushFails
<1>7. CASE TimePasses
  BY <1>7 DEF TimePasses, Older, Elapsed
<1>8. CASE Crash
  <2>1. Effect \/ NoEffect
    BY <1>8 DEF Crash
  <2>2. QED
    BY <1>8, <2>1, Outcomes DEF Crash
<1>9. CASE Restart
  BY <1>9 DEF Restart
<1>10. CASE UNCHANGED vars
  BY <1>10 DEF vars
<1>11. QED
  BY <1>1, <1>2, <1>3, <1>4, <1>5, <1>6, <1>7, <1>8, <1>9, <1>10 DEF Next, Goes

\* Runs are at least an interval apart and none is before startTime: only
\* run() turns the clock of the last run back, and then the timer has gone
\* through a whole interval.
THEOREM AlwaysOnTime == Spec => OnTime
<1> DEFINE Due == sinceRun' < sinceRun => sinceRun = Every /\ untilStart = 0
<1>1. ScheduleTypeOK /\ Punctual /\ [Next]_vars => [Due]_vars
  <2> SUFFICES ASSUME ScheduleTypeOK, Punctual, [Next]_vars, sinceRun' < sinceRun
               PROVE  sinceRun = Every /\ untilStart = 0
    OBVIOUS
  <2>0. timer \in Nat /\ sinceRun \in 0..Every /\ Every \in Nat
    BY ScheduleAssumption DEF ScheduleTypeOK
  <2>1. CASE Run
    BY <2>0, <2>1 DEF Run, Ran, Fires, Punctual
  <2>2. CASE TimePasses
    BY <2>0, <2>2 DEF TimePasses, Older
  <2>3. CASE ~Run /\ ~TimePasses
    <3>1. sinceRun' = sinceRun
      BY <2>3 DEF Next, Goes, vars, Load, DelayOver, Stop, Flush, FlushFails, Crash, Restart,
                  object, store, history
    <3>2. QED
      BY <2>0, <3>1
  <2>4. QED
    BY <2>1, <2>2, <2>3
<1>2. Spec => []Punctual
  BY InitPunctual, StepPunctual, InvariantHolds, PTL DEF Spec, ScheduleInv
<1>3. QED
  BY <1>1, <1>2, ScheduleTypeCorrect, PTL DEF Spec, OnTime
=============================================================================
