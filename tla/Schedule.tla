------------------------------ MODULE Schedule ------------------------------
(***************************************************************************)
(* One schedule of a capability: OnSchedule of src/lib/schedule.ts, which  *)
(* the watch controller makes when its schedule store is ready, and the    *)
(* record it keeps in that store so that a later process goes on from it.  *)
(*                                                                         *)
(* Time passes in units, of which Every make the schedule's interval.      *)
(* What is stored reaches the resource within a unit: the store flushes    *)
(* every five seconds and no interval is shorter than ten.  A process may  *)
(* end at any time, with what it has not flushed, and is restarted.        *)
(***************************************************************************)
EXTENDS Integers

CONSTANTS Every,        \* the interval, in units of time
          Limits,       \* what "completions" may be, NoLimit for undefined
          NoLimit,
          StartIns,     \* units until startTime; 0 if there is none
          MaxRuns,      \* runs are counted up to this bound
          MaxCrashes,   \* bound on the ends of a process
          MaxFailures   \* bound on the patches that fail

ASSUME ScheduleAssumption ==
  /\ Every \in Nat \ {0}
  /\ NoLimit \notin Nat
  /\ Limits \subseteq Nat \cup {NoLimit}
  /\ StartIns \subseteq Nat
  /\ {MaxRuns, MaxCrashes, MaxFailures} \subseteq Nat

VARIABLES limit,        \* the schedule's completions as its author gave them
          untilStart,   \* units until startTime
          phase,        \* how far the process is with the schedule
          completions,  \* of the OnSchedule object
          timer,        \* units until its timer or interval fires
          saved,        \* the record in the schedule store's resource
          cached,       \* the operation in the sender's cache
          poisoned,     \* whether the cache holds undefined from a failed patch
          runs,         \* how often run() was called, in all processes (history)
          sinceRun,     \* units since it was called last (history)
          ended,        \* whether stop() has taken effect (history)
          crashes, failures

object == <<phase, completions, timer>>
store == <<saved, cached, poisoned>>
history == <<runs, sinceRun, ended>>
counters == <<crashes, failures>>
vars == <<limit, untilStart, object, store, history, counters>>

NoRecord == [kind |-> "none"]
Removal == [kind |-> "remove"]
\* "age" is the time since lastTimestamp; beyond the interval it is all one.
Record(n, age) == [kind |-> "record", completions |-> n, age |-> age]

Init ==
  /\ limit \in Limits
  /\ untilStart \in StartIns
  /\ phase = "down"
  /\ completions = limit
  /\ timer = 0
  /\ saved = NoRecord
  /\ cached = NoRecord
  /\ poisoned = FALSE
  /\ runs = 0
  /\ sinceRun = Every
  /\ ended = FALSE
  /\ crashes = 0
  /\ failures = 0

-----------------------------------------------------------------------------
(* The OnSchedule object.                                                  *)

\* Mutant: the interval fires at once.
LoadAtOnce ==
  /\ phase = "loading"
  /\ LET delay == IF saved = NoRecord THEN untilStart ELSE Every - saved.age
     IN IF delay <= 0
        THEN phase' = "interval" /\ timer' = 0
        ELSE phase' = "delayed" /\ timer' = delay
  /\ completions' = IF saved = NoRecord THEN limit ELSE saved.completions
  /\ UNCHANGED <<limit, untilStart, store, history, counters>>

\* The schedule store is ready: setStore(), checkStore(), setupInterval().
\* A saved record replaces the author's completions and startTime.
Load ==
  /\ phase = "loading"
  /\ LET delay == IF saved = NoRecord THEN untilStart ELSE Every - saved.age
     IN IF delay <= 0
        THEN phase' = "interval" /\ timer' = Every
        ELSE phase' = "delayed" /\ timer' = delay
  /\ completions' = IF saved = NoRecord THEN limit ELSE saved.completions
  /\ UNCHANGED <<limit, untilStart, store, history, counters>>

\* The delay is over: start() sets the interval.
DelayOver ==
  /\ phase = "delayed"
  /\ timer = 0
  /\ phase' = "interval"
  /\ timer' = Every
  /\ UNCHANGED <<limit, untilStart, completions, store, history, counters>>

Fires == phase = "interval" /\ timer = 0

Counted(n) == IF n = MaxRuns THEN n ELSE n + 1

\* run() and what is done to the count.
Ran(left, kept) ==
  /\ Fires
  /\ runs' = Counted(runs)
  /\ sinceRun' = 0
  /\ completions' = left
  /\ cached' = Record(kept, 0)
  /\ timer' = Every
  /\ UNCHANGED <<limit, untilStart, phase, saved, poisoned, ended, counters>>

Left == IF completions = NoLimit THEN NoLimit ELSE completions - 1

\* Mutant: the author's number is saved.
RunSavesLimit == completions # 0 /\ Ran(Left, limit)

\* Mutant: the count is taken down but not below one.
RunKeepsOne ==
  /\ completions # 0
  /\ LET n == IF completions = 1 THEN 1 ELSE Left IN Ran(n, n)

\* The interval fires: run(), count down, saveToStore().
Run == completions # 0 /\ Ran(Left, Left)

\* It fires and no completions are left: stop() removes the record.
Stop ==
  /\ Fires
  /\ completions = 0
  /\ phase' = "stopped"
  /\ cached' = Removal
  /\ UNCHANGED <<limit, untilStart, completions, timer, saved, poisoned, history, counters>>

-----------------------------------------------------------------------------
(* The schedule store; see StoreSender.                                    *)

\* What is saved once the cached operation has been applied.
Applied == IF cached = Removal THEN NoRecord ELSE cached

Effect ==
  /\ saved' = Applied
  /\ ended' = (ended \/ cached = Removal)

NoEffect == UNCHANGED <<saved, ended>>

\* A patch with an undefined operation is refused, and the cache emptied; so
\* is one that removes a record that is not there.
Refused == poisoned \/ (cached = Removal /\ saved = NoRecord)

Flush ==
  /\ cached # NoRecord \/ poisoned
  /\ IF Refused THEN NoEffect ELSE Effect
  /\ cached' = NoRecord
  /\ poisoned' = FALSE
  /\ UNCHANGED <<limit, untilStart, object, runs, sinceRun, counters>>

\* The patch fails, before or after its effect; its retry is undefined.
FlushFails ==
  /\ cached # NoRecord
  /\ failures < MaxFailures
  /\ failures' = failures + 1
  /\ \/ NoEffect
     \/ ~Refused /\ Effect
  /\ cached' = NoRecord
  /\ poisoned' = TRUE
  /\ UNCHANGED <<limit, untilStart, object, runs, sinceRun, crashes>>

-----------------------------------------------------------------------------
(* Time and processes.                                                     *)

Elapsed(n) == IF n = 0 THEN 0 ELSE n - 1
Older(n) == IF n = Every THEN n ELSE n + 1

\* A unit of time, unless something is due before it is over.
TimePasses ==
  /\ cached = NoRecord
  /\ phase \in {"delayed", "interval"} => timer # 0
  /\ untilStart' = Elapsed(untilStart)
  /\ timer' = IF phase \in {"delayed", "interval"} THEN timer - 1 ELSE timer
  /\ saved' = IF saved = NoRecord THEN saved ELSE [saved EXCEPT !.age = Older(@)]
  /\ sinceRun' = Older(sinceRun)
  /\ UNCHANGED <<limit, phase, completions, cached, poisoned, runs, ended, counters>>

\* The process ends; what is in the cache is lost or just about sent.
Crash ==
  /\ phase # "down"
  /\ crashes < MaxCrashes
  /\ crashes' = crashes + 1
  /\ phase' = "down"
  /\ completions' = limit
  /\ timer' = 0
  /\ \/ NoEffect
     \/ cached # NoRecord /\ ~Refused /\ Effect
  /\ cached' = NoRecord
  /\ poisoned' = FALSE
  /\ UNCHANGED <<limit, untilStart, runs, sinceRun, failures>>

Restart ==
  /\ phase = "down"
  /\ phase' = "loading"
  /\ UNCHANGED <<limit, untilStart, completions, timer, store, history, counters>>

Goes == Load \/ DelayOver \/ Run \/ Stop \/ Flush \/ Restart

Next == Goes \/ FlushFails \/ TimePasses \/ Crash

\* Weak fairness of the timers, the store, the Deployment, and of time.
Spec == Init /\ [][Next]_vars /\ WF_vars(Goes) /\ WF_vars(TimePasses)

-----------------------------------------------------------------------------
(* Properties                                                              *)

Counts == Nat \cup {NoLimit}

\* Type invariant.
ScheduleTypeOK ==
  /\ limit \in Limits
  /\ untilStart \in Nat
  /\ phase \in {"down", "loading", "delayed", "interval", "stopped"}
  /\ completions \in Counts
  /\ timer \in Nat
  /\ saved \in {NoRecord} \cup [kind : {"record"}, completions : Counts, age : 0..Every]
  /\ cached \in {NoRecord, Removal} \cup [kind : {"record"}, completions : Counts, age : {0}]
  /\ poisoned \in BOOLEAN
  /\ runs \in 0..MaxRuns
  /\ sinceRun \in 0..Every
  /\ ended \in BOOLEAN
  /\ crashes \in 0..MaxCrashes
  /\ failures \in 0..MaxFailures

\* "completions" is the most that the schedule runs
\* (docs/030_user-guide/080_onschedule.md:24), but for one more with each
\* crash, between run() and the save, and two more with each patch that
\* fails, which takes the next one with it, until stop() drops the record.
CompletionsHold ==
  limit # NoLimit /\ ~ended => runs <= limit + crashes + 2 * failures

\* Two runs are never closer than the interval and none is before startTime,
\* whenever processes end and start.
OnTime == [][sinceRun' < sinceRun => sinceRun = Every /\ untilStart = 0]_vars

\* A schedule with completions has had them all in the end, and has stopped.
RunsOut == <>[](limit # NoLimit => phase = "stopped" /\ runs >= limit)
=============================================================================
