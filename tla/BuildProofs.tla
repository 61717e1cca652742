---------------------------- MODULE BuildProofs -----------------------------
(***************************************************************************)
(* What TLAPS proves of Build: the types, that no file is ever of a build  *)
(* that was refused, that manifest and chart belong together, and what a   *)
(* successful build leaves, for any modules, any number of builds,         *)
(* failures and rewritten bundles.                                         *)
(*                                                                         *)
(* The argument: a build writes nothing before its capabilities are loaded *)
(* and their namespaces and names validated, and then all files in order.  *)
(* While nothing rewrites the bundle, all that it reads is the same code.  *)
(***************************************************************************)
EXTENDS Build, TLAPS

Valid == Codes \ (Noncompliant \cup BadNames \cup Broken)

\* What a build has gone through when it has come as far as its next step.
Passed ==
  /\ at # 0 => run # 0
  /\ at > 1 /\ plan[run].embed => bundle \in Codes
  /\ at > 2 => plan[run].embed
  /\ at > 3 => loaded[run] \in Codes \ (Noncompliant \cup Broken)
  /\ at > 5 => loaded[run] \in Valid
  /\ at \in 1..6 => \A f \in Files : disk[f] # run

\* Of the files that every build writes, those before the next one are of
\* this build ...
Done == \A i \in DOMAIN Order : Order[i] \in Always /\ i < at => disk[Order[i]] = run

\* ... and unless a build was interrupted the others are of one build.
Uniform ==
  torn \/ \E d \in 0..run : \A i \in DOMAIN Order :
    Order[i] \in Always => disk[Order[i]] = IF i < at THEN run ELSE d

InOrder == Done /\ Uniform

BuildInv == BuildTypeOK /\ Passed /\ OnlyValidated /\ InOrder

\* What a build has come past of what it has to write is written.
Complete ==
  \A i \in DOMAIN Order : i < at /\ Order[i] \in Files /\ Order[i] \in Written(run) => disk[Order[i]] = run

\* If nothing has rewritten the bundle then all that a build has read is the
\* source as it was.
Faithful ==
  ~disturbed =>
    /\ at > 1 /\ plan[run].embed => bundle = plan[run].code
    /\ at > 3 => loaded[run] = plan[run].code
    /\ at > 4 => hashed[run] = plan[run].code
    /\ at > 9 => reread[run] = plan[run].code

\* Before the first rewrite each file is one that its build had to write.
Needed ==
  rewrites = 0 =>
    /\ ~disturbed
    /\ \A f \in Files : disk[f] # 0 =>
         f \in Written(disk[f]) /\ loaded[disk[f]] = plan[disk[f]].code

\* What it takes to see what a build leaves when it succeeds.
WholeInv == BuildInv /\ Complete /\ Faithful /\ Needed

-----------------------------------------------------------------------------
(* The order.                                                              *)

LEMMA OrderIs ==
  /\ DOMAIN Order = 1..17 /\ Len(Order) = 17
  /\ Order[1] = "bundle" /\ Order[2] = "options" /\ Order[3] = "load" /\ Order[4] = "read"
  /\ Order[5] = "names" /\ Order[6] = "manifest" /\ Order[7] = "zarf" /\ Order[8] = "values"
  /\ Order[9] = "reread" /\ Order[10] = "tls" /\ Order[11] = "token" /\ Order[12] = "module"
  /\ Order[13] = "role" /\ Order[14] = "admission" /\ Order[15] = "mutate"
  /\ Order[16] = "validate" /\ Order[17] = "watcher"
BY DEF Order

\* Where each step is.
LEMMA Positions ==
  /\ At("bundle") <=> at = 1
  /\ At("options") <=> at = 2
  /\ At("load") <=> at = 3
  /\ At("read") <=> at = 4
  /\ At("names") <=> at = 5
  /\ At("reread") <=> at = 9
BY OrderIs DEF At

LEMMA FilePositions ==
  /\ \A i \in DOMAIN Order : Order[i] \in Files <=> i \in (6..17) \ {9}
  /\ \A i \in DOMAIN Order : Order[i] \in Always => i \in (6..13) \ {9}
  /\ \A f \in Always : \E i \in 6..13 : Order[i] = f
  /\ \A i, j \in DOMAIN Order : Order[i] = Order[j] => i = j
  /\ Always \subseteq Files
BY OrderIs DEF Files, Always, Optional, Webhooks

LEMMA InitInv == Init => BuildInv
<1> SUFFICES ASSUME Init PROVE BuildInv
  OBVIOUS
<1> USE BuildAssumption DEF Init
<1>1. BuildTypeOK
  <2>1. 0 \in 0..MaxBuilds /\ 0 \in 0..Len(Order) /\ 0 \in 0..MaxFailures /\ 0 \in 0..MaxRewrites /\ 0 \in 0..0
    BY OrderIs
  <2>2. QED
    BY <2>1 DEF BuildTypeOK
<1>2. Passed /\ OnlyValidated
  BY DEF Passed, OnlyValidated
<1>3. InOrder
  BY FilePositions, OrderIs DEF InOrder, Done, Uniform
<1>4. QED
  BY <1>1, <1>2, <1>3 DEF BuildInv

-----------------------------------------------------------------------------
(* Steps.                                                                  *)

\* What the invariant says of the build that runs.
LEMMA Running ==
  ASSUME BuildInv, at # 0
  PROVE  /\ run \in Builds /\ run \in Nat /\ at \in 1..17 /\ MaxBuilds \in Nat
         /\ plan \in [Builds -> Commands]
         /\ plan[run] \in Commands
<1>1. run \in 0..MaxBuilds /\ run # 0 /\ at \in 0..17 /\ plan \in Plans
  BY OrderIs DEF BuildInv, BuildTypeOK, Passed
<1>2. MaxBuilds \in Nat /\ Plans \subseteq [Builds -> Commands]
  BY BuildAssumption
<1>3. run \in Builds
  BY <1>1, <1>2 DEF Builds
<1>4. QED
  BY <1>1, <1>2, <1>3

\* A build ends: no file changes.
LEMMA EndsStep ==
  ASSUME BuildInv, at # 0, NEW outcome \in {"refused", "failed", "silent", "library"},
         outcome # "failed" => at < 6, Ends(outcome), UNCHANGED <<plan, run, disk>>
  PROVE  /\ result' \in [Builds -> {"none", "refused", "failed", "silent", "library", "success"}]
         /\ torn' \in BOOLEAN /\ at' = 0
         /\ InOrder'
<1> USE DEF BuildInv
<1>1. result' \in [Builds -> {"none", "refused", "failed", "silent", "library", "success"}] /\ at' = 0
  BY Running DEF Ends, BuildTypeOK
<1>2. torn' \in BOOLEAN
  BY DEF Ends, BuildTypeOK
<1>3. InOrder'
  <2>a. Done'
    BY <1>1, OrderIs DEF Done
  <2> SUFFICES ASSUME ~torn' PROVE Uniform'
    BY <2>a DEF InOrder, Uniform
  <2>1. ~torn /\ (at < 6 \/ \A f \in Files : disk[f] # run)
    BY Running DEF Ends
  <2>2. PICK d \in 0..run : \A i \in DOMAIN Order :
          Order[i] \in Always => disk[Order[i]] = IF i < at THEN run ELSE d
    BY <2>1 DEF InOrder, Uniform
  <2>3. \A i \in DOMAIN Order : Order[i] \in Always => disk'[Order[i]] = IF i < at' THEN run' ELSE d
    <3> SUFFICES ASSUME NEW i \in DOMAIN Order, Order[i] \in Always PROVE disk[Order[i]] = d
      BY <1>1, OrderIs
    <3>1. i \in 6..13 /\ Order[i] \in Files
      BY FilePositions
    <3>2. CASE i < at
      BY <2>1, <2>2, <3>1, <3>2, Running
    <3>3. CASE ~(i < at)
      BY <2>2, <3>3
    <3>4. QED
      BY <3>2, <3>3
  <2>4. QED
    BY <2>3 DEF Uniform
<1>4. QED
  BY <1>1, <1>2, <1>3

\* A build goes on without writing.
LEMMA GoesOnStep ==
  ASSUME BuildInv, at \in {1, 2, 3, 4, 5, 9}, GoesOn, UNCHANGED <<plan, run, disk>>
  PROVE  /\ result' \in [Builds -> {"none", "refused", "failed", "silent", "library", "success"}]
         /\ torn' \in BOOLEAN /\ at' = at + 1 /\ at' \in 1..Len(Order)
         /\ InOrder'
<1> USE DEF BuildInv, GoesOn
<1>1. /\ result' \in [Builds -> {"none", "refused", "failed", "silent", "library", "success"}]
      /\ torn' \in BOOLEAN /\ at' = at + 1 /\ at' \in 1..Len(Order)
  BY OrderIs DEF BuildTypeOK
<1>2. InOrder'
  <2>a. Done'
    BY <1>1, FilePositions DEF Done, InOrder
  <2> SUFFICES ASSUME ~torn PROVE Uniform'
    BY <2>a DEF InOrder, Uniform
  <2>1. PICK d \in 0..run : \A i \in DOMAIN Order :
          Order[i] \in Always => disk[Order[i]] = IF i < at THEN run ELSE d
    BY DEF InOrder, Uniform
  <2>2. \A i \in DOMAIN Order : Order[i] \in Always => (i < at <=> i < at')
    BY <1>1, FilePositions
  <2>3. \A i \in DOMAIN Order : Order[i] \in Always => disk'[Order[i]] = IF i < at' THEN run' ELSE d
    BY <2>1, <2>2
  <2>4. QED
    BY <2>3 DEF Uniform
<1>3. QED
  BY <1>1, <1>2

\* As long as no file changes, the files are of the same builds.
LEMMA NoFileWritten ==
  ASSUME OnlyValidated, disk' = disk, \A f \in Files : disk[f] # 0 => loaded'[disk[f]] = loaded[disk[f]]
  PROVE  OnlyValidated'
BY DEF OnlyValidated

LEMMA BeginStep == BuildInv /\ Begin => BuildInv'
<1> SUFFICES ASSUME BuildInv, Begin PROVE BuildInv'
  OBVIOUS
<1> USE DEF BuildInv, Begin
<1>1. run \in Nat /\ run' = run + 1 /\ run' \in 0..MaxBuilds /\ at' = 1 /\ at = 0 /\ MaxBuilds \in Nat
  BY BuildAssumption DEF BuildTypeOK
<1>2. disk \in [Files -> 0..run] /\ 0..run \subseteq 0..run' /\ at' \in 0..Len(Order)
  BY <1>1, OrderIs DEF BuildTypeOK
<1>3. BuildTypeOK'
  <2>1. disk' \in [Files -> 0..run']
    BY <1>2
  <2>2. run' # 0
    BY <1>1
  <2>3. QED
    BY <1>1, <1>2, <2>1, <2>2 DEF BuildTypeOK, facts, counters
<1>4. Passed'
  BY <1>1, <1>2 DEF Passed
<1>5. OnlyValidated'
  BY NoFileWritten DEF facts
<1>6. InOrder'
  <2>a. Done'
    BY <1>1, FilePositions DEF Done
  <2> SUFFICES ASSUME ~torn PROVE Uniform'
    BY <2>a DEF InOrder, Uniform
  <2>1. PICK d \in 0..run : \A i \in DOMAIN Order :
          Order[i] \in Always => disk[Order[i]] = IF i < at THEN run ELSE d
    BY DEF InOrder, Uniform
  <2>2. \A i \in DOMAIN Order : Order[i] \in Always => ~(i < at) /\ ~(i < at')
    BY <1>1, FilePositions
  <2>3. \A i \in DOMAIN Order : Order[i] \in Always => disk'[Order[i]] = IF i < at' THEN run' ELSE d
    BY <2>1, <2>2
  <2>4. QED
    BY <1>2, <2>3 DEF Uniform
<1>7. QED
  BY <1>3, <1>4, <1>5, <1>6

LEMMA BundleStep == BuildInv /\ Bundle => BuildInv'
<1> SUFFICES ASSUME BuildInv, Bundle PROVE BuildInv'
  OBVIOUS
<1> USE Positions DEF Bundle
<1>1. at = 1 /\ run \in Builds /\ plan[run].code \in Codes /\ plan[run].embed \in BOOLEAN
  BY Running DEF Commands
<1>2. /\ result' \in [Builds -> {"none", "refused", "failed", "silent", "library", "success"}]
      /\ torn' \in BOOLEAN /\ at' = 2 /\ at' \in 1..Len(Order) /\ InOrder'
  BY <1>1, GoesOnStep
<1>3. BuildTypeOK'
  BY <1>1, <1>2 DEF BuildInv, BuildTypeOK, facts, counters
<1>4. Passed'
  BY <1>1, <1>2 DEF BuildInv, Passed, facts
<1>5. OnlyValidated'
  BY NoFileWritten DEF BuildInv, facts
<1>6. QED
  BY <1>2, <1>3, <1>4, <1>5 DEF BuildInv

LEMMA CheckOptionsStep == BuildInv /\ CheckOptions => BuildInv'
<1> SUFFICES ASSUME BuildInv, CheckOptions PROVE BuildInv'
  OBVIOUS
<1> USE Positions DEF CheckOptions
<1>1. at = 2 /\ run \in Builds /\ UNCHANGED <<plan, run, disk>>
  BY Running
<1>2. OnlyValidated'
  BY NoFileWritten DEF BuildInv, facts
<1>3. CASE plan[run].embed /\ GoesOn
  <2>1. /\ result' \in [Builds -> {"none", "refused", "failed", "silent", "library", "success"}]
        /\ torn' \in BOOLEAN /\ at' = 3 /\ at' \in 1..Len(Order) /\ InOrder'
    BY <1>1, <1>3, GoesOnStep
  <2>2. BuildTypeOK' /\ Passed'
    BY <1>1, <1>3, <2>1 DEF BuildInv, BuildTypeOK, Passed, facts, counters
  <2>3. QED
    BY <1>2, <2>1, <2>2 DEF BuildInv
<1>4. CASE Ends("refused") \/ Ends("library")
  <2>1. /\ result' \in [Builds -> {"none", "refused", "failed", "silent", "library", "success"}]
        /\ torn' \in BOOLEAN /\ at' = 0 /\ InOrder'
    BY <1>1, <1>4, EndsStep
  <2>2. BuildTypeOK' /\ Passed'
    BY <1>1, <2>1, OrderIs DEF BuildInv, BuildTypeOK, Passed, facts, counters
  <2>3. QED
    BY <1>2, <2>1, <2>2 DEF BuildInv
<1>5. QED
  BY <1>3, <1>4

LEMMA LoadStep == BuildInv /\ Load => BuildInv'
<1> SUFFICES ASSUME BuildInv, Load PROVE BuildInv'
  OBVIOUS
<1> USE Positions DEF Load
<1>1. at = 3 /\ run \in Builds /\ bundle \in Codes /\ UNCHANGED <<plan, run, disk>>
  <2>1. at = 3
    OBVIOUS
  <2>2. QED
    BY <2>1, Running DEF BuildInv, Passed
<1>2. /\ loaded' \in [Builds -> Codes \cup {NoCode}]
      /\ loaded'[run] = bundle
      /\ \A b \in Builds : b # run => loaded'[b] = loaded[b]
  BY <1>1 DEF BuildInv, BuildTypeOK
<1>3. \A f \in Files : disk[f] # run /\ disk[f] \in 0..run
  BY <1>1 DEF BuildInv, BuildTypeOK, Passed
<1>4. OnlyValidated'
  <2>1. \A f \in Files : disk[f] # 0 => disk[f] \in Builds
    BY <1>1, <1>3, BuildAssumption DEF Builds
  <2>2. QED
    BY <1>1, <1>2, <1>3, <2>1, NoFileWritten DEF BuildInv
<1>5. CASE bundle \notin Broken /\ bundle \notin Noncompliant /\ GoesOn
  <2>1. /\ result' \in [Builds -> {"none", "refused", "failed", "silent", "library", "success"}]
        /\ torn' \in BOOLEAN /\ at' = 4 /\ at' \in 1..Len(Order) /\ InOrder'
    BY <1>1, <1>5, GoesOnStep
  <2>2. BuildTypeOK'
    BY <1>1, <1>2, <2>1 DEF BuildInv, BuildTypeOK, counters
  <2>3. Passed'
    BY <1>1, <1>2, <1>3, <1>5, <2>1 DEF BuildInv, Passed
  <2>4. QED
    BY <1>4, <2>1, <2>2, <2>3 DEF BuildInv
<1>6. CASE Ends("silent") \/ Ends("refused")
  <2>1. /\ result' \in [Builds -> {"none", "refused", "failed", "silent", "library", "success"}]
        /\ torn' \in BOOLEAN /\ at' = 0 /\ InOrder'
    BY <1>1, <1>6, EndsStep
  <2>2. BuildTypeOK' /\ Passed'
    BY <1>1, <1>2, <2>1, OrderIs DEF BuildInv, BuildTypeOK, Passed, counters
  <2>3. QED
    BY <1>4, <2>1, <2>2 DEF BuildInv
<1>7. QED
  BY <1>5, <1>6

LEMMA ReadStep == BuildInv /\ (ReadCode \/ ReadAgain) => BuildInv'
<1> SUFFICES ASSUME BuildInv, ReadCode \/ ReadAgain PROVE BuildInv'
  OBVIOUS
<1> USE Positions DEF ReadCode, ReadAgain
<1>1. /\ at \in {4, 9} /\ run \in Builds
      /\ GoesOn
      /\ UNCHANGED <<plan, run, bundle, disturbed, loaded, disk, counters>>
  BY Running
<1>2. hashed' \in [Builds -> Codes \cup {NoCode}] /\ reread' \in [Builds -> Codes \cup {NoCode}]
  BY <1>1 DEF BuildInv, BuildTypeOK
<1>3. /\ result' \in [Builds -> {"none", "refused", "failed", "silent", "library", "success"}]
      /\ torn' \in BOOLEAN /\ at' = at + 1 /\ at' \in 1..Len(Order) /\ InOrder'
  BY <1>1, GoesOnStep
<1>4. BuildTypeOK'
  BY <1>1, <1>2, <1>3 DEF BuildInv, BuildTypeOK, counters
<1>5. Passed'
  BY <1>1, <1>3 DEF BuildInv, Passed
<1>6. OnlyValidated'
  BY <1>1, NoFileWritten DEF BuildInv
<1>7. QED
  BY <1>3, <1>4, <1>5, <1>6 DEF BuildInv

LEMMA ValidateNamesStep == BuildInv /\ ValidateNames => BuildInv'
<1> SUFFICES ASSUME BuildInv, ValidateNames PROVE BuildInv'
  OBVIOUS
<1> USE Positions DEF ValidateNames
<1>1. at = 5 /\ run \in Builds /\ UNCHANGED <<plan, run, disk>>
  BY Running
<1>2. OnlyValidated'
  BY NoFileWritten DEF BuildInv, facts
<1>3. CASE loaded[run] \notin BadNames /\ GoesOn
  <2>1. /\ result' \in [Builds -> {"none", "refused", "failed", "silent", "library", "success"}]
        /\ torn' \in BOOLEAN /\ at' = 6 /\ at' \in 1..Len(Order) /\ InOrder'
    BY <1>1, <1>3, GoesOnStep
  <2>2. BuildTypeOK'
    BY <1>1, <2>1 DEF BuildInv, BuildTypeOK, facts, counters
  <2>3. Passed'
    BY <1>1, <1>3, <2>1 DEF BuildInv, Passed, Valid, facts
  <2>4. QED
    BY <1>2, <2>1, <2>2, <2>3 DEF BuildInv
<1>4. CASE Ends("refused")
  <2>1. /\ result' \in [Builds -> {"none", "refused", "failed", "silent", "library", "success"}]
        /\ torn' \in BOOLEAN /\ at' = 0 /\ InOrder'
    BY <1>1, <1>4, EndsStep
  <2>2. BuildTypeOK' /\ Passed'
    BY <1>1, <2>1, OrderIs DEF BuildInv, BuildTypeOK, Passed, facts, counters
  <2>3. QED
    BY <1>2, <2>1, <2>2 DEF BuildInv
<1>5. QED
  BY <1>3, <1>4

LEMMA FailsStep == BuildInv /\ Fails => BuildInv'
<1> SUFFICES ASSUME BuildInv, Fails PROVE BuildInv'
  OBVIOUS
<1> USE DEF Fails
<1>1. /\ result' \in [Builds -> {"none", "refused", "failed", "silent", "library", "success"}]
      /\ torn' \in BOOLEAN /\ at' = 0 /\ InOrder'
  BY EndsStep
<1>2. failures' \in 0..MaxFailures
  BY BuildAssumption DEF BuildInv, BuildTypeOK
<1>3. BuildTypeOK' /\ Passed'
  BY <1>1, <1>2, OrderIs DEF BuildInv, BuildTypeOK, Passed, facts
<1>4. OnlyValidated'
  BY NoFileWritten DEF BuildInv, facts
<1>5. QED
  BY <1>1, <1>3, <1>4 DEF BuildInv

LEMMA RewriteStep == BuildInv /\ Rewrite => BuildInv'
<1> SUFFICES ASSUME BuildInv, Rewrite PROVE BuildInv'
  OBVIOUS
<1> USE DEF Rewrite
<1>1. rewrites' \in 0..MaxRewrites
  BY BuildAssumption DEF BuildInv, BuildTypeOK
<1>2. BuildTypeOK'
  BY <1>1 DEF BuildInv, BuildTypeOK, facts
<1>3. Passed'
  BY DEF BuildInv, Passed, facts
<1>4. OnlyValidated'
  BY NoFileWritten DEF BuildInv, facts
<1>5. InOrder'
  BY DEF BuildInv, InOrder, Done, Uniform
<1>6. QED
  BY <1>2, <1>3, <1>4, <1>5 DEF BuildInv

\* The one step that changes files.
LEMMA WriteStep == BuildInv /\ Write => BuildInv'
<1> SUFFICES ASSUME BuildInv, Write PROVE BuildInv'
  OBVIOUS
<1> DEFINE file == Order[at]
<1>1. /\ at \in (6..17) \ {9} /\ at \in DOMAIN Order /\ file \in Files /\ run \in Builds /\ run \in Nat
      /\ run # 0
      /\ UNCHANGED <<plan, run, bundle, disturbed, facts, counters>>
  <2>1. at \in DOMAIN Order /\ file \in Files
    BY DEF Write
  <2>2. at \in (6..17) \ {9}
    BY <2>1, FilePositions
  <2>3. run \in Builds /\ run \in Nat /\ run # 0
    BY <2>2, Running DEF BuildInv, Passed
  <2>4. QED
    BY <2>1, <2>2, <2>3 DEF Write
<1>2. loaded[run] \in Valid
  BY <1>1 DEF BuildInv, Passed
<1>3. /\ disk' \in [Files -> 0..run']
      /\ \A f \in Files : f # file => disk'[f] = disk[f]
      /\ disk'[file] \in {run, disk[file]}
      /\ file \in Always => disk'[file] = run
  <2>1. disk \in [Files -> 0..run] /\ run \in 0..run /\ run' = run
    BY <1>1 DEF BuildInv, BuildTypeOK
  <2>2. file \in Always => file \in Written(run)
    BY DEF Always, Written
  <2>3. disk' = IF file \in Written(run) THEN [disk EXCEPT ![file] = run] ELSE disk
    BY DEF Write
  <2>4. QED
    BY <1>1, <2>1, <2>2, <2>3
<1>4. OnlyValidated'
  <2> SUFFICES ASSUME NEW f \in Files, disk'[f] # 0 PROVE loaded[disk'[f]] \in Valid
    BY <1>1 DEF OnlyValidated, Valid, facts
  <2>1. disk'[f] = run \/ disk'[f] = disk[f]
    BY <1>3
  <2>2. QED
    BY <1>2, <2>1 DEF BuildInv, OnlyValidated, Valid
<1>5. CASE at # 17 /\ GoesOn
  <2>1. /\ result' \in [Builds -> {"none", "refused", "failed", "silent", "library", "success"}]
        /\ torn' = torn /\ torn' \in BOOLEAN /\ at' = at + 1 /\ at' \in 7..17
    BY <1>1, <1>5 DEF GoesOn, BuildInv, BuildTypeOK
  <2>2. BuildTypeOK'
    <3>1. at' \in 0..Len(Order)
      BY <2>1, OrderIs
    <3>2. QED
      BY <1>1, <1>3, <2>1, <3>1 DEF BuildInv, BuildTypeOK, facts, counters
  <2>3. Passed'
    BY <1>1, <1>2, <2>1 DEF BuildInv, Passed, facts
  <2>4. InOrder'
    <3>a. Done'
      <4> SUFFICES ASSUME NEW i \in DOMAIN Order, Order[i] \in Always, i < at'
                   PROVE  disk'[Order[i]] = run
        BY <1>1 DEF Done
      <4>1. i \in 1..17 /\ Order[i] \in Files
        BY FilePositions, OrderIs
      <4>2. i = at \/ i < at
        BY <1>1, <2>1, <4>1
      <4>3. i < at => disk[Order[i]] = run
        BY DEF BuildInv, InOrder, Done
      <4>4. QED
        BY <1>3, <4>1, <4>2, <4>3
    <3> SUFFICES ASSUME ~torn PROVE Uniform'
      BY <3>a, <2>1 DEF InOrder, Uniform
    <3>1. PICK d \in 0..run : \A i \in DOMAIN Order :
            Order[i] \in Always => disk[Order[i]] = IF i < at THEN run ELSE d
      BY DEF BuildInv, InOrder, Uniform
    <3>2. \A i \in DOMAIN Order : Order[i] \in Always => disk'[Order[i]] = IF i < at' THEN run' ELSE d
      <4> SUFFICES ASSUME NEW i \in DOMAIN Order, Order[i] \in Always
                   PROVE  disk'[Order[i]] = IF i < at' THEN run ELSE d
        BY <1>1
      <4>1. i \in 1..17 /\ Order[i] \in Files
        BY FilePositions, OrderIs
      <4>2. CASE i = at
        <5>1. file \in Always /\ Order[i] = file /\ i < at'
          BY <1>1, <2>1, <4>2
        <5>2. QED
          BY <1>3, <5>1
      <4>3. CASE i # at
        <5>1. disk'[Order[i]] = disk[Order[i]]
          BY <1>1, <1>3, <4>1, <4>3, FilePositions
        <5>2. i < at <=> i < at'
          BY <1>1, <2>1, <4>1, <4>3
        <5>3. QED
          BY <3>1, <5>1, <5>2
      <4>4. QED
        BY <4>2, <4>3
    <3>3. QED
      BY <1>1, <3>2 DEF Uniform
  <2>5. QED
    BY <1>4, <2>2, <2>3, <2>4 DEF BuildInv
<1>6. CASE at = 17 /\ Ends("success")
  <2>1. /\ result' \in [Builds -> {"none", "refused", "failed", "silent", "library", "success"}]
        /\ torn' \in BOOLEAN /\ at' = 0
    BY <1>1, <1>6 DEF Ends, BuildInv, BuildTypeOK
  <2>2. BuildTypeOK' /\ Passed'
    BY <1>1, <1>3, <2>1, OrderIs DEF BuildInv, BuildTypeOK, Passed, facts, counters
  <2>3. InOrder'
    <3>1. \A i \in DOMAIN Order : Order[i] \in Always => i \in 6..13 /\ Order[i] \in Files /\ Order[i] # file
      <4> SUFFICES ASSUME NEW i \in DOMAIN Order, Order[i] \in Always
                   PROVE  i \in 6..13 /\ Order[i] \in Files /\ Order[i] # file
        OBVIOUS
      <4>1. i \in 6..13 /\ Order[i] \in Files
        BY FilePositions
      <4>2. i # at
        BY <1>6, <4>1
      <4>3. QED
        BY <1>1, <4>1, <4>2, FilePositions
    <3>2. \A i \in DOMAIN Order : Order[i] \in Always => disk'[Order[i]] = run
      <4> SUFFICES ASSUME NEW i \in DOMAIN Order, Order[i] \in Always PROVE disk'[Order[i]] = run
        OBVIOUS
      <4>1. i < at /\ Order[i] \in Files /\ Order[i] # file
        BY <1>6, <3>1
      <4>2. disk[Order[i]] = run
        BY <4>1 DEF BuildInv, InOrder, Done
      <4>3. QED
        BY <1>3, <4>1, <4>2
    <3>3. Done'
      BY <2>1, OrderIs DEF Done
    <3>4. run \in 0..run' /\ \A i \in DOMAIN Order : ~(i < at')
      BY <1>1, <2>1, OrderIs
    <3>5. QED
      BY <3>2, <3>3, <3>4 DEF InOrder, Uniform
  <2>4. QED
    BY <1>4, <2>2, <2>3 DEF BuildInv
<1>7. QED
  BY <1>5, <1>6, OrderIs DEF Write

LEMMA NextInv == BuildInv /\ [Next]_vars => BuildInv'
<1> SUFFICES ASSUME BuildInv, [Next]_vars PROVE BuildInv'
  OBVIOUS
<1>1. CASE Next
  BY <1>1, BeginStep, BundleStep, CheckOptionsStep, LoadStep, ReadStep, ValidateNamesStep, WriteStep,
     FailsStep, RewriteStep DEF Next
<1>2. CASE UNCHANGED vars
  <2>1. BuildTypeOK'
    BY <1>2 DEF vars, facts, counters, BuildInv, BuildTypeOK
  <2>2. Passed' /\ OnlyValidated'
    BY <1>2 DEF vars, facts, counters, BuildInv, Passed, OnlyValidated
  <2>3. InOrder'
    BY <1>2 DEF vars, BuildInv, InOrder, Done, Uniform
  <2>4. QED
    BY <2>1, <2>2, <2>3 DEF BuildInv
<1>3. QED
  BY <1>1, <1>2

LEMMA InvAlways == Spec => []BuildInv
BY InitInv, NextInv, PTL DEF Spec

\* While no build runs all these files are of the build d of Uniform.
LEMMA UniformIsOneBuild == BuildInv => OneBuild
<1> SUFFICES ASSUME BuildInv, at = 0, ~torn, NEW f \in Always, NEW g \in Always
             PROVE  disk[f] = disk[g]
  BY DEF OneBuild
<1>1. PICK d \in 0..run : \A i \in DOMAIN Order :
        Order[i] \in Always => disk[Order[i]] = IF i < at THEN run ELSE d
  BY DEF BuildInv, InOrder, Uniform
<1>2. \A h \in Always : disk[h] = d
  <2> SUFFICES ASSUME NEW h \in Always PROVE disk[h] = d
    OBVIOUS
  <2>1. PICK i \in 6..13 : Order[i] = h
    BY FilePositions
  <2>2. i \in DOMAIN Order /\ ~(i < at)
    BY OrderIs
  <2>3. QED
    BY <1>1, <2>1, <2>2
<1>3. QED
  BY <1>2

-----------------------------------------------------------------------------
(* What a successful build leaves.                                         *)

\* Only the last write ends a build with success.
LEMMA OnlyWriteSucceeds ==
  ASSUME BuildInv, Next, NEW b \in Builds, result[b] = "none", result'[b] = "success"
  PROVE  Write /\ Ends("success") /\ at = 17 /\ b = run
<1>1. result' # result
  OBVIOUS
<1>2. \A outcome \in {"refused", "failed", "silent", "library"} : ~Ends(outcome)
  BY DEF Ends, BuildInv, BuildTypeOK
<1>3. ~GoesOn
  BY <1>1 DEF GoesOn
<1>4. Write
  BY <1>1, <1>2, <1>3 DEF Next, Begin, Bundle, CheckOptions, Load, ReadCode, ValidateNames, ReadAgain, Fails, Rewrite
<1>5. Ends("success") /\ at = 17
  BY <1>3, <1>4, OrderIs DEF Write
<1>6. b = run
  BY <1>5 DEF Ends, BuildInv, BuildTypeOK
<1>7. QED
  BY <1>4, <1>5, <1>6

\* What a write does to the files.
LEMMA WriteFiles ==
  ASSUME BuildInv, Write
  PROVE  /\ at \in (6..17) \ {9} /\ run \in Builds /\ run # 0 /\ Order[at] \in Files
         /\ disk' \in [Files -> 0..run]
         /\ \A f \in Files : f # Order[at] => disk'[f] = disk[f]
         /\ disk'[Order[at]] = IF Order[at] \in Written(run) THEN run ELSE disk[Order[at]]
         /\ UNCHANGED <<plan, run, bundle, disturbed, loaded, hashed, reread, failures, rewrites>>
<1>1. at \in DOMAIN Order /\ Order[at] \in Files
  BY DEF Write
<1>2. at \in (6..17) \ {9}
  BY <1>1, FilePositions
<1>3. run \in Builds /\ run # 0
  BY <1>2, Running DEF BuildInv, Passed
<1>4. disk \in [Files -> 0..run] /\ run \in 0..run
  BY <1>3, Running, <1>2 DEF BuildInv, BuildTypeOK
<1>5. QED
  BY <1>1, <1>2, <1>3, <1>4 DEF Write, facts, counters

\* After a write all files up to its own are of the build that needs them.
LEMMA WriteComplete ==
  ASSUME BuildInv, Complete, Write,
         NEW i \in DOMAIN Order, i <= at, Order[i] \in Files, Order[i] \in Written(run)
  PROVE  disk'[Order[i]] = run
<1>1. CASE i = at
  BY <1>1, WriteFiles
<1>2. CASE i # at
  <2>1. i < at /\ i \in 1..17 /\ at \in DOMAIN Order
    BY <1>2, WriteFiles, OrderIs
  <2>2. Order[i] # Order[at]
    BY <1>2, <2>1, FilePositions
  <2>3. QED
    BY <2>1, <2>2, WriteFiles DEF Complete
<1>3. QED
  BY <1>1, <1>2

LEMMA NextComplete == BuildInv /\ Complete /\ [Next]_vars => Complete'
<1> SUFFICES ASSUME BuildInv, Complete, [Next]_vars PROVE Complete'
  OBVIOUS
<1>1. CASE Write
  <2>1. \A i \in DOMAIN Order : i < at' => i <= at
    <3>1. at' = 0 \/ at' = at + 1
      BY <1>1 DEF Write, Ends, GoesOn
    <3>2. at \in 6..17 /\ DOMAIN Order = 1..17
      BY <1>1, WriteFiles, OrderIs
    <3>3. QED
      BY <3>1, <3>2
  <2>2. Written(run)' = Written(run) /\ run' = run
    BY <1>1, WriteFiles DEF Written
  <2>3. QED
    BY <1>1, <2>1, <2>2, WriteComplete DEF Complete
<1>2. CASE Begin \/ Bundle \/ CheckOptions \/ Load \/ ValidateNames
  <2>1. at' \in 0..6
    BY <1>2, Positions DEF Begin, Bundle, CheckOptions, Load, ValidateNames, GoesOn, Ends
  <2>2. QED
    BY <2>1, FilePositions DEF Complete
<1>3. CASE ReadCode \/ ReadAgain
  <2>1. at \in {4, 9} /\ at' = at + 1 /\ UNCHANGED <<run, loaded, disk>>
    BY <1>3, Positions DEF ReadCode, ReadAgain, GoesOn
  <2>2. \A i \in DOMAIN Order : i < at' /\ Order[i] \in Files => i < at
    BY <2>1, FilePositions
  <2>3. QED
    BY <2>1, <2>2 DEF Complete, Written
<1>4. CASE Fails
  BY <1>4, OrderIs DEF Fails, Ends, Complete
<1>5. CASE Rewrite \/ UNCHANGED vars
  BY <1>5 DEF Rewrite, vars, facts, Complete, Written
<1>6. QED
  BY <1>1, <1>2, <1>3, <1>4, <1>5 DEF Next

LEMMA NextFaithful == BuildInv /\ Faithful /\ [Next]_vars => Faithful'
<1> SUFFICES ASSUME BuildInv, Faithful, [Next]_vars, ~disturbed' PROVE Faithful'
  BY DEF Faithful
<1>t. /\ loaded \in [Builds -> Codes \cup {NoCode}]
      /\ hashed \in [Builds -> Codes \cup {NoCode}]
      /\ reread \in [Builds -> Codes \cup {NoCode}]
      /\ at \in 0..17 /\ (at # 0 => run \in Builds)
  BY Running, OrderIs DEF BuildInv, BuildTypeOK
<1>1. CASE Begin
  BY <1>1 DEF Begin, Faithful
<1>2. CASE Bundle
  BY <1>2, Positions DEF Bundle, GoesOn, facts, Faithful
<1>3. CASE CheckOptions \/ ValidateNames
  BY <1>3, Positions DEF CheckOptions, ValidateNames, GoesOn, Ends, facts, Faithful
<1>4. CASE Load
  <2>1. at = 3 /\ plan[run].embed /\ run \in Builds
    BY <1>4, <1>t, Positions DEF Load, BuildInv, Passed
  <2>2. bundle = plan[run].code /\ loaded'[run] = bundle
    BY <1>4, <1>t, <2>1 DEF Load, Faithful
  <2>3. at' \in {0, 4} /\ UNCHANGED <<plan, run, bundle, disturbed>>
    BY <1>4, <2>1 DEF Load, GoesOn, Ends
  <2>4. QED
    BY <2>2, <2>3 DEF Faithful
<1>5. CASE ReadCode
  <2>1. at = 4 /\ plan[run].embed /\ run \in Builds
    BY <1>5, <1>t, Positions DEF ReadCode, BuildInv, Passed
  <2>2. bundle = plan[run].code /\ hashed'[run] = bundle
    BY <1>5, <1>t, <2>1 DEF ReadCode, Faithful
  <2>3. at' = 5 /\ UNCHANGED <<plan, run, bundle, disturbed, loaded>>
    BY <1>5, <2>1 DEF ReadCode, GoesOn
  <2>4. QED
    BY <2>1, <2>2, <2>3 DEF Faithful
<1>6. CASE ReadAgain
  <2>1. at = 9 /\ plan[run].embed /\ run \in Builds
    BY <1>6, <1>t, Positions DEF ReadAgain, BuildInv, Passed
  <2>2. bundle = plan[run].code /\ reread'[run] = bundle
    BY <1>6, <1>t, <2>1 DEF ReadAgain, Faithful
  <2>3. at' = 10 /\ UNCHANGED <<plan, run, bundle, disturbed, loaded, hashed>>
    BY <1>6, <2>1 DEF ReadAgain, GoesOn
  <2>4. QED
    BY <2>1, <2>2, <2>3 DEF Faithful
<1>7. CASE Write
  <2>1. /\ at \in (6..17) \ {9}
        /\ UNCHANGED <<plan, run, bundle, disturbed, loaded, hashed, reread>>
    BY <1>7, WriteFiles
  <2>2. at' = 0 \/ at' = at + 1
    BY <1>7 DEF Write, Ends, GoesOn
  <2>3. QED
    BY <2>1, <2>2 DEF Faithful
<1>8. CASE Fails
  BY <1>8 DEF Fails, Ends, Faithful
<1>9. CASE Rewrite
  BY <1>9 DEF Rewrite
<1>10. CASE UNCHANGED vars
  BY <1>10 DEF vars, facts, Faithful
<1>11. QED
  BY <1>1, <1>2, <1>3, <1>4, <1>5, <1>6, <1>7, <1>8, <1>9, <1>10 DEF Next

LEMMA NextNeeded == WholeInv /\ [Next]_vars => Needed'
<1> SUFFICES ASSUME WholeInv, [Next]_vars, rewrites' = 0
             PROVE  /\ ~disturbed'
                    /\ \A f \in Files : disk'[f] # 0 =>
                         f \in Written(disk[f])' /\ loaded'[disk'[f]] = plan'[disk'[f]].code
  BY DEF Needed, Written
<1>1. rewrites = 0 /\ ~Rewrite
  BY BuildAssumption DEF Rewrite, WholeInv, BuildInv, BuildTypeOK, Next, vars, counters, Begin, Bundle,
     CheckOptions, Load, ReadCode, ValidateNames, ReadAgain, Write, Fails
<1>2. ~disturbed /\ \A f \in Files : disk[f] # 0 =>
        f \in Written(disk[f]) /\ loaded[disk[f]] = plan[disk[f]].code
  BY <1>1 DEF WholeInv, Needed
<1>3. CASE Write
  <2>1. loaded[run] = plan[run].code
    BY <1>2, <1>3, WriteFiles DEF WholeInv, Faithful
  <2>2. QED
    BY <1>2, <1>3, <2>1, WriteFiles DEF WholeInv, Written
<1>4. CASE Load
  <2>1. at = 3 /\ UNCHANGED <<plan, run, disturbed, disk>>
    BY <1>4, Positions DEF Load
  <2>2. \A f \in Files : disk[f] # run /\ disk[f] \in 0..run
    BY <2>1 DEF WholeInv, BuildInv, BuildTypeOK, Passed
  <2>3. \A f \in Files : loaded'[disk[f]] = loaded[disk[f]]
    BY <1>4, <2>2 DEF Load, WholeInv, BuildInv, BuildTypeOK
  <2>4. QED
    BY <1>2, <2>1, <2>3 DEF Written
<1>5. CASE UNCHANGED <<plan, loaded, disk>> /\ (UNCHANGED disturbed \/ disturbed' = FALSE)
  BY <1>2, <1>5 DEF Written
<1>6. QED
  BY <1>1, <1>3, <1>4, <1>5 DEF Next, vars, facts, Begin, Bundle, CheckOptions, ReadCode, ValidateNames,
     ReadAgain, Fails

LEMMA InitWhole == Init => WholeInv
BY InitInv, OrderIs DEF Init, WholeInv, Complete, Faithful, Needed

LEMMA WholeAlways == Spec => []WholeInv
<1>1. WholeInv /\ [Next]_vars => WholeInv'
  BY NextInv, NextComplete, NextFaithful, NextNeeded DEF WholeInv
<1>2. QED
  BY <1>1, InitWhole, PTL DEF Spec

\* The end of a successful build.
LEMMA SuccessStep ==
  ASSUME WholeInv, Next, NEW b \in Builds, result[b] = "none", result'[b] = "success"
  PROVE  /\ \A f \in Written(b) : disk'[f] = b
         /\ \A w \in Webhooks \cap Needs[loaded[b]] : Reaches(w, disk')
         /\ ~disturbed =>
              /\ {loaded[b], hashed[b]} = {plan[b].code}
              /\ \A pod \in {WatcherPod(disk'), AdmissionPod(disk')} : Runs(pod, disk')
         /\ (\A a \in 1..b : Needs[plan[a].code] \subseteq Needs[plan[b].code]) /\ rewrites = 0
            => \A f \in Files : disk'[f] \in {0, b}
<1>1. Write /\ Ends("success") /\ at = 17 /\ b = run
  BY OnlyWriteSucceeds DEF WholeInv
<1>2. b # 0 /\ disk' \in [Files -> 0..b]
  BY <1>1, WriteFiles DEF WholeInv
<1>3. loaded[b] \in Codes
  BY <1>1 DEF WholeInv, BuildInv, Passed
<1>4. Written(b) \subseteq Files /\ Always \subseteq Written(b)
  BY <1>3, BuildAssumption DEF Written, Files, Always
<1>5. \A f \in Written(b) : disk'[f] = b
  <2> SUFFICES ASSUME NEW f \in Written(b) PROVE disk'[f] = b
    OBVIOUS
  <2>1. PICK i \in DOMAIN Order : Order[i] = f
    BY <1>4, OrderIs DEF Files, Optional, Webhooks
  <2>2. i <= at
    BY <1>1, OrderIs
  <2>3. QED
    BY <1>1, <1>4, <2>1, <2>2, WriteComplete DEF WholeInv
<1>6. {"tls", "token", "module", "values"} \subseteq Always
  BY DEF Always, Files, Optional, Webhooks
<1>7. disk'["tls"] = b /\ disk'["token"] = b /\ disk'["module"] = b /\ disk'["values"] = b
  BY <1>4, <1>5, <1>6
<1>8. \A w \in Webhooks \cap Needs[loaded[b]] : Reaches(w, disk')
  BY <1>5, <1>7 DEF Written, Reaches
<1>9. ASSUME ~disturbed
      PROVE  /\ {loaded[b], hashed[b]} = {plan[b].code}
             /\ \A pod \in {WatcherPod(disk'), AdmissionPod(disk')} : Runs(pod, disk')
  <2>1. loaded[b] = plan[b].code /\ hashed[b] = plan[b].code /\ reread[b] = plan[b].code
    BY <1>1, <1>9 DEF WholeInv, Faithful
  <2>2. ModuleSecret(disk') = [hash |-> plan[b].code, code |-> plan[b].code]
    BY <1>7, <2>1 DEF ModuleSecret
  <2>3. ASSUME NEW pod \in {WatcherPod(disk'), AdmissionPod(disk')} PROVE Runs(pod, disk')
    <3>1. pod.hash = plan[b].code /\ pod.mounts \subseteq {"tls", "token", "module"}
      BY <1>7, <2>1 DEF WatcherPod, AdmissionPod
    <3>2. \A f \in pod.mounts : disk'[f] # 0
      BY <1>2, <1>7, <3>1
    <3>3. QED
      BY <2>2, <3>1, <3>2 DEF Runs
  <2>4. QED
    BY <2>1, <2>3
<1>10. ASSUME \A a \in 1..b : Needs[plan[a].code] \subseteq Needs[plan[b].code], rewrites = 0,
              NEW f \in Files, disk'[f] # 0
       PROVE  disk'[f] = b
  <2>1. Needed'
    BY NextNeeded
  <2>2. UNCHANGED <<plan, loaded, rewrites>>
    BY <1>1, WriteFiles DEF WholeInv
  <2>3. f \in Written(disk'[f]) /\ loaded[disk'[f]] = plan[disk'[f]].code
    BY <1>10, <2>1, <2>2 DEF Needed, Written
  <2>4. loaded[b] = plan[b].code
    BY <1>1, <1>10 DEF WholeInv, Needed, Faithful
  <2>5. disk'[f] \in 1..b
    BY <1>1, <1>2, <1>10, Running DEF WholeInv
  <2>6. Needs[loaded[disk'[f]]] \subseteq Needs[loaded[b]]
    BY <1>10, <2>3, <2>4, <2>5
  <2>7. f \in Written(b)
    BY <2>3, <2>6 DEF Written
  <2>8. QED
    BY <1>5, <2>7
<1>11. QED
  BY <1>5, <1>8, <1>9, <1>10

-----------------------------------------------------------------------------
(* Theorems.                                                               *)

\* The state of builds and of the files on disk is always of its type, and no
\* file is of a build that has not begun (src/cli/build.ts, src/lib/assets).
THEOREM BuildTypeCorrect == Spec => []BuildTypeOK
BY InvAlways, PTL DEF BuildInv

\* Whatever fails, and whatever "peppr dev" writes over the bundle meanwhile, no
\* file of manifest and chart is of a build whose capabilities have a name or a
\* namespace that the build refuses (src/lib/assets/index.ts:59-65).
THEOREM OnlyValidatedAlways == Spec => []OnlyValidated
BY InvAlways, PTL DEF BuildInv

\* Between builds manifest and chart are of one and the same build, if none was
\* interrupted while it wrote: refused builds write nothing, and those that end
\* without being refused write all (src/cli/build.ts:117-172).
THEOREM OneBuildAlways == Spec => []OneBuild
BY InvAlways, UniformIsOneBuild, PTL

\* A build that succeeds has written all that its capabilities need, with one
\* certificate and token, also over the files of earlier builds.  If nothing
\* rewrote the bundle then its pods start (src/lib/assets/index.ts:100-214).
THEOREM SuccessIsWholeAlways == Spec => SuccessIsWhole
<1>1. WholeInv /\ [Next]_vars =>
        [\A b \in Builds : result[b] = "none" /\ result'[b] = "success" =>
           /\ \A f \in Written(b) : disk'[f] = b
           /\ \A w \in Webhooks \cap Needs[loaded[b]] : Reaches(w, disk')
           /\ ~disturbed =>
                /\ {loaded[b], hashed[b]} = {plan[b].code}
                /\ \A pod \in {WatcherPod(disk'), AdmissionPod(disk')} : Runs(pod, disk')
           /\ (\A a \in 1..b : Needs[plan[a].code] \subseteq Needs[plan[b].code]) /\ rewrites = 0
              => \A f \in Files : disk'[f] \in {0, b}]_vars
  BY SuccessStep
<1>2. QED
  BY <1>1, WholeAlways, PTL DEF Spec, SuccessIsWhole

=============================================================================
