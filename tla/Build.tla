------------------------------- MODULE Build --------------------------------
(***************************************************************************)
(* "peppr build", run again and again in one directory: the module that is *)
(* bundled (src/cli/build.ts), the capabilities and the code that are read *)
(* back from it, and the files from which it is deployed, a manifest       *)
(* (src/lib/assets/yaml.ts) and a Helm chart (src/lib/assets/index.ts).    *)
(*                                                                         *)
(* Each build has its own certificate, token and time stamp, for which its *)
(* number stands; so a file on disk is the number of the build that wrote  *)
(* it.  Files that are the same in each build (Chart.yaml, namespace,      *)
(* services, roles of the store) are left out.  "peppr dev", which bundles *)
(* to the same place at each change of the source, may run meanwhile.      *)
(***************************************************************************)
EXTENDS Naturals, Sequences

CONSTANTS Codes,         \* the code of modules; stands for its hash
          NoCode,        \* stands for none
          Needs,         \* the webhooks and watcher that a code needs
          Noncompliant,  \* codes that namespaceComplianceValidator() refuses
          BadNames,      \* codes with a capability whose name is not valid
          Broken,        \* codes that end before they have sent capabilities
          Plans,         \* the builds: code, and options of the command, of which
                         \* images and secret say whether they are in order
          MaxBuilds,     \* bound on builds
          MaxFailures,   \* bound on builds that fail or are interrupted
          MaxRewrites    \* bound on changes made by "peppr dev"

Webhooks == {"mutate", "validate"}
Optional == Webhooks \cup {"watcher"}
Builds == 1..MaxBuilds
Commands == [code : Codes, embed : BOOLEAN, images : BOOLEAN, secret : BOOLEAN]

ASSUME BuildAssumption ==
  /\ NoCode \notin Codes
  /\ Needs \in [Codes -> SUBSET Optional]
  /\ Noncompliant \cup BadNames \cup Broken \subseteq Codes
  /\ Plans \subseteq [Builds -> Commands]
  /\ {MaxBuilds, MaxFailures, MaxRewrites} \subseteq Nat

VARIABLES plan,       \* the builds that are run
          run,        \* the last build
          at,         \* its next step; 0: it has ended
          result,     \* how builds ended
          bundle,     \* the code in the bundled file
          disturbed,  \* whether it was rewritten since the last build began (history)
          loaded,     \* the code whose capabilities a build has
          hashed,     \* the code that it read for the manifest; its hash
          reread,     \* the code that it read again for the chart
          disk,       \* by which build each file was written; 0: none
          torn,       \* whether a build failed between its first and last write,
                      \* and none has succeeded since (history)
          failures, rewrites

facts == <<loaded, hashed, reread>>
counters == <<failures, rewrites>>
vars == <<plan, run, at, result, bundle, disturbed, facts, disk, torn, counters>>

\* The manifest and what describes it to Zarf, then the chart's files.
Files == {"manifest", "zarf", "values", "tls", "token", "module", "role", "admission"} \cup Optional

\* Mutant: the names are validated when the manifest has been written.
OrderLateNames ==
  <<"bundle", "options", "load", "read", "manifest", "names", "zarf", "values", "reread", "tls", "token",
    "module", "role", "admission", "mutate", "validate", "watcher">>

Order ==
  <<"bundle", "options", "load", "read", "names", "manifest", "zarf", "values", "reread", "tls", "token",
    "module", "role", "admission", "mutate", "validate", "watcher">>

Init ==
  /\ plan \in Plans
  /\ run = 0
  /\ at = 0
  /\ result = [b \in Builds |-> "none"]
  /\ bundle = NoCode
  /\ disturbed = FALSE
  /\ loaded = [b \in Builds |-> NoCode]
  /\ hashed = [b \in Builds |-> NoCode]
  /\ reread = [b \in Builds |-> NoCode]
  /\ disk = [f \in Files |-> 0]
  /\ torn = FALSE
  /\ failures = 0
  /\ rewrites = 0

At(step) == at \in DOMAIN Order /\ Order[at] = step

Ends(outcome) ==
  /\ at' = 0
  /\ result' = [result EXCEPT ![run] = outcome]
  /\ torn' = CASE outcome = "success" -> FALSE
               [] outcome = "failed" -> torn \/ \E f \in Files : disk[f] = run
               [] OTHER -> torn

GoesOn == at' = at + 1 /\ UNCHANGED <<result, torn>>

Begin ==
  /\ at = 0 /\ run < MaxBuilds
  /\ run' = run + 1
  /\ at' = 1
  /\ disturbed' = FALSE
  /\ UNCHANGED <<plan, result, bundle, facts, disk, torn, counters>>

\* buildModule() writes the bundle, a library that is not to be embedded
\* elsewhere.
Bundle ==
  /\ At("bundle")
  /\ bundle' = IF plan[run].embed THEN plan[run].code ELSE bundle
  /\ GoesOn
  /\ UNCHANGED <<plan, run, disturbed, facts, disk, counters>>

\* A custom image together with a registry: process.exit(1).  Nothing more is
\* made of a library; else a pull secret must have a valid name.
CheckOptions ==
  /\ At("options")
  /\ IF ~plan[run].images THEN Ends("refused")
     ELSE IF ~plan[run].embed THEN Ends("library")
     ELSE IF ~plan[run].secret THEN Ends("refused") ELSE GoesOn
  /\ UNCHANGED <<plan, run, bundle, disturbed, facts, disk, counters>>

\* Mutant: the namespaces of the capabilities are not looked at.
LoadAny ==
  /\ At("load")
  /\ loaded' = [loaded EXCEPT ![run] = bundle]
  /\ IF bundle \in Broken THEN Ends("silent") ELSE GoesOn
  /\ UNCHANGED <<plan, run, bundle, disturbed, hashed, reread, disk, counters>>

\* loadCapabilities() runs the bundle in build mode.  If that process ends
\* without an answer there is nothing left to wait for, and the command ends
\* as if all was well.  Then namespaceComplianceValidator().
Load ==
  /\ At("load")
  /\ loaded' = [loaded EXCEPT ![run] = bundle]
  /\ IF bundle \in Broken THEN Ends("silent")
     ELSE IF bundle \in Noncompliant THEN Ends("refused") ELSE GoesOn
  /\ UNCHANGED <<plan, run, bundle, disturbed, hashed, reread, disk, counters>>

\* allYaml() reads the code and makes the hash and the secret from it.
ReadCode ==
  /\ At("read")
  /\ hashed' = [hashed EXCEPT ![run] = bundle]
  /\ GoesOn
  /\ UNCHANGED <<plan, run, bundle, disturbed, loaded, reread, disk, counters>>

\* validateCapabilityNames()
ValidateNames ==
  /\ At("names")
  /\ IF loaded[run] \in BadNames THEN Ends("refused") ELSE GoesOn
  /\ UNCHANGED <<plan, run, bundle, disturbed, facts, disk, counters>>

\* generateHelmChart() reads the code again, to which the old hash is given.
ReadAgain ==
  /\ At("reread")
  /\ reread' = [reread EXCEPT ![run] = bundle]
  /\ GoesOn
  /\ UNCHANGED <<plan, run, bundle, disturbed, loaded, hashed, disk, counters>>

\* The files that a build writes: one for a webhook or the watcher only if the
\* capabilities need it, the admission controller's if they need a webhook.
Written(b) ==
  (Files \ (Optional \cup {"admission"}))
    \cup Needs[loaded[b]]
    \cup {f \in {"admission"} : Needs[loaded[b]] \cap Webhooks # {}}

\* Mutant: the chart's secrets are kept if there are some.
WriteOnce ==
  /\ at \in DOMAIN Order /\ Order[at] \in Files
  /\ disk' = IF Order[at] \in Written(run) /\ (Order[at] \notin {"tls", "token"} \/ disk[Order[at]] = 0)
             THEN [disk EXCEPT ![Order[at]] = run] ELSE disk
  /\ IF at = Len(Order) THEN Ends("success") ELSE GoesOn
  /\ UNCHANGED <<plan, run, bundle, disturbed, facts, counters>>

\* The next file is written, or left as it is.  A file that this build does
\* not need and an earlier one did is not removed.
Write ==
  /\ at \in DOMAIN Order /\ Order[at] \in Files
  /\ disk' = IF Order[at] \in Written(run) THEN [disk EXCEPT ![Order[at]] = run] ELSE disk
  /\ IF at = Len(Order) THEN Ends("success") ELSE GoesOn
  /\ UNCHANGED <<plan, run, bundle, disturbed, facts, counters>>

\* A step fails and the command exits with 1, or CTRL+C.
Fails ==
  /\ at # 0 /\ failures < MaxFailures
  /\ failures' = failures + 1
  /\ Ends("failed")
  /\ UNCHANGED <<plan, run, bundle, disturbed, facts, disk, rewrites>>

\* "peppr dev" bundles what the source has become.
Rewrite ==
  /\ rewrites < MaxRewrites
  /\ rewrites' = rewrites + 1
  /\ \E c \in Codes \ {bundle} : bundle' = c
  /\ disturbed' = TRUE
  /\ UNCHANGED <<plan, run, at, result, facts, disk, torn, failures>>

Next ==
  \/ Begin \/ Bundle \/ CheckOptions \/ Load \/ ReadCode \/ ValidateNames \/ ReadAgain \/ Write
  \/ Fails \/ Rewrite

Spec == Init /\ [][Next]_vars

-----------------------------------------------------------------------------
(* What an installed chart runs: pods start controller.js with the hash of *)
(* values.yaml and mount secrets that the chart's other files define.      *)

WatcherPod(files) == [hash |-> hashed[files["values"]], mounts |-> {"tls", "module"}]
AdmissionPod(files) == [hash |-> hashed[files["values"]], mounts |-> {"tls", "token", "module"}]

\* The secret names its one file after the hash, and has the code as it was read.
ModuleSecret(files) == [hash |-> hashed[files["module"]], code |-> reread[files["module"]]]

\* runModule() finds the file, and its code has the hash.
Runs(pod, files) ==
  /\ \A f \in pod.mounts : files[f] # 0
  /\ ModuleSecret(files) = [hash |-> pod.hash, code |-> pod.hash]

\* The webhook trusts the certificate, and has the token, that pods mount.
Reaches(w, files) == {files["tls"], files["token"]} = {files[w]}

-----------------------------------------------------------------------------
(* Properties                                                              *)

BuildTypeOK ==
  /\ plan \in Plans
  /\ run \in 0..MaxBuilds
  /\ at \in 0..Len(Order)
  /\ at # 0 => run # 0
  /\ result \in [Builds -> {"none", "refused", "failed", "silent", "library", "success"}]
  /\ bundle \in Codes \cup {NoCode}
  /\ loaded \in [Builds -> Codes \cup {NoCode}]
  /\ hashed \in [Builds -> Codes \cup {NoCode}]
  /\ reread \in [Builds -> Codes \cup {NoCode}]
  /\ disk \in [Files -> 0..run]
  /\ disturbed \in BOOLEAN /\ torn \in BOOLEAN
  /\ failures \in 0..MaxFailures
  /\ rewrites \in 0..MaxRewrites

\* Whatever fails, and whatever "peppr dev" does meanwhile: no file is ever of
\* a build whose capabilities break the rules for names or namespaces
\* ("give error if namespaces are not respected", src/lib/assets/index.ts:63).
OnlyValidated ==
  \A f \in Files : disk[f] # 0 => loaded[disk[f]] \in Codes \ (Noncompliant \cup BadNames \cup Broken)

\* The files that every build writes.
Always == Files \ (Optional \cup {"admission"})

\* Between builds manifest and chart are of one build, unless one was
\* interrupted while it wrote: a build that is refused changes no file.
OneBuild == at = 0 /\ ~torn => \A f, g \in Always : disk[f] = disk[g]

\* A build that succeeds has written all that its capabilities need, and its
\* webhooks reach its pods.  If nothing rewrote the bundle meanwhile then it
\* is of the source as it was, and the pods start; and if earlier builds needed
\* nothing else then the chart has no other file.
SuccessIsWhole ==
  [][\A b \in Builds : result[b] = "none" /\ result'[b] = "success" =>
       /\ \A f \in Written(b) : disk'[f] = b
       /\ \A w \in Webhooks \cap Needs[loaded[b]] : Reaches(w, disk')
       /\ ~disturbed =>
            /\ {loaded[b], hashed[b]} = {plan[b].code}
            /\ \A pod \in {WatcherPod(disk'), AdmissionPod(disk')} : Runs(pod, disk')
       /\ (\A a \in 1..b : Needs[plan[a].code] \subseteq Needs[plan[b].code]) /\ rewrites = 0
          => \A f \in Files : disk'[f] \in {0, b}]_vars
=============================================================================
