-------------------------- MODULE OrderedReconcile --------------------------
(***************************************************************************)
(* What the reconcile queue promises its callers, and nothing about how:   *)
(* calls wait in a line, only the call at the head of the line is being    *)
(* reconciled, and a call leaves the line by having its promise settled.   *)
(* docs/030_user-guide/030_actions/030_reconcile.md:3 words the promise    *)
(* as "guaranteeing ordered and synchronous processing of events".         *)
(***************************************************************************)
EXTENDS Sequences

CONSTANTS Calls,    \* the calls of enqueue() that may be made
          Hanging   \* the calls whose reconcile never settles

VARIABLES line,     \* calls submitted and not yet settled, oldest first
          promise   \* what the caller of enqueue() holds for each call

vars == <<line, promise>>

Init ==
  /\ line = <<>>
  /\ promise = [c \in Calls |-> "none"]

\* A caller joins the end of the line.
Submit(c) ==
  /\ promise[c] = "none"
  /\ promise' = [promise EXCEPT ![c] = "waiting"]
  /\ line' = Append(line, c)

\* The head of the line is reconciled, with or without an error.
Complete(outcome) ==
  /\ line # <<>>
  /\ Head(line) \notin Hanging
  /\ promise' = [promise EXCEPT ![Head(line)] = outcome]
  /\ line' = Tail(line)

CompleteHead == \E outcome \in {"resolved", "rejected"} : Complete(outcome)

Next == (\E c \in Calls : Submit(c)) \/ CompleteHead

SafeSpec == Init /\ [][Next]_vars
Spec == SafeSpec /\ WF_vars(CompleteHead)
=============================================================================
