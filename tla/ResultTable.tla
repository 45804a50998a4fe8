----------------------------- MODULE ResultTable -----------------------------
(***************************************************************************)
(* What the table of observations promises to those who look up the        *)
(* results of an environment and script: an import clears what is shown of *)
(* them when it begins to (all of it at once, or nothing), and later shows *)
(* all of its file at once, or nothing of it.                              *)
(*                                                                         *)
(* Two things the code does not exclude when imports work at the same time:*)
(* what another import of the same environment and script shows while this *)
(* one is clearing stays; and of the observations in its file, what an     *)
(* import shows of other environments may be out of date.                  *)
(***************************************************************************)
CONSTANTS
  Imports,
  Hashes,   \* of environment and script
  HashOf,   \* of each import
  Data,     \* contents of observations
  InFile    \* those in the file of each import

VARIABLES
  shown,    \* the observations that refer to each hash
  phase,    \* of each import
  old,      \* what an import that is clearing has found shown
  together  \* history: two imports were at work at the same time

vars == <<shown, phase, old, together>>

AtWork(i) == phase[i] \in {"begun", "clearing", "cleared"}

Init ==
  /\ shown = [h \in Hashes |-> {}]
  /\ phase = [i \in Imports |-> "waiting"]
  /\ old = [i \in Imports |-> {}]
  /\ together = FALSE

Move(i, from, to) == phase[i] = from /\ phase' = [phase EXCEPT ![i] = to]

Begin(i) ==
  /\ Move(i, "waiting", "begun")
  /\ together' = (together \/ \E j \in Imports : AtWork(j))
  /\ UNCHANGED <<shown, old>>

Look(i) ==
  /\ Move(i, "begun", "clearing")
  /\ old' = [old EXCEPT ![i] = shown[HashOf[i]]]
  /\ UNCHANGED <<shown, together>>

(* What has been taken off by others need not be cleared.                  *)
Forget ==
  /\ old' \in [Imports -> SUBSET Data]
  /\ \A i \in Imports :
       /\ old'[i] \subseteq old[i]
       /\ (old[i] \ old'[i]) \cap shown[HashOf[i]] = {}
  /\ UNCHANGED <<shown, phase, together>>

Clear(i) ==
  /\ Move(i, "clearing", "cleared")
  /\ shown' = [shown EXCEPT ![HashOf[i]] = @ \ old[i]]
  /\ old' = [old EXCEPT ![i] = {}]
  /\ UNCHANGED together

(* A finished import of h had the observation d.                           *)
Landed(h, d) ==
  \E i \in Imports : phase[i] = "landed" /\ HashOf[i] = h /\ d \in InFile[i]

Untouched(h) == shown'[h] = shown[h]

(* Of a hash that is not its own it may take off, or bring back, what is   *)
(* in its file.                                                            *)
OutOfDate(i, h) ==
  /\ shown'[h] \ InFile[i] = shown[h] \ InFile[i]
  /\ \A d \in shown'[h] \ shown[h] : Landed(h, d)

Land(i) ==
  /\ Move(i, "cleared", "landed")
  /\ shown' \in [Hashes -> SUBSET Data]
  /\ shown'[HashOf[i]] = shown[HashOf[i]] \cup InFile[i]
  /\ \A h \in Hashes \ {HashOf[i]} :
       Untouched(h) \/ (together /\ OutOfDate(i, h))
  /\ UNCHANGED <<old, together>>

Drop(i) ==
  /\ AtWork(i)
  /\ phase' = [phase EXCEPT ![i] = "off"]
  /\ old' = [old EXCEPT ![i] = {}]
  /\ UNCHANGED <<shown, together>>

Next ==
  \/ \E i \in Imports :
       Begin(i) \/ Look(i) \/ Clear(i) \/ Land(i) \/ Drop(i)
  \/ Forget

Spec == Init /\ [][Next]_vars
==============================================================================
