---------------------------- MODULE OneTimeToken ----------------------------
(***************************************************************************)
(* What a row of ActionToken promises, whatever it is for: one row per     *)
(* subject key, issued any number of times, used at most once per issue.   *)
(***************************************************************************)
EXTENDS Naturals

CONSTANT Subjects \* the subject keys

VARIABLES
  state, \* of the row of each subject key
  uses   \* how often what it allows was done since it was last issued

vars == <<state, uses>>

Init ==
  /\ state = [s \in Subjects |-> "none"]
  /\ uses = [s \in Subjects |-> 0]

\* The upsert: makes the row, or makes the old one fresh again.
Issue(s) ==
  /\ state' = [state EXCEPT ![s] = "live"]
  /\ uses' = [uses EXCEPT ![s] = 0]

Use(s) ==
  /\ state[s] = "live"
  /\ state' = [state EXCEPT ![s] = "spent"]
  /\ uses' = [uses EXCEPT ![s] = @ + 1]

\* The rows go with what they belong to.
Delete(S) ==
  /\ state' = [s \in Subjects |-> IF s \in S THEN "none" ELSE state[s]]
  /\ uses' = [s \in Subjects |-> IF s \in S THEN 0 ELSE uses[s]]

Next ==
  \/ \E s \in Subjects : Issue(s) \/ Use(s)
  \/ \E S \in SUBSET Subjects : Delete(S)

Spec == Init /\ [][Next]_vars

=============================================================================
