---------------------------- MODULE EvidenceGate ----------------------------
(***************************************************************************)
(* What the streaming controller and its scheduler promise together        *)
(* (streaming.py, begin_retrieval and complete_retrieval; scheduler.py,    *)
(* finish): evidence belongs to the newest retrieval revision or there is  *)
(* none, it is admitted once, and an answer is drawn from it or from       *)
(* nothing.  How many searches run, end late or fail is not visible here.  *)
(***************************************************************************)
EXTENDS Naturals

VARIABLES
  latest,   \* the newest retrieval revision, 0 before the first
  current,  \* the revision whose evidence is current, 0 for none
  answer    \* the revision whose evidence the answer is drawn from, 0 for none

gateVars == <<latest, current, answer>>

GateInit == latest = 0 /\ current = 0 /\ answer = 0

\* A newer query invalidates the evidence at once.
Revise ==
  /\ answer = 0
  /\ latest' = latest + 1
  /\ current' = 0
  /\ UNCHANGED answer

Admit ==
  /\ latest # 0 /\ current = 0
  /\ current' = latest
  /\ UNCHANGED <<latest, answer>>

Select ==
  /\ current # 0 /\ answer = 0
  /\ answer' = current
  /\ UNCHANGED <<latest, current>>

GateNext == Revise \/ Admit \/ Select

GateSpec == GateInit /\ [][GateNext]_gateVars
=============================================================================
