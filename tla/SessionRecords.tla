---------------------------- MODULE SessionRecords ----------------------------
(***************************************************************************)
(* What a Phase 4 session promises of its records, whatever the analysis   *)
(* of a patch decides: an answer and the evidence for it are lost only     *)
(* where the patch revised something, or else the intent is looked for     *)
(* again, and an intent left alone is looked for only if it had an answer. *)
(*                                                                         *)
(* An intent is a slot and the revision that gave it its identity.  Of the *)
(* other records only the intents count that they are about.  Modules      *)
(* Phase4Session (records among plans, consumers and late answers) and     *)
(* SelectiveUpdate (records with their content) both implement this one.   *)
(***************************************************************************)
EXTENDS Integers

CONSTANT Slot

VARIABLES
  rev,     \* the session's revision
  asked,   \* intents that are active
  found,   \* those there is current evidence for
  claimed, \* those a current claim is about
  sought   \* those the update of this very revision retrieves for

records == <<rev, asked, found, claimed, sought>>

\* A new session asks something and knows nothing.
RecordsInit ==
  /\ rev = 0
  /\ \E S \in (SUBSET Slot) \ {{}} : asked = S \X {0}
  /\ found = {} /\ claimed = {} /\ sought = {}

-----------------------------------------------------------------------------
\* The intents in S once those in T have their new identity.
Moved(T, S) == {IF i \in T THEN <<i[1], rev + 1>> ELSE i : i \in S}

\* The intents that S asks for anew.
Fresh(S) == S \X {rev + 1}

\* Of the intents a patch leaves alone, those that lose all their claims are
\* retrieved for, and none that had no claim.
Selects(left) ==
  /\ sought' \subseteq asked'
  /\ (claimed \cap left) \ claimed' \subseteq sought'
  /\ sought' \cap left \subseteq claimed

\* A change of constraints gives the intents in T a new identity.
Revise(T) ==
  /\ asked' = Moved(T, asked)
  /\ found' \subseteq Moved(T, found)
  /\ claimed' \subseteq found' \cap Moved(T, claimed)
  /\ Selects(asked \ T)

\* Questions are added, and are retrieved for.
Ask(S) ==
  /\ \A i \in asked : i[1] \notin S
  /\ asked' = asked \cup Fresh(S)
  /\ found' \subseteq found
  /\ claimed' \subseteq found' \cap claimed
  /\ Fresh(S) \subseteq sought'
  /\ Selects(asked)

\* Another topic: nothing that was known is about it.
ChangeTopic(S) ==
  /\ asked' = Fresh(S) /\ sought' = Fresh(S)
  /\ found' = {} /\ claimed' = {}

Patch ==
  /\ rev' = rev + 1
  /\ \/ \E T \in (SUBSET asked) \ {{}} : Revise(T)
     \/ \E S \in (SUBSET Slot) \ {{}} : Ask(S) \/ ChangeTopic(S)

\* A question back, or another form: a revision that changes no record ends
\* what was being looked for.
Aside ==
  /\ rev' = rev + 1
  /\ sought' = {}
  /\ UNCHANGED <<asked, found, claimed>>

\* Evidence comes in without a new revision only for what is sought.
Admit ==
  /\ \E i \in sought \cap asked : found' = found \cup {i}
  /\ UNCHANGED <<rev, asked, claimed, sought>>

\* Evidence from outside: the claims were not drawn from it.
Record ==
  /\ rev' = rev + 1
  /\ \E S \in (SUBSET asked) \ {{}}, old \in {found, {}} : found' = old \cup S
  /\ claimed' = {} /\ sought' = {}
  /\ UNCHANGED asked

\* An answer keeps what was claimed, and claims more only from evidence.
Publish ==
  /\ rev' = rev + 1
  /\ claimed \subseteq claimed' /\ claimed' \subseteq claimed \cup asked
  /\ claimed' # claimed => found # {}
  /\ sought' = {}
  /\ UNCHANGED <<asked, found>>

\* The session is cleared and created again.
Restart ==
  /\ rev' = 0
  /\ \E S \in (SUBSET Slot) \ {{}} : asked' = S \X {0}
  /\ found' = {} /\ claimed' = {} /\ sought' = {}

RecordsNext == Patch \/ Aside \/ Admit \/ Record \/ Publish \/ Restart

RecordsSpec == RecordsInit /\ [][RecordsNext]_records
=============================================================================
