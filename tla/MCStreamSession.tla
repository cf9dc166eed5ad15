--------------------------- MODULE MCStreamSession ---------------------------
(* Instances of StreamSession.  Three texts: a question, a longer question  *)
(* that adds terms to it, and an aside (or a vague or incomplete phrase).   *)
EXTENDS StreamSession

CONSTANTS short, long, other

\* The longer question adds terms to the shorter one and not conversely.
Adds == {<<short, long>>}
\* Every change of question counts as a correction.
AnyChange == {c \in Query \X Query : c[1] # c[2]}
None == {}
JustOther == {other}
=============================================================================
