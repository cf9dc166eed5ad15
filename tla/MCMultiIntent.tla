--------------------------- MODULE MCMultiIntent ---------------------------
(* Instances of MultiIntent.  "who" and its rewording "which" are one       *)
(* question, "whom" another; "fee" depends on the answer.  The texts        *)
(* "alpha" and "beta" ask the same questions about different values,        *)
(* "other" asks the fee of somebody else.                                   *)
EXTENDS MultiIntent

CONSTANTS who, which, whom, fee, x, y, alpha, beta, other

Wordings == {<<q, q>> : q \in Question} \cup {<<who, which>>, <<which, who>>}
One(question, own) == [question |-> question, own |-> own, dependent |-> FALSE]
After(question, own) == [question |-> question, own |-> own, dependent |-> TRUE]
Say(intents, edges) == [current |-> TRUE, intents |-> intents, shared |-> {}, edges |-> edges]

\* A clean answer; one whose rewording holds the value, which the dependent
\* question may hold too (also); and answers that are late, drop the value,
\* become cyclic when merged, or are too long.
About(v, also) ==
  {Say(<<One(who, {v}), After(fee, {})>>, {<<1, 2>>}),
   Say(<<One(who, {}), One(which, {v}), After(fee, also)>>, {<<2, 3>>}),
   [Say(<<One(who, {v}), After(fee, {})>>, {<<1, 2>>}) EXCEPT !.current = FALSE],
   Say(<<One(who, {}), After(fee, {})>>, {<<1, 2>>}),
   Say(<<One(who, {v}), After(fee, {}), One(which, {})>>, {<<1, 2>>, <<2, 3>>}),
   Say(<<One(who, {v}), One(which, {}), After(fee, {}), One(whom, {})>>, {<<1, 3>>})}
Somebody == {Say(<<One(whom, {}), After(fee, {})>>, {<<1, 2>>})}

Answers ==
  [t \in Text |-> IF t = alpha THEN About(x, {}) ELSE IF t = beta THEN About(y, {y}) ELSE Somebody]
Values == [t \in Text |-> IF t = alpha THEN {x} ELSE IF t = beta THEN {y} ELSE {}]
Whole == [t \in Text |-> who]
=============================================================================
