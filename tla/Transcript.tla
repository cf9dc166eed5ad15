----------------------------- MODULE Transcript -----------------------------
(***************************************************************************)
(* A replayed utterance: normalize_transcript (replay.py) accepts a list   *)
(* of events or refuses it, marking duplicates; the streaming controller   *)
(* (streaming.py) then gets the marked events one by one and checks them   *)
(* again with a policy of its own, assembling the transcript.              *)
(*                                                                         *)
(* The text of an event is a sequence of fragments.  An instance's Offered *)
(* are the events a source may list, in any order and any number of times. *)
(***************************************************************************)
EXTENDS Integers, Sequences, SequencesExt, FiniteSetsExt

CONSTANTS Offered, Fragment, MaxEvents

ASSUME TranscriptAssumption ==
  /\ \A e \in Offered :
       /\ e.text \in Seq(Fragment) /\ e.number \in Nat /\ e.stamp \in Nat
       /\ e.mode \in {"incremental", "cumulative"} /\ e.final \in BOOLEAN
  /\ MaxEvents \in Nat \ {0}

VARIABLES
  records,   \* ReplayEventRecords: events with their duplicate mark
  verdict,   \* "reading", then "refused" or "accepted" by the normaliser
  delivered, \* records the controller has processed
  session,   \* the controller's state, and whether it raised
  assembled  \* the baseline's assembled_text (replay_transcript)

transcriptVars == <<records, verdict, delivered, session, assembled>>

SessionInit ==
  [seen |-> {}, number |-> -1, stamp |-> -1, closed |-> FALSE,
   finalText |-> <<>>, finalMode |-> "none", text |-> <<>>, revision |-> 0, raised |-> "no"]

TranscriptInit ==
  /\ records = <<>> /\ verdict = "reading" /\ delivered = 0
  /\ session = SessionInit /\ assembled = <<>>

---------------------------------------------------------------------------
\* normalize_transcript: one iteration of its loop.
Kept == {k \in DOMAIN records : records[k].mark = "none"}
Finals == {k \in Kept : records[k].event.final}
Known(e) == \E k \in DOMAIN records : records[k].event.id = e.id
Repeated(e) == \E k \in DOMAIN records : records[k].event = e
Latest == records[Len(records)].event
InOrder(e) == records = <<>> \/ (e.stamp >= Latest.stamp /\ e.number >= Latest.number)
Increases(e) == records = <<>> \/ e.number > Latest.number

\* After the final event only its repetitions are accepted.
Repeats(e) ==
  \A k \in Finals :
    e.final /\ e.text = records[k].event.text /\ e.mode = records[k].event.mode

\* Mutant: a repeated event under its old ID is not recognised.
DuplicateBug(e) == "none"
Duplicate(e) ==
  IF Finals # {} THEN "repeated_final" ELSE IF Known(e) THEN "identical_event_replay" ELSE "none"
Accepts(e) ==
  /\ InOrder(e)
  /\ Repeats(e)
  /\ Known(e) => Repeated(e)
  /\ ~Known(e) => Increases(e)

Read(e) ==
  /\ verdict = "reading" /\ Len(records) < MaxEvents
  /\ IF Accepts(e)
     THEN records' = Append(records, [event |-> e, mark |-> Duplicate(e)]) /\ UNCHANGED verdict
     ELSE verdict' = "refused" /\ UNCHANGED records
  /\ UNCHANGED <<delivered, session, assembled>>

\* The list ends; it must hold a final event.
ListEnds ==
  /\ verdict = "reading" /\ records # <<>>
  /\ verdict' = IF Finals = {} THEN "refused" ELSE "accepted"
  /\ UNCHANGED <<records, delivered, session, assembled>>

---------------------------------------------------------------------------
Assemble(text, e) == IF e.mode = "cumulative" THEN e.text ELSE text \o e.text

\* _validate_event_order: the controller's own classification.
Order(s, e) ==
  IF \E d \in s.seen : d.id = e.id
  THEN IF e \in s.seen THEN "identical_event_replay" ELSE "error"
  ELSE IF e.stamp < s.stamp \/ e.number <= s.number THEN "error"
  ELSE IF ~s.closed THEN "none"
  ELSE IF e.final /\ e.text = s.finalText /\ e.mode = s.finalMode THEN "repeated_final"
  ELSE "error"

\* process_event up to its decision.
Skipped(s, e) ==
  [s EXCEPT !.seen = @ \cup {e},
            !.number = IF e.number > s.number THEN e.number ELSE @,
            !.stamp = IF e.number > s.number THEN e.stamp ELSE @]
Consumed(s, e) ==
  LET text == Assemble(s.text, e)
      empty == e.final /\ text = <<>>
  IN  [s EXCEPT !.seen = @ \cup {e}, !.number = e.number, !.stamp = e.stamp,
                !.text = text, !.revision = @ + 1,
                !.closed = @ \/ (e.final /\ ~empty),
                !.finalText = IF e.final /\ ~empty THEN text ELSE @,
                !.finalMode = IF e.final /\ ~empty THEN e.mode ELSE @,
                !.raised = IF empty THEN "empty" ELSE @]
Processed(s, record) ==
  LET order == Order(s, record.event)
      duplicate == record.mark # "none"
  IN  IF order = "error" \/ (duplicate /\ order = "none") THEN [s EXCEPT !.raised = "order"]
      ELSE IF duplicate THEN Skipped(s, record.event)
      ELSE Consumed(s, record.event)

\* One record: the streaming controller, and the baseline beside it.
Deliver ==
  /\ verdict = "accepted" /\ delivered < Len(records) /\ session.raised = "no"
  /\ LET record == records[delivered + 1]
     IN  /\ session' = Processed(session, record)
         /\ assembled' = IF record.mark = "none" THEN Assemble(assembled, record.event) ELSE assembled
  /\ delivered' = delivered + 1
  /\ UNCHANGED <<records, verdict>>

TranscriptNext == (\E e \in Offered : Read(e)) \/ ListEnds \/ Deliver
TranscriptSpec == TranscriptInit /\ [][TranscriptNext]_transcriptVars

---------------------------------------------------------------------------
\* What a set of events says, whatever the order and number of their copies:
\* by their numbers up to the first final one, from the last cumulative text on.
SaidFrom(heard) == Max({0} \cup {e.number : e \in {d \in heard : d.mode = "cumulative"}})
SaidAt(heard, n) ==
  IF \E e \in heard : e.number = n THEN (CHOOSE e \in heard : e.number = n).text ELSE <<>>
SaidUpTo(heard, last) ==
  FlattenSeq([k \in 1..(last - SaidFrom(heard) + 1) |-> SaidAt(heard, SaidFrom(heard) + k - 1)])
Said(events) ==
  LET last == Min({e.number : e \in {d \in events : d.final}})
  IN  SaidUpTo({e \in events : e.number <= last}, last)

\* An accepted replay yields what its events say, in the baseline and in the
\* controller alike, and the controller takes every record as it is marked:
\* it refuses only an empty query, and a final repeated under a new ID whose
\* text is a fragment, not the whole transcript (process_event compares it
\* with the assembled text, normalize_transcript with the final event's).
Renamed(k) == records[k].mark = "repeated_final" /\ records[k].event \notin session.seen
Fragmentary(k) == records[k].event.text # session.finalText
ReplayIsFaithful ==
  verdict = "accepted" =>
    /\ session.raised = "order" => Renamed(delivered) /\ Fragmentary(delivered)
    /\ session.raised = "empty" => session.text = <<>>
    /\ session.raised = "no" => session.text = assembled
    /\ delivered = Len(records) => assembled = Said({records[k].event : k \in DOMAIN records})
    /\ session.closed => session.finalText = assembled
=============================================================================
