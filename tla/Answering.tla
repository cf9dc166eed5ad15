----------------------------- MODULE Answering -----------------------------
(***************************************************************************)
(* A replayed request from its corpus to its answer: a paragraph of the    *)
(* corpus is chunked (ingestion.py), the index is stored and found         *)
(* (indexing.py), the transcript is normalised and delivered (replay.py,   *)
(* streaming.py), evidence is assembled for the intents of the final query *)
(* (multi_intent.py), the answer is generated from it (generation.py,      *)
(* synthesis.py), and a Phase 4 session keeps its answers (phase4.py).     *)
(* Each stage starts when the one before has ended, and forgets its state. *)
(***************************************************************************)
EXTENDS Chunking, IndexStore, Transcript, Assembly, Synthesis, AnswerHistory

VARIABLE stage

answeringVars ==
  <<stage, chunkVars, indexVars, transcriptVars, assemblyVars, synthesisVars, historyVars>>

AnsweringInit ==
  /\ stage = "index"
  /\ ChunkInit /\ IndexInit /\ TranscriptInit /\ AssemblyInit /\ SynthesisInit /\ HistoryInit

InStage(name) == stage = name /\ UNCHANGED stage

Index ==
  /\ InStage("index") /\ ChunkNext
  /\ UNCHANGED <<indexVars, transcriptVars, assemblyVars, synthesisVars, historyVars>>
Indexed ==
  /\ stage = "index" /\ position = Len(paragraph) /\ Empty
  /\ stage' = "store"
  /\ paragraph' = <<>> /\ position' = 0 /\ first' = 1 /\ currentLength' = 0 /\ cut' = 0 /\ pieces' = <<>>
  /\ UNCHANGED <<indexVars, transcriptVars, assemblyVars, synthesisVars, historyVars>>

Store ==
  /\ InStage("store") /\ IndexNext
  /\ UNCHANGED <<chunkVars, transcriptVars, assemblyVars, synthesisVars, historyVars>>
\* A command that replays a transcript got its index.
Stored ==
  /\ stage = "store" /\ \E c \in Command : At(c, "served")
  /\ stage' = "listen"
  /\ corpus' = Original /\ index' = Absent
  /\ command' = [c \in Command |-> Idle] /\ seen' = [c \in Command |-> {}]
  /\ UNCHANGED <<chunkVars, transcriptVars, assemblyVars, synthesisVars, historyVars>>

Listen ==
  /\ InStage("listen") /\ TranscriptNext
  /\ UNCHANGED <<chunkVars, indexVars, assemblyVars, synthesisVars, historyVars>>
\* An accepted utterance is searched; a refused one ends the replay.
Heard ==
  /\ stage = "listen" /\ verdict = "accepted" /\ delivered = Len(records) /\ session.raised = "no"
  /\ stage' = "search"
  /\ records' = <<>> /\ verdict' = "reading" /\ delivered' = 0
  /\ session' = SessionInit /\ assembled' = <<>>
  /\ UNCHANGED <<chunkVars, indexVars, assemblyVars, synthesisVars, historyVars>>

Search ==
  /\ InStage("search") /\ AssemblyNext
  /\ UNCHANGED <<chunkVars, indexVars, transcriptVars, synthesisVars, historyVars>>
\* The evidence is handed to the generator.
HandedOver ==
  /\ stage = "search" /\ turn > Intents + Len(Buckets) + 1
  /\ stage' = "answer"
  /\ phase' = "entry" /\ supplied' = evidence /\ mode' \in {"unified", "grounded"}
  /\ hits' = <<>> /\ selected' = <<>> /\ covered' = {} /\ used' = 0 /\ turn' = 0
  /\ evidence' = NoEvidence /\ budget' = 0
  /\ UNCHANGED <<chunkVars, indexVars, transcriptVars, loopVars, draft, overtaken, outcome, historyVars>>

Generate ==
  /\ InStage("answer") /\ SynthesisNext
  /\ UNCHANGED <<chunkVars, indexVars, transcriptVars, assemblyVars, historyVars>>
\* The answer becomes one of a session.
Remembered ==
  /\ stage = "answer" /\ phase = "done"
  /\ stage' = "session"
  /\ mode' = "unified" /\ phase' = "off" /\ supplied' = Nothing
  /\ round' = 0 /\ attempt' = 0 /\ calls' = 0 /\ counted' = 0
  /\ threads' = {} /\ reply' = NoReply /\ draft' = <<>>
  /\ overtaken' = "no" /\ outcome' = NoOutcome
  /\ UNCHANGED <<chunkVars, indexVars, transcriptVars, assemblyVars, historyVars>>

Remember ==
  /\ InStage("session") /\ HistoryNext
  /\ UNCHANGED <<chunkVars, indexVars, transcriptVars, assemblyVars, synthesisVars>>

AnsweringNext ==
  \/ Index \/ Indexed \/ Store \/ Stored \/ Listen \/ Heard
  \/ Search \/ HandedOver \/ Generate \/ Remembered \/ Remember
AnsweringSpec == AnsweringInit /\ [][AnsweringNext]_answeringVars
\* The event loop runs what is ready, and timers expire; threads may hang.
GenerationStep ==
  /\ InStage("answer") /\ LoopStep
  /\ UNCHANGED <<chunkVars, indexVars, transcriptVars, assemblyVars, historyVars>>
AnsweringFairSpec == AnsweringSpec /\ WF_answeringVars(GenerationStep)

\* The properties of the stages, each while it runs.
ChunksAreSound == stage = "index" => ChunksHoldTheText
AssemblyIsFair == stage = "search" => EveryIntentHasItsTurn
=============================================================================
