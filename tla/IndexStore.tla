----------------------------- MODULE IndexStore -----------------------------
(***************************************************************************)
(* The index file (indexing.py, ingestion.py, retrieval.py): commands that *)
(* build it and commands that query it are processes that share the corpus *)
(* and the index path, and a process may be killed between any two steps.  *)
(*                                                                         *)
(* An index is what it was built from: the corpus as it was read, the      *)
(* chunking and the embedding backend, which is what its fingerprints      *)
(* stand for.  A process that has ended leaves its slot to another one; one *)
(* that answers keeps it, so that the answer can be looked at.             *)
(***************************************************************************)
EXTENDS Naturals, FiniteSets

CONSTANTS
  Command,   \* slots for processes
  Corpus, Original,  \* contents of the corpus file, and its first
  Setting    \* configurations: a chunking and an embedding backend

ASSUME IndexAssumption ==
  /\ Original \in Corpus
  /\ \A setting \in Setting : {"chunking", "backend"} = DOMAIN setting

VARIABLES
  corpus,   \* what the corpus file holds
  index,    \* what the index path holds
  command,  \* the command in each slot
  seen      \* history: what the corpus held since a query loaded the index

indexVars == <<corpus, index, command, seen>>

Absent == [whole |-> TRUE]
Torn == [whole |-> FALSE]
Built == [corpus : Corpus, setting : Setting]

\* `has' is the index a build made or a query loaded.
Idle == [at |-> "idle"]
At(c, point) == command[c].at = point
Goes(c, point) == command' = [command EXCEPT ![c].at = point] /\ UNCHANGED seen
Ends(c) == command' = [command EXCEPT ![c] = Idle] /\ seen' = [seen EXCEPT ![c] = {}]

IndexInit ==
  /\ corpus = Original /\ index = Absent
  /\ command = [c \in Command |-> Idle] /\ seen = [c \in Command |-> {}]

\* Someone edits the corpus.
Edit ==
  /\ corpus' \in Corpus \ {corpus}
  /\ seen' = [c \in Command |->
               IF command[c].at \in {"loaded", "matched"} THEN seen[c] \cup {corpus'} ELSE seen[c]]
  /\ UNCHANGED <<index, command>>

Begins(c, process) ==
  /\ At(c, "idle")
  /\ command' = [command EXCEPT ![c] = process]
  /\ UNCHANGED <<corpus, index>>

-----------------------------------------------------------------------------
(* build-index.                                                            *)

\* load_document_inputs and ingest.
StartBuild(c, setting, forced) ==
  /\ Begins(c, [at |-> "read", forced |-> forced,
                has |-> [corpus |-> corpus, setting |-> setting]])
  /\ UNCHANGED seen

\* An index of the same fingerprint is reused, another one only replaced when
\* forced; one that does not load is never replaced.
CheckExisting(c) ==
  /\ At(c, "read")
  /\ IF index = Absent \/ (index \in Built \ {command[c].has} /\ command[c].forced)
     THEN Goes(c, "write") ELSE Ends(c)
  /\ UNCHANGED <<corpus, index>>

\* Mutant: the index is written in place.
OpenBug(c) ==
  /\ At(c, "write") /\ Goes(c, "writing")
  /\ index' = Torn /\ UNCHANGED corpus
\* write_index: into a temporary file beside the index,
Open(c) ==
  /\ At(c, "write") /\ Goes(c, "writing")
  /\ UNCHANGED <<corpus, index>>

\* which replaces it when it is complete,
Replace(c) ==
  /\ At(c, "writing") /\ Ends(c)
  /\ index' = command[c].has /\ UNCHANGED corpus

\* and is removed when writing it raises.
WriteFails(c) ==
  /\ At(c, "writing") /\ Ends(c)
  /\ UNCHANGED <<corpus, index>>

-----------------------------------------------------------------------------
(* A command that queries the index.                                       *)

\* load_index
StartQuery(c, setting, sourced) ==
  /\ index \in Built
  /\ Begins(c, [at |-> "loaded", sourced |-> sourced, has |-> index, setting |-> setting])
  /\ seen' = [seen EXCEPT ![c] = {corpus}]

Matches(c) ==
  /\ command[c].has.corpus = corpus
  /\ command[c].has.setting.chunking = command[c].setting.chunking

\* assert_index_matches_source, when the command names a source.
MatchSource(c) ==
  /\ At(c, "loaded")
  /\ IF command[c].sourced => Matches(c) THEN Goes(c, "matched") ELSE Ends(c)
  /\ UNCHANGED <<corpus, index>>

\* make_retriever: lexical search reads any index, the others their own.
Readable(c) == command[c].setting.backend \in {"lexical", command[c].has.setting.backend}
Serve(c) ==
  /\ At(c, "matched")
  /\ IF Readable(c) THEN Goes(c, "served") ELSE Ends(c)
  /\ UNCHANGED <<corpus, index>>

-----------------------------------------------------------------------------
\* The process is killed; its temporary file, which nobody reads, stays.
Killed(c) ==
  /\ command[c].at \notin {"idle", "served"} /\ Ends(c)
  /\ UNCHANGED <<corpus, index>>

IndexNext ==
  \/ Edit
  \/ \E c \in Command :
       \/ \E setting \in Setting, given \in BOOLEAN :
            StartBuild(c, setting, given) \/ StartQuery(c, setting, given)
       \/ CheckExisting(c) \/ Open(c) \/ Replace(c) \/ WriteFails(c)
       \/ MatchSource(c) \/ Serve(c)
       \/ Killed(c)

\* Builders that overlap, fail or are killed leave the index path empty or with
\* a whole index; a query that names its source is only served from an index of
\* what the source held while the command ran, in the chunking and for the
\* backend it asked for (write_index, assert_index_matches_source).
ServedAsAsked ==
  /\ index \in Built \cup {Absent}
  /\ \A c \in Command : At(c, "served") =>
       /\ Readable(c)
       /\ command[c].sourced => /\ command[c].has.corpus \in seen[c]
                                /\ command[c].has.setting.chunking = command[c].setting.chunking
=============================================================================
