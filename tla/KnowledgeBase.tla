--------------------------- MODULE KnowledgeBase ---------------------------
(***************************************************************************)
(* The knowledge base of the incident workflow: the records that feedback  *)
(* ingestion appends to manual_feedback.json (feedback_ingestion_agent.py),*)
(* the vector index built from them (vector_store.py), and the search the  *)
(* knowledge node makes (knowledge_agent.py, retriever.py).  Ingestions    *)
(* run in threads of the API, searches in threads of the API and of the    *)
(* worker; all of them share one data directory, without a lock.           *)
(*                                                                         *)
(* A document is its id.  Writing the file is opening it, which empties    *)
(* it, and one write.  The calls to the index are taken to be atomic.      *)
(* Each rebuild and each search opens its own client: on disk, or, if that *)
(* cannot be opened, in the memory of its process, where there may be      *)
(* another collection of the same name.                                    *)
(***************************************************************************)
EXTENDS Naturals, FiniteSets

CONSTANTS
    Seeds,      \* documents that come with the source
    Ingests,    \* ingestions, each with its document and record
    Searches,   \* searches of the knowledge node
    Processes,  \* the API and worker processes
    ProcessOf,  \* the process each ingestion and each search runs in
    Topics,     \* the documents that share a word with a query
    MaxFailures,  \* bound: processes that end and calls that fail
    MaxBusy     \* bound: ingestions and searches under way at once

Actors == Ingests \cup Searches
Documents == Seeds \cup Ingests

\* Where a client keeps its collection.
Places == {"disk"} \cup Processes

ASSUME KnowledgeAssumption ==
    /\ Seeds # {}
    /\ Seeds \cap Ingests = {}
    /\ Ingests \cap Searches = {}
    /\ "disk" \notin Processes
    /\ ProcessOf \in [Actors -> Processes]
    /\ Topics \subseteq SUBSET Documents
    /\ MaxFailures \in Nat
    /\ MaxBusy \in Nat

VARIABLES
    file,     \* manual_feedback.json: its state and, if whole, its records
    docs,     \* the documents under docs/feedback
    there,    \* whether there is a collection, by place
    index,    \* the ids in it, by place
    pc,       \* where each ingestion and each search is
    base,     \* the records an ingestion has read
    known,    \* the documents a search has loaded (documents_by_id)
    loaded,   \* the documents to be put into a new collection
    place,    \* where the client in hand keeps its collection
    handle,   \* the collection in hand: "none", "live", or "gone" (deleted)
    topic,    \* of the query; the searches of a behaviour make the same one
    chroma,   \* is chromadb installed?
    failures,
    \* History:
    harmed,   \* two ingestions had the file at once, or one failed writing
    versions  \* the sets of records the file has held whole

shared == <<file, docs, there, index>>
memory == <<base, known, loaded, place, handle>>
fixed == <<topic, chroma>>
history == <<harmed, versions>>
vars == <<shared, pc, memory, fixed, failures, history>>

IngestPoints == {"idle", "read", "truncate", "write", "open", "load", "delete",
                 "create", "add", "done", "failed", "dead"}
SearchPoints == {"idle", "documents", "open", "get", "load", "delete", "create",
                 "add", "getAgain", "query", "keyword", "last", "answered",
                 "nothing", "failed"}

Whole(records) == [state |-> "whole", records |-> records]
Empty == [state |-> "empty", records |-> {}]
Torn == [state |-> "torn", records |-> {}]

TypeOK ==
    /\ file \in {Whole(records) : records \in SUBSET Ingests} \cup {Empty, Torn}
    /\ docs \subseteq Ingests
    /\ there \in [Places -> BOOLEAN]
    /\ index \in [Places -> SUBSET Documents]
    /\ pc \in [Actors -> IngestPoints \cup SearchPoints]
    /\ \A i \in Ingests : pc[i] \in IngestPoints
    /\ \A s \in Searches : pc[s] \in SearchPoints
    /\ base \in [Ingests -> SUBSET Ingests]
    /\ known \in [Searches -> SUBSET Documents]
    /\ loaded \in [Actors -> SUBSET Documents]
    /\ place \in [Actors -> Places]
    /\ \A p \in Actors : place[p] \in {"disk", ProcessOf[p]}
    /\ handle \in [Actors -> {"none", "live", "gone"}]
    /\ topic \in Topics
    /\ chroma \in BOOLEAN
    /\ failures \in 0..MaxFailures
    /\ harmed \in BOOLEAN
    /\ versions \subseteq SUBSET Ingests

\* Without a file there are no records either.
Init ==
    /\ file = Whole({})
    /\ docs = {}
    /\ there = [x \in Places |-> FALSE]
    /\ index = [x \in Places |-> {}]
    /\ pc = [p \in Actors |-> "idle"]
    /\ base = [i \in Ingests |-> {}]
    /\ known = [s \in Searches |-> {}]
    /\ loaded = [p \in Actors |-> {}]
    /\ place = [p \in Actors |-> "disk"]
    /\ handle = [p \in Actors |-> "none"]
    /\ topic \in Topics
    /\ chroma \in BOOLEAN
    /\ failures = 0
    /\ harmed = FALSE
    /\ versions = {{}}

-----------------------------------------------------------------------------
(* The file.                                                               *)

Readable == file.state = "whole"

\* load_documents: every file of the directory is parsed, and an empty one
\* is no JSON.
Loaded == Seeds \cup file.records

Goes(p, point) == pc' = [pc EXCEPT ![p] = point]

\* Between reading the records and having written them.
HasRecords(i) == pc[i] \in {"truncate", "write"}

Ended == {"idle", "done", "dead", "answered", "nothing", "failed"}
MayStart == Cardinality({p \in Actors : pc[p] \notin Ended}) < MaxBusy

WriteDocument(i) ==
    /\ pc[i] = "idle"
    /\ MayStart
    /\ docs' = docs \cup {i}
    /\ Goes(i, "read")
    /\ UNCHANGED <<file, there, index, memory, fixed, failures, history>>

\* _append_knowledge_record takes an empty file for one without records.
ReadRecords(i) ==
    /\ pc[i] = "read"
    /\ file.state # "torn"
    /\ base' = [base EXCEPT ![i] = file.records]
    /\ Goes(i, "truncate")
    /\ harmed' = (harmed \/ \E j \in Ingests : HasRecords(j))
    /\ UNCHANGED <<shared, known, loaded, place, handle, fixed, failures, versions>>

\* Part of what is being written, or the rest of what never was, does not
\* parse: the ingestion fails, its document has been written.
ReadRaises(i) ==
    /\ pc[i] = "read"
    /\ \/ file.state = "torn"
       \/ file.state = "empty" /\ \E j \in Ingests : pc[j] = "write"
    /\ Goes(i, "failed")
    /\ UNCHANGED <<shared, memory, fixed, failures, history>>

\* write_text opens the file for writing.
Truncate(i) ==
    /\ pc[i] = "truncate"
    /\ file' = Empty
    /\ Goes(i, "write")
    /\ UNCHANGED <<docs, there, index, memory, fixed, failures, history>>

\* Mutant: all that load_documents finds is written to the one file.
ExtendedAll(i) == base[i] \cup {i} \cup Seeds

\* Mutant: the records that were read are not written again.
ExtendedAnew(i) == {i}

Extended(i) == base[i] \cup {i}

\* What is written over a longer text leaves the end of it.
Write(i) ==
    /\ pc[i] = "write"
    /\ \/ file' = Whole(Extended(i))
       \/ file.state # "empty" /\ file' = Torn
    /\ base' = [base EXCEPT ![i] = {}]
    /\ Goes(i, "open")
    /\ versions' = versions \cup {Extended(i)}
    /\ UNCHANGED <<docs, there, index, known, loaded, place, handle, fixed,
                   failures, harmed>>

-----------------------------------------------------------------------------
(* The index: _build_or_refresh_index_with_client, called at the end of an *)
(* ingestion, which ignores what it raises, and by a search that finds no  *)
(* collection.                                                             *)

\* Where an exception sends p to, and where a finished rebuild does.
Caught(p) == IF p \in Ingests THEN "done" ELSE "keyword"
Rebuilt(p) == IF p \in Ingests THEN "done" ELSE "getAgain"

\* An exception in the rebuild or in the vector search.
Raises(p) ==
    /\ Goes(p, Caught(p))
    /\ loaded' = [loaded EXCEPT ![p] = {}]
    /\ place' = [place EXCEPT ![p] = "disk"]
    /\ handle' = [handle EXCEPT ![p] = "none"]
    /\ UNCHANGED <<shared, base, known, fixed, history>>

\* _client: the index on disk, or one in memory if that cannot be opened.
Open(p) ==
    /\ pc[p] = "open"
    /\ chroma
    /\ \E x \in {"disk", ProcessOf[p]} : place' = [place EXCEPT ![p] = x]
    /\ Goes(p, IF p \in Ingests THEN "load" ELSE "get")
    /\ UNCHANGED <<shared, base, known, loaded, handle, fixed, failures, history>>

Load(p) ==
    /\ pc[p] = "load"
    /\ Readable
    /\ loaded' = [loaded EXCEPT ![p] = Loaded]
    /\ Goes(p, "delete")
    /\ UNCHANGED <<shared, base, known, place, handle, fixed, failures, history>>

\* Whoever holds the collection at x holds it in vain.
Gone(x) == [p \in Actors |->
               IF handle[p] = "live" /\ place[p] = x THEN "gone" ELSE handle[p]]

\* delete_collection, and it does not matter if there was none.
Delete(p) ==
    /\ pc[p] = "delete"
    /\ there' = [there EXCEPT ![place[p]] = FALSE]
    /\ index' = [index EXCEPT ![place[p]] = {}]
    /\ handle' = Gone(place[p])
    /\ Goes(p, "create")
    /\ UNCHANGED <<file, docs, base, known, loaded, place, fixed, failures, history>>

\* Mutant: a collection that is there is taken as it is.
CreateOrGet(p) ==
    /\ pc[p] = "create"
    /\ there' = [there EXCEPT ![place[p]] = TRUE]
    /\ handle' = [handle EXCEPT ![p] = "live"]
    /\ Goes(p, "add")
    /\ UNCHANGED <<file, docs, index, base, known, loaded, place, fixed, failures,
                   history>>

Create(p) ==
    /\ pc[p] = "create"
    /\ ~ there[place[p]]
    /\ there' = [there EXCEPT ![place[p]] = TRUE]
    /\ handle' = [handle EXCEPT ![p] = "live"]
    /\ Goes(p, "add")
    /\ UNCHANGED <<file, docs, index, base, known, loaded, place, fixed, failures,
                   history>>

\* What is in the collection stays there.
Add(p) ==
    /\ pc[p] = "add"
    /\ handle[p] = "live"
    /\ index' = [index EXCEPT ![place[p]] = @ \cup loaded[p]]
    /\ loaded' = [loaded EXCEPT ![p] = {}]
    /\ place' = [place EXCEPT ![p] = IF p \in Ingests THEN "disk" ELSE @]
    /\ handle' = [handle EXCEPT ![p] = "none"]
    /\ Goes(p, Rebuilt(p))
    /\ UNCHANGED <<file, docs, there, base, known, fixed, failures, history>>

\* There is no chromadb; a file does not parse; somebody else has created
\* the collection; somebody else has deleted it.
RebuildRaises(p) ==
    /\ \/ pc[p] = "open" /\ ~ chroma
       \/ pc[p] = "load" /\ ~ Readable
       \/ pc[p] = "create" /\ there[place[p]]
       \/ pc[p] = "add" /\ handle[p] = "gone"
    /\ Raises(p)
    /\ UNCHANGED failures

-----------------------------------------------------------------------------
(* The search: retrieve_knowledge, which first tries search_knowledge_     *)
(* vector.                                                                 *)

StartSearch(s) ==
    /\ pc[s] \in Ended
    /\ MayStart
    /\ known' = [known EXCEPT ![s] = {}]
    /\ Goes(s, "documents")
    /\ UNCHANGED <<shared, base, loaded, place, handle, fixed, failures, history>>

LoadKnown(s) ==
    /\ pc[s] = "documents"
    /\ Readable
    /\ known' = [known EXCEPT ![s] = Loaded]
    /\ Goes(s, "open")
    /\ UNCHANGED <<shared, base, loaded, place, handle, fixed, failures, history>>

\* Mutant: a missing collection is left to the next ingestion.
WithoutIndexNever == "keyword"

\* A missing collection is built first.
WithoutIndex == "load"

GetCollection(s) ==
    /\ pc[s] \in {"get", "getAgain"}
    /\ there[place[s]]
    /\ handle' = [handle EXCEPT ![s] = "live"]
    /\ Goes(s, "query")
    /\ UNCHANGED <<shared, base, known, loaded, place, fixed, failures, history>>

GetRaises(s) ==
    /\ pc[s] = "get"
    /\ ~ there[place[s]]
    /\ Goes(s, WithoutIndex)
    /\ UNCHANGED <<shared, memory, fixed, failures, history>>

\* Mutant: an empty result is the answer.
WithoutResultsNothing == "nothing"

\* Without results from the index, words are compared.
WithoutResults == "last"

\* The nearest few of the collection, of which those are kept that the
\* search has loaded.
Query(s) ==
    /\ pc[s] = "query"
    /\ handle[s] = "live"
    /\ place' = [place EXCEPT ![s] = "disk"]
    /\ handle' = [handle EXCEPT ![s] = "none"]
    /\ \E nearest \in SUBSET index[place[s]] :
          /\ nearest = {} => index[place[s]] = {}
          /\ Goes(s, IF nearest \cap known[s] # {} THEN "answered" ELSE WithoutResults)
    /\ UNCHANGED <<shared, base, known, loaded, fixed, failures, history>>

\* The same for a search; the collection may be gone again after its rebuild.
SearchRaises(s) ==
    /\ \/ pc[s] = "documents" /\ ~ Readable
       \/ pc[s] = "getAgain" /\ ~ there[place[s]]
       \/ pc[s] = "query" /\ handle[s] = "gone"
    /\ Raises(s)
    /\ UNCHANGED failures

\* search_knowledge, for the exception and once more for the missing results.
Keyword(s) ==
    /\ pc[s] \in {"keyword", "last"}
    /\ Readable
    /\ Goes(s, IF Loaded \cap topic # {} THEN "answered"
               ELSE IF pc[s] = "keyword" THEN "last" ELSE "nothing")
    /\ UNCHANGED <<shared, memory, fixed, failures, history>>

\* Nothing catches this one: the knowledge node fails.
KeywordRaises(s) ==
    /\ pc[s] \in {"keyword", "last"}
    /\ ~ Readable
    /\ Goes(s, "failed")
    /\ UNCHANGED <<shared, memory, fixed, failures, history>>

-----------------------------------------------------------------------------

Fails == failures < MaxFailures /\ failures' = failures + 1

\* The write fails (the disk is full), and so does the ingestion.
WriteFails(i) ==
    /\ pc[i] = "write"
    /\ Fails
    /\ file' \in {file, Torn}
    /\ harmed' = TRUE
    /\ base' = [base EXCEPT ![i] = {}]
    /\ Goes(i, "failed")
    /\ UNCHANGED <<docs, there, index, known, loaded, place, handle, fixed, versions>>

\* A call to the index fails: a failing delete_collection is ignored, and a
\* failing get_collection is taken for a missing collection.
IndexIgnores(p) ==
    /\ Fails
    /\ \/ pc[p] = "delete" /\ Goes(p, "create")
       \/ pc[p] = "get" /\ Goes(p, WithoutIndex)
    /\ UNCHANGED <<shared, memory, fixed, history>>

IndexFails(p) ==
    /\ Fails
    /\ pc[p] \in {"create", "add", "getAgain", "query"}
    /\ Raises(p)

\* A process ends with all that run in it and with the collection in its
\* memory; a workflow may search again.
ProcessEnds(x) ==
    LET Lost(p) == ProcessOf[p] = x /\ pc[p] \notin Ended
        Cut == \E i \in Ingests : Lost(i) /\ pc[i] = "write"
    IN /\ Fails
       /\ file' \in IF Cut THEN {file, Torn} ELSE {file}
       /\ harmed' = (harmed \/ Cut)
       /\ there' = [there EXCEPT ![x] = FALSE]
       /\ index' = [index EXCEPT ![x] = {}]
       /\ pc' = [p \in Actors |-> IF ~ Lost(p) THEN pc[p]
                                  ELSE IF p \in Ingests THEN "dead" ELSE "idle"]
       /\ base' = [i \in Ingests |-> IF Lost(i) THEN {} ELSE base[i]]
       /\ known' = [s \in Searches |-> IF Lost(s) THEN {} ELSE known[s]]
       /\ loaded' = [p \in Actors |-> IF Lost(p) THEN {} ELSE loaded[p]]
       /\ place' = [p \in Actors |-> IF Lost(p) THEN "disk" ELSE place[p]]
       /\ handle' = [p \in Actors |-> IF Lost(p) THEN "none" ELSE handle[p]]
       /\ UNCHANGED <<docs, fixed, versions>>

IngestStep(i) ==
    ReadRecords(i) \/ ReadRaises(i) \/ Truncate(i) \/ Write(i)

RebuildStep(p) ==
    Open(p) \/ Load(p) \/ Delete(p) \/ Create(p) \/ Add(p) \/ RebuildRaises(p)

SearchStep(s) ==
    \/ LoadKnown(s) \/ GetCollection(s) \/ GetRaises(s)
    \/ Query(s) \/ Keyword(s) \/ SearchRaises(s) \/ KeywordRaises(s)

Next ==
    \/ \E i \in Ingests : WriteDocument(i) \/ IngestStep(i) \/ WriteFails(i)
    \/ \E p \in Actors : RebuildStep(p) \/ IndexIgnores(p) \/ IndexFails(p)
    \/ \E s \in Searches : StartSearch(s) \/ SearchStep(s)
    \/ \E x \in Processes : ProcessEnds(x)

Spec == Init /\ [][Next]_vars

\* Threads that have begun run on.
Fairness ==
    /\ \A i \in Ingests : WF_vars(IngestStep(i))
    /\ \A p \in Actors : WF_vars(RebuildStep(p))
    /\ \A s \in Searches : WF_vars(SearchStep(s))

FairSpec == Spec /\ Fairness

-----------------------------------------------------------------------------
(* Properties.                                                             *)

\* The record of an ingestion has been written.
Written(i) == pc[i] \in {"open", "load", "delete", "create", "add", "done"}

(* As long as no two ingestions have had the file at the same time and     *)
(* none has died writing it, the file holds, whenever nobody writes, the   *)
(* records of all ingestions that have written theirs.                     *)
RecordsKept ==
    ~ harmed =>
        \/ \E i \in Ingests : pc[i] = "write"
        \/ Readable /\ \A i \in Ingests : Written(i) => i \in file.records

IsVersion(documents) == \E v \in versions : documents = Seeds \cup v

(* A collection, on disk or in memory, is empty or holds the documents of  *)
(* one version of the file, never of two: whichever rebuilds delete, create*)
(* and fill it at the same time, from whatever they had loaded, and        *)
(* whatever calls of theirs fail.                                          *)
IndexIsOneVersion ==
    \A x \in Places : there[x] => index[x] = {} \/ IsVersion(index[x])

(* A search that ends with nothing had nothing to find: although another   *)
(* request may delete the collection, create it anew or fill it between    *)
(* any two of its steps, it ends with nothing only if no document it had   *)
(* loaded shares a word with the query.                                    *)
FindsWhatMatches ==
    \A s \in Searches :
        ~ harmed /\ pc[s] = "nothing" => known[s] \cap topic = {}

(* If searches keep coming as far as the collection of some place, there is*)
(* one again and again, although a process may have ended after deleting   *)
(* it.                                                                     *)
IndexComesBack ==
    \A x \in Places :
        []<>(\E s \in Searches : pc[s] = "get" /\ place[s] = x) => []<>there[x]

=============================================================================
