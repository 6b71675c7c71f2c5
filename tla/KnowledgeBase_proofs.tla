------------------------ MODULE KnowledgeBase_proofs ------------------------
(***************************************************************************)
(* Proofs about KnowledgeBase, for any number of seeds, ingestions and     *)
(* searches, and any number of them under way or dying at once.            *)
(***************************************************************************)
EXTENDS KnowledgeBase, TLAPS

\* An ingestion or a search moves to a point of its own kind.
LEMMA Moves ==
    ASSUME TypeOK, NEW p \in Actors, NEW point, Goes(p, point),
           p \in Ingests => point \in IngestPoints,
           p \in Searches => point \in SearchPoints
    PROVE  /\ pc' \in [Actors -> IngestPoints \cup SearchPoints]
           /\ \A i \in Ingests : pc'[i] \in IngestPoints
           /\ \A s \in Searches : pc'[s] \in SearchPoints
           /\ \A q \in Actors : pc'[q] = IF q = p THEN point ELSE pc[q]
<1>1. point \in IngestPoints \cup SearchPoints
  BY DEF Actors
<1>2. pc' = [pc EXCEPT ![p] = point] /\ pc \in [Actors -> IngestPoints \cup SearchPoints]
  BY DEF Goes, TypeOK
<1>3. \A q \in Actors : pc'[q] = IF q = p THEN point ELSE pc[q]
  BY <1>2
<1>4. pc' \in [Actors -> IngestPoints \cup SearchPoints]
  BY <1>1, <1>2
<1>. QED  BY <1>3, <1>4 DEF TypeOK, Actors

LEMMA ActorKinds == Ingests \subseteq Actors /\ Searches \subseteq Actors
                    /\ Ingests \cap Searches = {}
  BY KnowledgeAssumption DEF Actors

FileStates == {Whole(records) : records \in SUBSET Ingests} \cup {Empty, Torn}

\* The type of everything but the program points.
DataTypes ==
    /\ file \in FileStates /\ docs \subseteq Ingests
    /\ there \in [Places -> BOOLEAN] /\ index \in [Places -> SUBSET Documents]
    /\ base \in [Ingests -> SUBSET Ingests]
    /\ known \in [Searches -> SUBSET Documents]
    /\ loaded \in [Actors -> SUBSET Documents]
    /\ place \in [Actors -> Places]
    /\ \A p \in Actors : place[p] \in {"disk", ProcessOf[p]}
    /\ handle \in [Actors -> {"none", "live", "gone"}]
    /\ topic \in Topics /\ chroma \in BOOLEAN
    /\ failures \in 0..MaxFailures /\ harmed \in BOOLEAN
    /\ versions \subseteq SUBSET Ingests

LEMMA FileType ==
    ASSUME TypeOK
    PROVE  /\ file.records \in SUBSET Ingests
           /\ Readable => file = Whole(file.records)
           /\ file.state = "empty" => file = Empty
           /\ Loaded \in SUBSET Documents
  BY DEF TypeOK, Whole, Empty, Torn, Readable, Loaded, Documents

-----------------------------------------------------------------------------
(* Every variable keeps its type.                                          *)
THEOREM TypeCorrect == Spec => []TypeOK
<1>1. Init => TypeOK
  <2>. SUFFICES ASSUME Init PROVE TypeOK
    OBVIOUS
  <2>1. Whole({}) \in {Whole(records) : records \in SUBSET Ingests}
    OBVIOUS
  <2>2. pc \in [Actors -> IngestPoints \cup SearchPoints]
        /\ (\A i \in Ingests : pc[i] \in IngestPoints)
        /\ (\A s \in Searches : pc[s] \in SearchPoints)
    BY DEF Init, Actors, IngestPoints, SearchPoints
  <2>3. /\ base \in [Ingests -> SUBSET Ingests] /\ known \in [Searches -> SUBSET Documents]
        /\ loaded \in [Actors -> SUBSET Documents]
        /\ handle \in [Actors -> {"none", "live", "gone"}]
        /\ there \in [Places -> BOOLEAN] /\ index \in [Places -> SUBSET Documents]
        /\ place \in [Actors -> Places] /\ \A p \in Actors : place[p] = "disk"
    BY DEF Init, Places
  <2>4. 0 \in 0..MaxFailures
    BY KnowledgeAssumption
  <2>. QED  BY <2>1, <2>2, <2>3, <2>4 DEF Init, TypeOK
<1>2. TypeOK /\ [Next]_vars => TypeOK'
  <2>. SUFFICES ASSUME TypeOK, [Next]_vars PROVE TypeOK'
    OBVIOUS
  <2>1. ASSUME NEW p \in Actors, NEW point, Goes(p, point),
               p \in Ingests => point \in IngestPoints,
               p \in Searches => point \in SearchPoints,
               DataTypes'
        PROVE  TypeOK'
    BY <2>1, Moves DEF TypeOK, DataTypes, FileStates
  <2>2. /\ DataTypes
        /\ Ingests \subseteq Actors /\ Searches \subseteq Actors
        /\ Ingests \cap Searches = {}
    BY ActorKinds DEF TypeOK, DataTypes, FileStates
  <2>3. ASSUME NEW i \in Ingests, WriteDocument(i) PROVE TypeOK'
    <3>1. DataTypes'
      BY <2>2, <2>3 DEF WriteDocument, DataTypes, shared, memory, fixed, history
    <3>. QED  BY <2>1, <2>2, <2>3, <3>1 DEF WriteDocument, IngestPoints
  <2>4. ASSUME NEW i \in Ingests, ReadRecords(i) \/ ReadRaises(i) PROVE TypeOK'
    <3>1. DataTypes'
      BY <2>2, <2>4, FileType
      DEF ReadRecords, ReadRaises, DataTypes, shared, memory, fixed, history
    <3>2. PICK point \in IngestPoints : Goes(i, point)
      BY <2>4 DEF ReadRecords, ReadRaises, IngestPoints
    <3>. QED  BY <2>1, <2>2, <3>1, <3>2
  <2>5. ASSUME NEW i \in Ingests, Truncate(i) PROVE TypeOK'
    <3>1. DataTypes'
      BY <2>2, <2>5 DEF Truncate, DataTypes, FileStates, memory, fixed, history
    <3>. QED  BY <2>1, <2>2, <2>5, <3>1 DEF Truncate, IngestPoints
  <2>6. ASSUME NEW i \in Ingests, Write(i) \/ WriteFails(i) PROVE TypeOK'
    <3>1. Extended(i) \in SUBSET Ingests
      BY <2>2 DEF Extended, DataTypes
    <3>2. failures' \in 0..MaxFailures
      BY <2>2, <2>6, KnowledgeAssumption DEF Write, WriteFails, Fails, DataTypes
    <3>3. file' \in FileStates /\ versions' \subseteq SUBSET Ingests
      BY <2>2, <2>6, <3>1 DEF Write, WriteFails, DataTypes, FileStates
    <3>4. DataTypes'
      BY <2>2, <2>6, <3>2, <3>3 DEF Write, WriteFails, DataTypes, fixed
    <3>5. PICK point \in IngestPoints : Goes(i, point)
      BY <2>6 DEF Write, WriteFails, IngestPoints
    <3>. QED  BY <2>1, <2>2, <3>4, <3>5
  <2>7. ASSUME NEW p \in Actors, Raises(p), failures' \in 0..MaxFailures
        PROVE  TypeOK'
    <3>1. DataTypes'
      BY <2>2, <2>7 DEF Raises, DataTypes, Places, shared, fixed, history
    <3>2. /\ p \in Ingests => Caught(p) \in IngestPoints
          /\ p \in Searches => Caught(p) \in SearchPoints
      BY <2>2 DEF Caught, IngestPoints, SearchPoints
    <3>. QED  BY <2>1, <2>7, <3>1, <3>2 DEF Raises
  <2>8. ASSUME NEW p \in Actors, Open(p) \/ Load(p) \/ Delete(p) \/ Create(p) \/ Add(p)
        PROVE  TypeOK'
    <3>1. CASE Open(p)
      <4>1. ProcessOf[p] \in Processes
        BY KnowledgeAssumption
      <4>2. DataTypes'
        BY <2>2, <3>1, <4>1 DEF Open, DataTypes, Places, shared, fixed, history
      <4>. QED  BY <2>1, <2>2, <3>1, <4>2 DEF Open, IngestPoints, SearchPoints
    <3>2. CASE Load(p)
      <4>1. DataTypes'
        BY <2>2, <3>2, FileType DEF Load, DataTypes, shared, fixed, history
      <4>. QED  BY <2>1, <2>2, <3>2, <4>1 DEF Load, IngestPoints, SearchPoints
    <3>3. CASE Delete(p)
      <4>1. DataTypes'
        BY <2>2, <3>3 DEF Delete, Gone, DataTypes, fixed, history
      <4>. QED  BY <2>1, <2>2, <3>3, <4>1 DEF Delete, IngestPoints, SearchPoints
    <3>4. CASE Create(p)
      <4>1. DataTypes'
        BY <2>2, <3>4 DEF Create, DataTypes, fixed, history
      <4>. QED  BY <2>1, <2>2, <3>4, <4>1 DEF Create, IngestPoints, SearchPoints
    <3>5. CASE Add(p)
      <4>1. index' \in [Places -> SUBSET Documents]
        BY <2>2, <3>5 DEF Add, DataTypes
      <4>2. DataTypes'
        BY <2>2, <3>5, <4>1 DEF Add, DataTypes, Places, fixed, history
      <4>3. /\ p \in Ingests => Rebuilt(p) \in IngestPoints
            /\ p \in Searches => Rebuilt(p) \in SearchPoints
        BY <2>2 DEF Rebuilt, IngestPoints, SearchPoints
      <4>. QED  BY <2>1, <3>5, <4>2, <4>3 DEF Add
    <3>. QED  BY <2>8, <3>1, <3>2, <3>3, <3>4, <3>5
  <2>9. ASSUME NEW p \in Actors, RebuildRaises(p) \/ IndexFails(p) PROVE TypeOK'
    <3>1. failures' \in 0..MaxFailures
      BY <2>2, <2>9, KnowledgeAssumption DEF RebuildRaises, IndexFails, Fails, DataTypes
    <3>. QED  BY <2>7, <2>9, <3>1 DEF RebuildRaises, IndexFails
  <2>10. ASSUME NEW p \in Actors, IndexIgnores(p) PROVE TypeOK'
    <3>1. failures' \in 0..MaxFailures
      BY <2>2, <2>10, KnowledgeAssumption DEF IndexIgnores, Fails, DataTypes
    <3>2. DataTypes'
      BY <2>2, <2>10, <3>1 DEF IndexIgnores, DataTypes, shared, memory, fixed, history
    <3>3. p \in Ingests => pc[p] # "get"
      BY DEF TypeOK, IngestPoints
    <3>. QED  BY <2>1, <2>2, <2>10, <3>2, <3>3
              DEF IndexIgnores, WithoutIndex, IngestPoints, SearchPoints
  <2>11. ASSUME NEW s \in Searches, SearchRaises(s) PROVE TypeOK'
    BY <2>2, <2>7, <2>11 DEF SearchRaises, DataTypes
  <2>12. ASSUME NEW s \in Searches,
                \/ StartSearch(s) \/ LoadKnown(s) \/ GetCollection(s) \/ GetRaises(s)
                \/ Query(s) \/ Keyword(s) \/ KeywordRaises(s)
         PROVE  TypeOK'
    <3>1. /\ known' \in [Searches -> SUBSET Documents]
          /\ handle' \in [Actors -> {"none", "live", "gone"}]
          /\ place' \in [Actors -> Places]
          /\ \A p \in Actors : place'[p] \in {"disk", ProcessOf[p]}
      BY <2>2, <2>12, FileType
      DEF StartSearch, LoadKnown, GetCollection, GetRaises, Query, Keyword,
          KeywordRaises, DataTypes, Places, memory
    <3>2. PICK point \in SearchPoints : Goes(s, point)
      BY <2>12 DEF StartSearch, LoadKnown, GetCollection, GetRaises, WithoutIndex,
                   Query, WithoutResults, Keyword, KeywordRaises, SearchPoints
    <3>3. UNCHANGED <<shared, base, loaded, fixed, failures, history>>
      BY <2>12 DEF StartSearch, LoadKnown, GetCollection, GetRaises, Query, Keyword,
                   KeywordRaises, memory
    <3>4. DataTypes'
      BY <2>2, <3>1, <3>3 DEF DataTypes, shared, fixed, history
    <3>. QED  BY <2>1, <2>2, <3>2, <3>4
  <2>13. ASSUME NEW x \in Processes, ProcessEnds(x) PROVE TypeOK'
    <3>1. file' \in FileStates /\ harmed' \in BOOLEAN
      BY <2>2, <2>13 DEF ProcessEnds, FileStates, DataTypes
    <3>2. failures' \in 0..MaxFailures
      BY <2>2, <2>13, KnowledgeAssumption DEF ProcessEnds, Fails, DataTypes
    <3>3. there' \in [Places -> BOOLEAN] /\ index' \in [Places -> SUBSET Documents]
      BY <2>2, <2>13 DEF ProcessEnds, DataTypes
    <3>4. /\ base' \in [Ingests -> SUBSET Ingests]
          /\ known' \in [Searches -> SUBSET Documents]
          /\ loaded' \in [Actors -> SUBSET Documents]
          /\ place' \in [Actors -> Places]
          /\ \A p \in Actors : place'[p] \in {"disk", ProcessOf[p]}
          /\ handle' \in [Actors -> {"none", "live", "gone"}]
      BY <2>2, <2>13 DEF ProcessEnds, DataTypes, Places
    <3>5. /\ pc' \in [Actors -> IngestPoints \cup SearchPoints]
          /\ \A i \in Ingests : pc'[i] \in IngestPoints
          /\ \A s \in Searches : pc'[s] \in SearchPoints
      BY <2>2, <2>13 DEF ProcessEnds, TypeOK, IngestPoints, SearchPoints
    <3>6. UNCHANGED <<docs, topic, chroma, versions>>
      BY <2>13 DEF ProcessEnds, fixed
    <3>. QED  BY <2>2, <3>1, <3>2, <3>3, <3>4, <3>5, <3>6
              DEF TypeOK, DataTypes, FileStates
  <2>14. CASE UNCHANGED vars
    BY <2>14 DEF vars, shared, memory, fixed, history, TypeOK
  <2>. QED
    BY <2>2, <2>3, <2>4, <2>5, <2>6, <2>8, <2>9, <2>10, <2>11, <2>12, <2>13, <2>14
    DEF Next, IngestStep, RebuildStep, SearchStep
<1>. QED  BY <1>1, <1>2, PTL DEF Spec

-----------------------------------------------------------------------------
(* The file.                                                               *)

Writing == \E i \in Ingests : pc[i] = "write"

\* One ingestion at a time has the records; it has all of them, and the file
\* is whole unless it is being written.
FileInv ==
    ~ harmed =>
        /\ \A i, j \in Ingests : HasRecords(i) /\ HasRecords(j) => i = j
        /\ Writing => file = Empty
        /\ ~ Writing => Readable
        /\ ~ Writing => \A j \in Ingests : Written(j) => j \in file.records
        /\ \A i \in Ingests : pc[i] = "truncate" => base[i] = file.records
        /\ \A i, j \in Ingests : HasRecords(i) /\ Written(j) => j \in base[i]

\* What a search has loaded is never lost.
KnownKept ==
    ~ harmed => \A s \in Searches :
        /\ ~ Writing => known[s] \subseteq Loaded
        /\ \A i \in Ingests : HasRecords(i) => known[s] \subseteq Seeds \cup base[i]

Outside(i) == ~ HasRecords(i) /\ ~ Written(i)

\* Steps that have nothing to do with the file.
LEMMA FileFrame ==
    ASSUME FileInv, KnownKept,
           file' = file, harmed => harmed',
           \A i \in Ingests :
               \/ pc'[i] = pc[i] /\ base'[i] = base[i]
               \/ Written(i)' /\ Written(i)
               \/ Outside(i)',
           \A i \in Ingests : pc[i] = "write" /\ pc'[i] # "write" => harmed'
    PROVE  FileInv'
<1>1. ~ harmed' => ~ harmed /\ (Writing' <=> Writing)
  BY DEF Writing, Outside, HasRecords, Written
<1>2. \A i \in Ingests : /\ HasRecords(i)' => HasRecords(i) /\ pc'[i] = pc[i] /\ base'[i] = base[i]
                         /\ Written(i)' => Written(i)
  BY DEF Outside, HasRecords, Written
<1>. QED  BY <1>1, <1>2 DEF FileInv, Readable, HasRecords

LEMMA KnownFrame ==
    ASSUME FileInv, KnownKept,
           file' = file, harmed => harmed',
           \A i \in Ingests :
               \/ pc'[i] = pc[i] /\ base'[i] = base[i]
               \/ Written(i)' /\ Written(i)
               \/ Outside(i)',
           \A i \in Ingests : pc[i] = "write" /\ pc'[i] # "write" => harmed',
           \A s \in Searches : known'[s] \subseteq known[s]
    PROVE  KnownKept'
<1>1. ~ harmed' => ~ harmed /\ (Writing' <=> Writing)
  BY DEF Writing, Outside, HasRecords, Written
<1>2. \A i \in Ingests : HasRecords(i)' => HasRecords(i) /\ base'[i] = base[i]
  BY DEF Outside, HasRecords, Written
<1>3. Loaded' = Loaded
  BY DEF Loaded
<1>. QED  BY <1>1, <1>2, <1>3 DEF KnownKept

\* A step of one actor moves no other.
LEMMA OthersStay ==
    ASSUME TypeOK, NEW p \in Actors, NEW point, Goes(p, point)
    PROVE  \A q \in Actors : pc'[q] = IF q = p THEN point ELSE pc[q]
  BY DEF Goes, TypeOK

\* What is left of the actors of a process that has ended.
LEMMA Ends ==
    ASSUME TypeOK, NEW x \in Processes, ProcessEnds(x)
    PROVE  /\ \A i \in Ingests : \/ pc'[i] = pc[i] /\ base'[i] = base[i]
                                 \/ pc'[i] = "dead"
           /\ \A s \in Searches : \/ pc'[s] = pc[s] /\ known'[s] = known[s]
                                  \/ pc'[s] = "idle" /\ known'[s] = {}
           /\ \A p \in Actors : \/ /\ pc'[p] = pc[p] /\ loaded'[p] = loaded[p]
                                   /\ place'[p] = place[p] /\ handle'[p] = handle[p]
                                   /\ ProcessOf[p] # x \/ pc[p] \in Ended
                                \/ pc'[p] \in {"dead", "idle"} /\ handle'[p] = "none"
           /\ ~ harmed' => ~ harmed /\ file' = file
           /\ \A i \in Ingests : pc[i] = "write" /\ pc'[i] # "write" => harmed'
<1>1. \A i \in Ingests : \/ pc'[i] = pc[i] /\ base'[i] = base[i]
                         \/ pc'[i] = "dead"
  BY ActorKinds DEF ProcessEnds
<1>2. \A s \in Searches : \/ pc'[s] = pc[s] /\ known'[s] = known[s]
                          \/ pc'[s] = "idle" /\ known'[s] = {}
  BY ActorKinds DEF ProcessEnds
<1>3. \A p \in Actors : \/ /\ pc'[p] = pc[p] /\ loaded'[p] = loaded[p]
                           /\ place'[p] = place[p] /\ handle'[p] = handle[p]
                           /\ ProcessOf[p] # x \/ pc[p] \in Ended
                        \/ pc'[p] \in {"dead", "idle"} /\ handle'[p] = "none"
  BY DEF ProcessEnds
<1>4. ~ harmed' => ~ harmed /\ file' = file
  BY DEF ProcessEnds
<1>5. \A i \in Ingests : pc[i] = "write" /\ pc'[i] # "write" => harmed'
  BY ActorKinds DEF ProcessEnds, Ended
<1>. QED  BY <1>1, <1>2, <1>3, <1>4, <1>5

\* A search is no ingestion, and an ingestion at the index has written.
LEMMA SearchesApart ==
    ASSUME TypeOK, NEW s \in Searches, NEW point, Goes(s, point)
    PROVE  \A i \in Ingests : pc'[i] = pc[i]
  BY ActorKinds, OthersStay

LEMMA IndexStepsApart ==
    ASSUME TypeOK, NEW p \in Actors, NEW point, Goes(p, point),
           p \in Ingests => /\ pc[p] \in {"open", "load", "delete", "create", "add"}
                            /\ point \in {"load", "delete", "create", "add", "done"}
    PROVE  /\ \A i \in Ingests : pc'[i] = pc[i] \/ (Written(i) /\ Written(i)')
           /\ \A i \in Ingests : pc[i] = "write" => pc'[i] = "write"
<1>1. \A i \in Ingests : pc'[i] = IF i = p THEN point ELSE pc[i]
  BY ActorKinds, OthersStay
<1>. QED  BY <1>1 DEF Written

\* FileInv and KnownKept are inductive.
LEMMA FileStep ==
    ASSUME TypeOK, FileInv, KnownKept, [Next]_vars
    PROVE  FileInv' /\ KnownKept'
<1>. DEFINE Apart(i) == \/ pc'[i] = pc[i] /\ base'[i] = base[i]
                        \/ Written(i)' /\ Written(i)
                        \/ Outside(i)'
<1>1. ASSUME file' = file, harmed => harmed', \A i \in Ingests : Apart(i),
             \A i \in Ingests : pc[i] = "write" /\ pc'[i] # "write" => harmed',
             \A s \in Searches : known'[s] \subseteq known[s]
      PROVE  FileInv' /\ KnownKept'
  BY <1>1, FileFrame, KnownFrame
<1>2. ASSUME NEW i \in Ingests, WriteDocument(i) \/ ReadRaises(i)
      PROVE  FileInv' /\ KnownKept'
  <2>1. PICK point \in {"read", "failed"} : Goes(i, point)
    BY <1>2 DEF WriteDocument, ReadRaises
  <2>2. \A j \in Ingests : pc'[j] = IF j = i THEN point ELSE pc[j]
    BY <2>1, ActorKinds, OthersStay
  <2>3. UNCHANGED <<file, base, known, harmed>> /\ pc[i] \in {"idle", "read"}
    BY <1>2 DEF WriteDocument, ReadRaises, shared, memory, history
  <2>4. \A j \in Ingests : Apart(j)
    BY <2>1, <2>2, <2>3 DEF Outside, HasRecords, Written
  <2>. QED  BY <1>1, <2>2, <2>3, <2>4
<1>3. ASSUME NEW i \in Ingests, ReadRecords(i) PROVE FileInv' /\ KnownKept'
  <2>1. \A j \in Ingests : /\ pc'[j] = IF j = i THEN "truncate" ELSE pc[j]
                           /\ base'[j] = IF j = i THEN file.records ELSE base[j]
    BY <1>3, ActorKinds, OthersStay DEF ReadRecords, TypeOK
  <2>2. pc[i] = "read" /\ UNCHANGED <<file, known>>
    BY <1>3 DEF ReadRecords, shared
  <2>3. ~ harmed' => ~ harmed /\ (\A j \in Ingests : ~ HasRecords(j))
    BY <1>3 DEF ReadRecords
  <2>4. ~ harmed' => ~ Writing /\ ~ Writing'
    BY <2>1, <2>3 DEF Writing, HasRecords
  <2>5. \A j \in Ingests : Written(j)' => Written(j)
    BY <2>1 DEF Written
  <2>6. ~ harmed' => \A j \in Ingests : HasRecords(j)' => j = i
    BY <2>1, <2>3 DEF HasRecords
  <2>7. FileInv'
    BY <2>1, <2>2, <2>3, <2>4, <2>5, <2>6 DEF FileInv, Readable, HasRecords
  <2>8. KnownKept'
    BY <2>1, <2>2, <2>3, <2>4, <2>6 DEF KnownKept, Loaded
  <2>. QED  BY <2>7, <2>8
<1>4. ASSUME NEW i \in Ingests, Truncate(i) PROVE FileInv' /\ KnownKept'
  <2>1. \A j \in Ingests : pc'[j] = IF j = i THEN "write" ELSE pc[j]
    BY <1>4, ActorKinds, OthersStay DEF Truncate
  <2>2. pc[i] = "truncate" /\ file' = Empty /\ UNCHANGED <<base, known, harmed>>
    BY <1>4 DEF Truncate, memory, history
  <2>3. Writing'
    BY <2>1 DEF Writing
  <2>4. \A j \in Ingests : (HasRecords(j)' <=> HasRecords(j)) /\ (Written(j)' <=> Written(j))
    BY <2>1, <2>2 DEF HasRecords, Written
  <2>5. ~ harmed => \A j \in Ingests : pc'[j] # "truncate"
    BY <2>1, <2>2 DEF FileInv, HasRecords
  <2>6. FileInv'
    BY <2>2, <2>3, <2>4, <2>5 DEF FileInv
  <2>7. KnownKept'
    BY <2>2, <2>3, <2>4 DEF KnownKept
  <2>. QED  BY <2>6, <2>7
<1>5. ASSUME NEW i \in Ingests, Write(i) PROVE FileInv' /\ KnownKept'
  <2>1. \A j \in Ingests : /\ pc'[j] = IF j = i THEN "open" ELSE pc[j]
                           /\ base'[j] = IF j = i THEN {} ELSE base[j]
    BY <1>5, ActorKinds, OthersStay DEF Write, TypeOK
  <2>2. pc[i] = "write" /\ UNCHANGED <<known, harmed>>
    BY <1>5 DEF Write
  <2>3. ASSUME ~ harmed
        PROVE  /\ file' = Whole(Extended(i))
               /\ \A j \in Ingests : ~ HasRecords(j)'
               /\ ~ Writing'
               /\ \A j \in Ingests : Written(j)' => j \in Extended(i)
               /\ \A s \in Searches : known[s] \subseteq Seeds \cup base[i]
    <3>1. Writing /\ HasRecords(i)
      BY <2>2 DEF Writing, HasRecords
    <3>2. file' = Whole(Extended(i))
      BY <1>5, <2>3, <3>1 DEF FileInv, Write, Empty
    <3>3. \A j \in Ingests : ~ HasRecords(j)'
      BY <2>1, <2>3, <3>1 DEF FileInv, HasRecords
    <3>4. ~ Writing'
      BY <3>3 DEF Writing, HasRecords
    <3>5. \A j \in Ingests : Written(j)' => j \in Extended(i)
      BY <2>1, <2>3, <3>1 DEF FileInv, Written, Extended
    <3>6. \A s \in Searches : known[s] \subseteq Seeds \cup base[i]
      BY <2>3, <3>1 DEF KnownKept
    <3>. QED  BY <3>2, <3>3, <3>4, <3>5, <3>6
  <2>4. FileInv'
    BY <2>2, <2>3 DEF FileInv, Readable, Whole, HasRecords
  <2>5. KnownKept'
    BY <2>2, <2>3 DEF KnownKept, Loaded, Whole, Extended
  <2>. QED  BY <2>4, <2>5
<1>6. ASSUME NEW p \in Actors, RebuildStep(p) \/ IndexIgnores(p) \/ IndexFails(p)
      PROVE  FileInv' /\ KnownKept'
  <2>1. UNCHANGED <<file, base, known, harmed>>
    BY <1>6 DEF RebuildStep, Open, Load, Delete, Create, Add, RebuildRaises, IndexIgnores,
                IndexFails, Raises, shared, memory, history
  <2>2. p \in Ingests => pc[p] \in {"open", "load", "delete", "create", "add"}
    BY <1>6 DEF RebuildStep, Open, Load, Delete, Create, Add, RebuildRaises, IndexIgnores,
                IndexFails, TypeOK, IngestPoints
  <2>3. PICK point : /\ Goes(p, point)
                     /\ p \in Ingests => point \in {"load", "delete", "create", "add", "done"}
    BY <1>6, <2>2
    DEF RebuildStep, Open, Load, Delete, Create, Add, RebuildRaises, IndexIgnores,
        IndexFails, Raises, Caught, Rebuilt
  <2>4. /\ \A i \in Ingests : Apart(i)
        /\ \A i \in Ingests : pc[i] = "write" => pc'[i] = "write"
    BY <2>1, <2>2, <2>3, IndexStepsApart
  <2>. QED  BY <1>1, <2>1, <2>4
<1>7. ASSUME NEW s \in Searches, SearchStep(s) \/ StartSearch(s), ~ LoadKnown(s)
      PROVE  FileInv' /\ KnownKept'
  <2>1. UNCHANGED <<file, base, harmed>>
    BY <1>7 DEF SearchStep, StartSearch, GetCollection, GetRaises,
                Query, SearchRaises, Keyword, KeywordRaises, Raises,
                shared, memory, history
  <2>2. \A q \in Searches : known'[q] \subseteq known[q]
    <3>1. CASE known' = known
      BY <3>1
    <3>2. CASE known' = [known EXCEPT ![s] = {}]
      BY <3>2 DEF TypeOK
    <3>. QED  BY <1>7, <3>1, <3>2
              DEF SearchStep, StartSearch, GetCollection, GetRaises,
                  Query, SearchRaises, Keyword, KeywordRaises, Raises,
                  memory
  <2>3. PICK point : Goes(s, point)
    BY <1>7 DEF SearchStep, StartSearch, GetCollection, GetRaises,
                Query, SearchRaises, Keyword, KeywordRaises, Raises
  <2>4. \A i \in Ingests : pc'[i] = pc[i]
    BY <2>3, SearchesApart
  <2>. QED  BY <1>1, <2>1, <2>2, <2>4
<1>8. ASSUME NEW s \in Searches, LoadKnown(s) PROVE FileInv' /\ KnownKept'
  <2>1. \A i \in Ingests : pc'[i] = pc[i]
    BY <1>8, SearchesApart DEF LoadKnown
  <2>2. UNCHANGED <<file, base, harmed>> /\ Readable
    BY <1>8 DEF LoadKnown, shared, history
  <2>3. \A q \in Searches : known'[q] = IF q = s THEN Loaded ELSE known[q]
    BY <1>8 DEF LoadKnown, TypeOK
  <2>4. FileInv'
    BY <2>1, <2>2, FileFrame
  <2>5. (Writing' <=> Writing) /\ Loaded' = Loaded
    BY <2>1, <2>2 DEF Writing, Loaded
  <2>6. ~ harmed => ~ Writing
    BY <2>2 DEF FileInv, Readable, Empty
  <2>7. ASSUME ~ harmed, NEW i \in Ingests, HasRecords(i)
        PROVE  Loaded \subseteq Seeds \cup base[i]
    BY <2>6, <2>7 DEF HasRecords, Writing, FileInv, Loaded
  <2>8. KnownKept'
    BY <2>1, <2>2, <2>3, <2>5, <2>7 DEF KnownKept, HasRecords
  <2>. QED  BY <2>4, <2>8
<1>9. ASSUME NEW i \in Ingests, WriteFails(i) PROVE FileInv' /\ KnownKept'
  BY <1>9 DEF WriteFails, FileInv, KnownKept
<1>10. ASSUME NEW x \in Processes, ProcessEnds(x) PROVE FileInv' /\ KnownKept'
  <2>1. CASE harmed'
    BY <2>1 DEF FileInv, KnownKept
  <2>2. CASE ~ harmed'
    <3>1. file' = file /\ (harmed => harmed')
      BY <1>10, <2>2, Ends
    <3>2. \A i \in Ingests : Apart(i)
      BY <1>10, Ends DEF Outside, HasRecords, Written
    <3>3. \A i \in Ingests : pc[i] = "write" /\ pc'[i] # "write" => harmed'
      BY <1>10, Ends
    <3>4. \A s \in Searches : known'[s] \subseteq known[s]
      BY <1>10, Ends
    <3>. QED  BY <1>1, <3>1, <3>2, <3>3, <3>4
  <2>. QED  BY <2>1, <2>2
<1>11. CASE UNCHANGED vars
  BY <1>1, <1>11 DEF vars, shared, memory, history
<1>. QED
  BY <1>2, <1>3, <1>4, <1>5, <1>6, <1>7, <1>8, <1>9, <1>10, <1>11
  DEF Next, IngestStep

LEMMA FileInit == Init => FileInv /\ KnownKept
  BY ActorKinds DEF Init, FileInv, KnownKept, Writing, HasRecords, Written, Readable, Whole

LEMMA FileHolds == Spec => [](TypeOK /\ FileInv /\ KnownKept)
<1>1. TypeOK /\ FileInv /\ KnownKept /\ TypeOK' /\ [Next]_vars
      => (FileInv /\ KnownKept)'
  BY FileStep
<1>. QED  BY <1>1, FileInit, TypeCorrect, PTL DEF Spec

(* As long as no two ingestions have had the file at the same time and     *)
(* none has failed writing it, no record that was written is missing from  *)
(* a file nobody is writing: the read, extend and rewrite of               *)
(* _append_knowledge_record, feedback_ingestion_agent.py:102-125.          *)
THEOREM RecordsAreKept == Spec => []RecordsKept
<1>1. FileInv => RecordsKept
  BY DEF FileInv, RecordsKept, Writing
<1>. QED  BY <1>1, FileHolds, PTL

-----------------------------------------------------------------------------
(* The search.                                                             *)

\* A search comes to "nothing" by comparing words only, and stays there with
\* what it has loaded.
LEMMA ComesToNothing ==
    ASSUME TypeOK, [Next]_vars, NEW s \in Searches, pc'[s] = "nothing"
    PROVE  \/ pc[s] = "nothing" /\ known'[s] = known[s]
           \/ pc[s] = "last" /\ Keyword(s) /\ known' = known /\ harmed' = harmed
<1>. DEFINE Stays == pc[s] = "nothing" /\ known'[s] = known[s]
<1>1. ASSUME NEW p \in Actors, p # s, NEW point, Goes(p, point), known'[s] = known[s]
      PROVE  Stays
  BY <1>1, ActorKinds, OthersStay
<1>2. ASSUME NEW point, Goes(s, point) PROVE point = "nothing"
  BY <1>2, ActorKinds, OthersStay
<1>3. ASSUME NEW i \in Ingests, WriteDocument(i) \/ IngestStep(i) PROVE Stays
  <2>1. PICK point : Goes(i, point)
    BY <1>3 DEF WriteDocument, IngestStep, ReadRecords, ReadRaises, Truncate, Write
  <2>2. known' = known
    BY <1>3 DEF WriteDocument, IngestStep, ReadRecords, ReadRaises, Truncate, Write, memory
  <2>. QED  BY <1>1, <2>1, <2>2, ActorKinds
<1>4. ASSUME NEW i \in Ingests, WriteFails(i) PROVE Stays
  BY <1>1, <1>4, ActorKinds DEF WriteFails
<1>5. ASSUME NEW p \in Actors, RebuildStep(p) \/ IndexIgnores(p) \/ IndexFails(p)
      PROVE  Stays
  <2>1. PICK point : Goes(p, point) /\ point # "nothing"
    BY <1>5 DEF RebuildStep, Open, Load, Delete, Create, Add, RebuildRaises, IndexIgnores,
                IndexFails, Raises, Caught, Rebuilt, WithoutIndex
  <2>2. known' = known
    BY <1>5 DEF RebuildStep, Open, Load, Delete, Create, Add, RebuildRaises, IndexIgnores,
                IndexFails, Raises, memory
  <2>. QED  BY <1>1, <1>2, <2>1, <2>2
<1>6. ASSUME NEW q \in Searches, StartSearch(q) \/ SearchStep(q), ~ Keyword(q)
      PROVE  Stays
  <2>1. PICK point : Goes(q, point) /\ point # "nothing"
    BY <1>6 DEF StartSearch, SearchStep, LoadKnown, GetCollection,
                GetRaises, WithoutIndex, Query, WithoutResults,
                SearchRaises, KeywordRaises, Raises, Caught
  <2>2. q # s => known'[s] = known[s]
    BY <1>6 DEF StartSearch, SearchStep, LoadKnown, GetCollection,
                GetRaises, Query, SearchRaises, KeywordRaises, Raises,
                memory, TypeOK
  <2>. QED  BY <1>1, <1>2, <2>1, <2>2, ActorKinds
<1>7. ASSUME NEW q \in Searches, Keyword(q)
      PROVE  Stays \/ (pc[s] = "last" /\ Keyword(s) /\ known' = known /\ harmed' = harmed)
  <2>1. known' = known /\ harmed' = harmed
    BY <1>7 DEF Keyword, memory, history
  <2>2. PICK point : Goes(q, point) /\ (point = "nothing" => pc[q] = "last")
    BY <1>7 DEF Keyword
  <2>. QED  BY <1>1, <1>2, <1>7, <2>1, <2>2, ActorKinds
<1>8. ASSUME NEW x \in Processes, ProcessEnds(x) PROVE Stays
  BY <1>8, Ends
<1>9. CASE UNCHANGED vars
  BY <1>9 DEF vars, memory
<1>. QED
  BY <1>3, <1>4, <1>5, <1>6, <1>7, <1>8, <1>9 DEF Next

\* No step of the module changes the query or undoes harm.
LEMMA QueryAndHarm ==
    ASSUME TypeOK, [Next]_vars
    PROVE  topic' = topic /\ (harmed => harmed')
<1>1. ASSUME NEW p \in Actors, RebuildStep(p) \/ IndexIgnores(p) \/ IndexFails(p)
      PROVE  topic' = topic /\ (harmed => harmed')
  BY <1>1 DEF RebuildStep, Open, Load, Delete, Create, Add, RebuildRaises, IndexIgnores,
              IndexFails, Raises, fixed, history
<1>2. ASSUME NEW s \in Searches, StartSearch(s) \/ SearchStep(s)
      PROVE  topic' = topic /\ (harmed => harmed')
  BY <1>2 DEF StartSearch, SearchStep, LoadKnown, GetCollection,
              GetRaises, Query, SearchRaises, Keyword, KeywordRaises,
              Raises, fixed, history
<1>3. ASSUME NEW i \in Ingests, WriteDocument(i) \/ IngestStep(i) \/ WriteFails(i)
      PROVE  topic' = topic /\ (harmed => harmed')
  <2>1. CASE ReadRecords(i) \/ WriteFails(i)
    BY <2>1 DEF ReadRecords, WriteFails, TypeOK, fixed
  <2>. QED  BY <1>3, <2>1 DEF WriteDocument, IngestStep, ReadRaises, Truncate, Write,
                              fixed, history
<1>4. ASSUME NEW x \in Processes, ProcessEnds(x)
      PROVE  topic' = topic /\ (harmed => harmed')
  BY <1>4 DEF ProcessEnds, fixed
<1>. QED  BY <1>1, <1>2, <1>3, <1>4 DEF Next, vars, fixed, history

(* A search that ends with nothing had loaded no document that shares a    *)
(* word with the query, whatever became of the collection meanwhile:       *)
(* retrieve_knowledge, knowledge_agent.py:8-53, falls back from the index  *)
(* to the words of every document, which it reads again.                   *)
THEOREM SearchesFindMatches == Spec => []FindsWhatMatches
<1>1. Init => FindsWhatMatches
  BY ActorKinds DEF Init, FindsWhatMatches
<1>2. ASSUME TypeOK, FileInv, KnownKept, FindsWhatMatches, [Next]_vars
      PROVE  FindsWhatMatches'
  <2>. SUFFICES ASSUME NEW s \in Searches, ~ harmed', pc'[s] = "nothing"
                PROVE  known'[s] \cap topic' = {}
    BY DEF FindsWhatMatches
  <2>1. ~ harmed /\ topic' = topic
    BY <1>2, QueryAndHarm
  <2>2. CASE pc[s] = "nothing" /\ known'[s] = known[s]
    BY <1>2, <2>1, <2>2 DEF FindsWhatMatches
  <2>3. CASE pc[s] = "last" /\ Keyword(s) /\ known' = known
    <3>1. Readable /\ Loaded \cap topic = {}
      BY <1>2, <2>3, ActorKinds, OthersStay DEF Keyword
    <3>2. ~ Writing
      BY <1>2, <2>1, <3>1 DEF FileInv, Readable, Empty
    <3>. QED  BY <1>2, <2>1, <2>3, <3>1, <3>2 DEF KnownKept
  <2>. QED  BY <1>2, <2>2, <2>3, ComesToNothing
<1>. QED  BY <1>1, <1>2, FileHolds, PTL DEF Spec

-----------------------------------------------------------------------------
(* The index.                                                              *)

\* The collection somebody fills is in hand, and it has just been created.
Fills(p) == pc[p] = "add" /\ handle[p] = "live"

\* Whoever rebuilds has loaded one version of the file; whoever is to fill a
\* collection has created it himself, and nobody else has filled it since.
IndexInv ==
    /\ Readable => file.records \in versions
    /\ \A p \in Actors : pc[p] \in {"delete", "create", "add"} => IsVersion(loaded[p])
    /\ \A x \in Places : index[x] = {} \/ IsVersion(index[x])
    /\ \A x \in Places : ~ there[x] => index[x] = {}
    /\ \A p \in Actors : Fills(p) => there[place[p]] /\ index[place[p]] = {}
    /\ \A p, q \in Actors : Fills(p) /\ Fills(q) /\ place[p] = place[q] => p = q

\* Steps that leave the collections alone and bring nobody nearer to them.
LEMMA IndexFrame ==
    ASSUME IndexInv,
           UNCHANGED <<there, index>>,
           versions \subseteq versions',
           Readable' => file'.records \in versions',
           \A p \in Actors : pc'[p] \in {"delete", "create", "add"} =>
               \/ pc[p] \in {"delete", "create", "add"} /\ loaded'[p] = loaded[p]
               \/ \E v \in versions' : loaded'[p] = Seeds \cup v,
           \A p \in Actors : Fills(p)' => Fills(p) /\ place'[p] = place[p]
    PROVE  IndexInv'
<1>1. \A p \in Actors : pc'[p] \in {"delete", "create", "add"} => IsVersion(loaded[p])'
  BY DEF IndexInv, IsVersion
<1>2. \A x \in Places : (index[x] = {} \/ IsVersion(index[x]))'
  BY DEF IndexInv, IsVersion
<1>. QED  BY <1>1, <1>2 DEF IndexInv

LEMMA IndexStep ==
    ASSUME TypeOK, IndexInv, [Next]_vars
    PROVE  IndexInv'
<1>1. ASSUME NEW p \in Actors, NEW point, Goes(p, point),
             point \notin {"delete", "create", "add"},
             UNCHANGED <<there, index, versions>>,
             Readable' => file'.records \in versions',
             \A q \in Actors : q # p => /\ loaded'[q] = loaded[q]
                                        /\ handle'[q] = handle[q]
                                        /\ place'[q] = place[q]
      PROVE  IndexInv'
  <2>1. \A q \in Actors : pc'[q] = IF q = p THEN point ELSE pc[q]
    BY <1>1, OthersStay
  <2>. QED  BY <1>1, <2>1, IndexFrame DEF Fills
<1>2. ASSUME NEW i \in Ingests,
             WriteDocument(i) \/ ReadRecords(i) \/ ReadRaises(i) \/ Truncate(i) \/ WriteFails(i)
      PROVE  IndexInv'
  <2>1. PICK point \in {"read", "truncate", "write", "failed"} : Goes(i, point)
    BY <1>2 DEF WriteDocument, ReadRecords, ReadRaises, Truncate, WriteFails
  <2>2. UNCHANGED <<there, index, versions, loaded, handle, place>>
    BY <1>2 DEF WriteDocument, ReadRecords, ReadRaises, Truncate, WriteFails,
                shared, memory, history
  <2>3. file' \in {file, Empty, Torn}
    BY <1>2 DEF WriteDocument, ReadRecords, ReadRaises, Truncate, WriteFails, shared
  <2>4. Readable' => file'.records \in versions'
    BY <2>2, <2>3 DEF Readable, Empty, Torn, IndexInv
  <2>. QED  BY <1>1, <2>1, <2>2, <2>4, ActorKinds
<1>3. ASSUME NEW i \in Ingests, Write(i) PROVE IndexInv'
  <2>1. \A p \in Actors : pc'[p] = IF p = i THEN "open" ELSE pc[p]
    BY <1>3, ActorKinds, OthersStay DEF Write
  <2>2. /\ UNCHANGED <<there, index, loaded, handle, place>>
        /\ versions' = versions \cup {Extended(i)}
        /\ file' = Whole(Extended(i)) \/ file' = Torn
    BY <1>3 DEF Write
  <2>3. Readable' => file'.records \in versions'
    BY <2>2 DEF Readable, Whole, Torn
  <2>. QED  BY <2>1, <2>2, <2>3, IndexFrame DEF Fills
<1>4. ASSUME NEW p \in Actors, Open(p) PROVE IndexInv'
  <2>1. /\ UNCHANGED <<file, there, index, versions, loaded, handle>>
        /\ \A q \in Actors : q # p => place'[q] = place[q]
    BY <1>4 DEF Open, shared, history, TypeOK
  <2>2. PICK point \in {"load", "get"} : Goes(p, point)
    BY <1>4 DEF Open
  <2>. QED  BY <1>1, <2>1, <2>2 DEF IndexInv, Readable
<1>5. ASSUME NEW p \in Actors, Load(p) PROVE IndexInv'
  <2>1. \A q \in Actors : /\ pc'[q] = IF q = p THEN "delete" ELSE pc[q]
                          /\ loaded'[q] = IF q = p THEN Loaded ELSE loaded[q]
    BY <1>5, OthersStay DEF Load, TypeOK
  <2>2. UNCHANGED <<file, there, index, versions, handle, place>> /\ Readable
    BY <1>5 DEF Load, shared, history
  <2>3. file.records \in versions
    BY <2>2 DEF IndexInv
  <2>4. loaded'[p] = Seeds \cup file.records
    BY <2>1 DEF Loaded
  <2>5. Readable' => file'.records \in versions'
    BY <2>2, <2>3
  <2>6. \E v \in versions' : loaded'[p] = Seeds \cup v
    BY <2>2, <2>3, <2>4
  <2>7. \A q \in Actors : pc'[q] \in {"delete", "create", "add"} =>
            \/ pc[q] \in {"delete", "create", "add"} /\ loaded'[q] = loaded[q]
            \/ \E v \in versions' : loaded'[q] = Seeds \cup v
    BY <2>1, <2>6
  <2>8. \A q \in Actors : Fills(q)' => Fills(q) /\ place'[q] = place[q]
    BY <2>1, <2>2 DEF Fills
  <2>. QED  BY <2>2, <2>5, <2>7, <2>8, IndexFrame
<1>6. ASSUME NEW p \in Actors, Delete(p) PROVE IndexInv'
  <2>1. \A q \in Actors : pc'[q] = IF q = p THEN "create" ELSE pc[q]
    BY <1>6, OthersStay DEF Delete
  <2>2. /\ pc[p] = "delete" /\ UNCHANGED <<file, versions, loaded, place>>
        /\ place[p] \in Places
        /\ \A x \in Places : /\ there'[x] = IF x = place[p] THEN FALSE ELSE there[x]
                             /\ index'[x] = IF x = place[p] THEN {} ELSE index[x]
        /\ \A q \in Actors : place[q] \in Places
    BY <1>6 DEF Delete, history, TypeOK
  <2>3. \A q \in Actors : handle'[q] = IF handle[q] = "live" /\ place[q] = place[p]
                                       THEN "gone" ELSE handle[q]
    BY <1>6 DEF Delete, Gone
  <2>4. \A q \in Actors : Fills(q)' => Fills(q) /\ place[q] # place[p]
    BY <2>1, <2>3 DEF Fills
  <2>11. (Readable => file.records \in versions)'
    BY <2>1, <2>2, <2>4 DEF IndexInv, Readable, Torn
  <2>12. \A q \in Actors : pc'[q] \in {"delete", "create", "add"} => IsVersion(loaded[q])'
    BY <2>1, <2>2, <2>4 DEF IndexInv, IsVersion
  <2>13. \A x \in Places : (index[x] = {} \/ IsVersion(index[x]))'
    <3>1. \A x \in Places : index[x] = {} \/ \E v \in versions : index[x] = Seeds \cup v
      BY DEF IndexInv, IsVersion
    <3>2. \A x \in Places : \/ index'[x] = {}
                            \/ index'[x] = index[x]
                            \/ IsVersion(index'[x])
      BY <2>1, <2>2, <2>4
    <3>3. UNCHANGED versions
      BY <2>1, <2>2, <2>4
    <3>. QED  BY <3>1, <3>2, <3>3 DEF IsVersion
  <2>14. \A x \in Places : ~ there'[x] => index'[x] = {}
    BY <2>1, <2>2, <2>4 DEF IndexInv
  <2>15. \A q \in Actors : Fills(q)' => there'[place'[q]] /\ index'[place'[q]] = {}
    BY <2>1, <2>2, <2>4 DEF IndexInv
  <2>16. \A q, l \in Actors : Fills(q)' /\ Fills(l)' /\ place'[q] = place'[l] => q = l
    BY <2>1, <2>2, <2>4 DEF IndexInv
  <2>. QED  BY <2>11, <2>12, <2>13, <2>14, <2>15, <2>16 DEF IndexInv
<1>7. ASSUME NEW p \in Actors, Create(p) PROVE IndexInv'
  <2>1. \A q \in Actors : pc'[q] = IF q = p THEN "add" ELSE pc[q]
    BY <1>7, OthersStay DEF Create
  <2>2. /\ pc[p] = "create" /\ UNCHANGED <<file, index, versions, loaded, place>>
        /\ place[p] \in Places /\ ~ there[place[p]]
        /\ \A x \in Places : there'[x] = (x = place[p] \/ there[x])
        /\ \A q \in Actors : place[q] \in Places /\ (q # p => handle'[q] = handle[q])
    BY <1>7 DEF Create, history, TypeOK
  <2>3. \A q \in Actors : Fills(q)' => q = p \/ (Fills(q) /\ place[q] # place[p])
    BY <2>1, <2>2 DEF Fills, IndexInv
  <2>4. index[place[p]] = {}
    BY <2>2 DEF IndexInv
  <2>11. (Readable => file.records \in versions)'
    BY <2>1, <2>2, <2>3, <2>4 DEF IndexInv, Readable, Torn
  <2>12. \A q \in Actors : pc'[q] \in {"delete", "create", "add"} => IsVersion(loaded[q])'
    BY <2>1, <2>2, <2>3, <2>4 DEF IndexInv, IsVersion
  <2>13. \A x \in Places : (index[x] = {} \/ IsVersion(index[x]))'
    BY <2>1, <2>2, <2>3, <2>4 DEF IndexInv, IsVersion
  <2>14. \A x \in Places : ~ there'[x] => index'[x] = {}
    BY <2>1, <2>2, <2>3, <2>4 DEF IndexInv
  <2>15. \A q \in Actors : Fills(q)' => there'[place'[q]] /\ index'[place'[q]] = {}
    BY <2>1, <2>2, <2>3, <2>4 DEF IndexInv
  <2>16. \A q, l \in Actors : Fills(q)' /\ Fills(l)' /\ place'[q] = place'[l] => q = l
    BY <2>1, <2>2, <2>3, <2>4 DEF IndexInv
  <2>. QED  BY <2>11, <2>12, <2>13, <2>14, <2>15, <2>16 DEF IndexInv
<1>8. ASSUME NEW p \in Actors, Add(p) PROVE IndexInv'
  <2>1. \A q \in Actors : pc'[q] = IF q = p THEN Rebuilt(p) ELSE pc[q]
    BY <1>8, OthersStay DEF Add
  <2>2. /\ Fills(p) /\ UNCHANGED <<file, there, versions>>
        /\ place[p] \in Places
        /\ \A x \in Places : index'[x] = IF x = place[p] THEN index[x] \cup loaded[p]
                                         ELSE index[x]
        /\ \A q \in Actors : /\ place[q] \in Places
                             /\ q # p => /\ loaded'[q] = loaded[q]
                                         /\ handle'[q] = handle[q]
                                         /\ place'[q] = place[q]
    BY <1>8 DEF Add, Fills, history, TypeOK
  <2>3. Rebuilt(p) \in {"done", "getAgain"}
    BY DEF Rebuilt
  <2>4. \A q \in Actors : Fills(q)' => q # p /\ Fills(q) /\ place[q] # place[p]
    BY <2>1, <2>2, <2>3 DEF Fills, IndexInv
  <2>5. IsVersion(loaded[p]) /\ there[place[p]] /\ index[place[p]] = {}
    BY <2>2 DEF IndexInv, Fills
  <2>6. index'[place[p]] = loaded[p]
    BY <2>2, <2>5
  <2>11. (Readable => file.records \in versions)'
    BY <2>1, <2>2, <2>3, <2>4, <2>5, <2>6 DEF IndexInv, Readable, Torn
  <2>12. \A q \in Actors : pc'[q] \in {"delete", "create", "add"} => IsVersion(loaded[q])'
    BY <2>1, <2>2, <2>3, <2>4, <2>5, <2>6 DEF IndexInv, IsVersion
  <2>13. \A x \in Places : (index[x] = {} \/ IsVersion(index[x]))'
    <3>1. \A x \in Places : index[x] = {} \/ \E v \in versions : index[x] = Seeds \cup v
      BY DEF IndexInv, IsVersion
    <3>2. \A x \in Places : \/ index'[x] = {}
                            \/ index'[x] = index[x]
                            \/ IsVersion(index'[x])
      BY <2>1, <2>2, <2>3, <2>4, <2>5, <2>6
    <3>3. UNCHANGED versions
      BY <2>1, <2>2, <2>3, <2>4, <2>5, <2>6
    <3>. QED  BY <3>1, <3>2, <3>3 DEF IsVersion
  <2>14. \A x \in Places : ~ there'[x] => index'[x] = {}
    BY <2>1, <2>2, <2>3, <2>4, <2>5, <2>6 DEF IndexInv
  <2>15. ASSUME NEW q \in Actors, Fills(q)'
         PROVE  there'[place'[q]] /\ index'[place'[q]] = {}
    <3>1. /\ q # p /\ Fills(q) /\ place[q] # place[p] /\ place'[q] = place[q]
          /\ place[q] \in Places
      BY <2>2, <2>4, <2>15
    <3>2. there[place[q]] /\ index[place[q]] = {}
      BY <3>1 DEF IndexInv
    <3>. QED  BY <2>2, <3>1, <3>2
  <2>16. \A q, l \in Actors : Fills(q)' /\ Fills(l)' /\ place'[q] = place'[l] => q = l
    BY <2>1, <2>2, <2>3, <2>4, <2>5, <2>6 DEF IndexInv
  <2>. QED  BY <2>11, <2>12, <2>13, <2>14, <2>15, <2>16 DEF IndexInv
<1>9. ASSUME NEW p \in Actors, Raises(p) PROVE IndexInv'
  <2>1. /\ UNCHANGED <<file, there, index, versions>>
        /\ \A q \in Actors : q # p => /\ loaded'[q] = loaded[q]
                                      /\ handle'[q] = handle[q]
                                      /\ place'[q] = place[q]
    BY <1>9 DEF Raises, shared, history, TypeOK
  <2>2. Goes(p, Caught(p)) /\ Caught(p) \in {"done", "keyword"}
    BY <1>9 DEF Raises, Caught
  <2>. QED  BY <1>1, <2>1, <2>2 DEF IndexInv, Readable
<1>10. ASSUME NEW p \in Actors, IndexIgnores(p) PROVE IndexInv'
  <2>1. PICK point : /\ Goes(p, point)
                     /\ \/ pc[p] = "delete" /\ point = "create"
                        \/ point = "load"
    BY <1>10 DEF IndexIgnores, WithoutIndex
  <2>2. \A q \in Actors : pc'[q] = IF q = p THEN point ELSE pc[q]
    BY <2>1, OthersStay
  <2>3. UNCHANGED <<file, there, index, versions, loaded, handle, place>>
    BY <1>10 DEF IndexIgnores, shared, memory, history
  <2>4. Readable' => file'.records \in versions'
    BY <2>3 DEF IndexInv, Readable
  <2>. QED  BY <2>1, <2>2, <2>3, <2>4, IndexFrame DEF Fills
<1>11. ASSUME NEW s \in Searches, StartSearch(s) \/ SearchStep(s), ~ SearchRaises(s)
       PROVE  IndexInv'
  <2>1. PICK point : Goes(s, point) /\ point \notin {"delete", "create", "add"}
    BY <1>11 DEF StartSearch, SearchStep, LoadKnown, GetCollection,
                 GetRaises, WithoutIndex, Query, WithoutResults,
                 Keyword, KeywordRaises
  <2>2. /\ UNCHANGED <<file, there, index, versions, loaded>>
        /\ \A q \in Actors : q # s => handle'[q] = handle[q] /\ place'[q] = place[q]
    BY <1>11 DEF StartSearch, SearchStep, LoadKnown, GetCollection, GetRaises, Query,
                 Keyword, KeywordRaises, shared, memory, history, TypeOK
  <2>. QED  BY <1>1, <2>1, <2>2, ActorKinds DEF IndexInv, Readable
<1>12. ASSUME NEW x \in Processes, ProcessEnds(x) PROVE IndexInv'
  <2>1. /\ UNCHANGED versions
        /\ file' \in {file, Torn}
        /\ \A y \in Places : /\ there'[y] = (y # x /\ there[y])
                             /\ index'[y] = IF y = x THEN {} ELSE index[y]
    BY <1>12 DEF ProcessEnds, TypeOK
  <2>2. ASSUME NEW p \in Actors, pc'[p] \in {"delete", "create", "add"}
        PROVE  /\ pc'[p] = pc[p] /\ loaded'[p] = loaded[p]
               /\ place'[p] = place[p] /\ handle'[p] = handle[p]
               /\ place[p] # x /\ place[p] \in Places
    <3>1. x # "disk" /\ place[p] \in {"disk", ProcessOf[p]} /\ place[p] \in Places
      BY KnowledgeAssumption DEF TypeOK
    <3>2. pc'[p] \notin {"dead", "idle"}
      BY <2>2
    <3>3. /\ pc'[p] = pc[p] /\ loaded'[p] = loaded[p]
          /\ place'[p] = place[p] /\ handle'[p] = handle[p]
          /\ ProcessOf[p] # x \/ pc[p] \in Ended
      BY <1>12, <3>2, Ends
    <3>4. pc[p] \notin Ended
      BY <2>2, <3>3 DEF Ended
    <3>. QED  BY <3>1, <3>3, <3>4
  <2>3. \A p \in Actors : Fills(p)' => Fills(p) /\ place'[p] = place[p] /\ place[p] # x
                                       /\ place[p] \in Places
    BY <2>2 DEF Fills
  <2>11. (Readable => file.records \in versions)'
    BY <2>1, <2>2, <2>3 DEF IndexInv, Readable, Torn
  <2>12. \A q \in Actors : pc'[q] \in {"delete", "create", "add"} => IsVersion(loaded[q])'
    BY <2>1, <2>2, <2>3 DEF IndexInv, IsVersion
  <2>13. \A y \in Places : (index[y] = {} \/ IsVersion(index[y]))'
    BY <2>1, <2>2, <2>3 DEF IndexInv, IsVersion
  <2>14. \A y \in Places : ~ there'[y] => index'[y] = {}
    BY <2>1, <2>2, <2>3 DEF IndexInv
  <2>15. \A q \in Actors : Fills(q)' => there'[place'[q]] /\ index'[place'[q]] = {}
    BY <2>1, <2>2, <2>3 DEF IndexInv
  <2>16. \A q, l \in Actors : Fills(q)' /\ Fills(l)' /\ place'[q] = place'[l] => q = l
    BY <2>1, <2>2, <2>3 DEF IndexInv
  <2>. QED  BY <2>11, <2>12, <2>13, <2>14, <2>15, <2>16 DEF IndexInv
<1>13. CASE UNCHANGED vars
  BY <1>13 DEF vars, shared, memory, history, IndexInv, Fills, Readable, IsVersion
<1>14. ASSUME NEW p \in Actors, RebuildStep(p) \/ IndexIgnores(p) \/ IndexFails(p)
       PROVE  IndexInv'
  BY <1>4, <1>5, <1>6, <1>7, <1>8, <1>9, <1>10, <1>14
  DEF RebuildStep, RebuildRaises, IndexFails
<1>15. ASSUME NEW s \in Searches, StartSearch(s) \/ SearchStep(s) PROVE IndexInv'
  BY <1>9, <1>11, <1>15, ActorKinds DEF SearchRaises
<1>16. ASSUME NEW i \in Ingests, WriteDocument(i) \/ IngestStep(i) \/ WriteFails(i)
       PROVE  IndexInv'
  BY <1>2, <1>3, <1>16 DEF IngestStep
<1>. QED  BY <1>12, <1>13, <1>14, <1>15, <1>16 DEF Next

(* A collection, on disk or in the memory of a process, holds nothing or   *)
(* the documents of one version of the file: create_collection raises when *)
(* the collection is there, and add when it has been deleted, so of all    *)
(* the rebuilds under way at one place at most one has a collection to     *)
(* fill, and nobody has filled it before (vector_store.py:27-65).          *)
THEOREM IndexHoldsOneVersion == Spec => []IndexIsOneVersion
<1>1. Init => IndexInv
  BY DEF Init, IndexInv, Fills, Readable, Whole
<1>2. IndexInv => IndexIsOneVersion
  BY DEF IndexInv, IndexIsOneVersion
<1>. QED  BY <1>1, <1>2, IndexStep, TypeCorrect, PTL DEF Spec

=============================================================================
