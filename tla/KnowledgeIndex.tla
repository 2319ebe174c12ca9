--------------------------- MODULE KnowledgeIndex ---------------------------
(***************************************************************************)
(* The tables behind the documents of KnowledgeIngestion: how a refresh    *)
(* cuts a text into chunks (chunk_text), embeds them, and writes           *)
(* documents, chunks and embeddings statement by statement                 *)
(* (_persist_refresh_batch), under the keys and cascades of the            *)
(* migrations.  KnowledgeIngestion has the same transaction as one         *)
(* assignment; IndexIsWhole says that the statements implement it.         *)
(***************************************************************************)
EXTENDS KnowledgeIngestion, Sequences

CONSTANTS paragraphs,    \* [Contents -> sequences of the lengths of their paragraphs]
          chunk_size,
          Texts          \* bound: the texts whose cut is compared with all others

ASSUME ParagraphsAssumption ==
    /\ paragraphs \in [Contents -> Seq(Nat \ {0})]
    /\ Texts \subseteq Seq(Nat \ {0})
ASSUME ChunkSizeAssumption == chunk_size \in Nat
ASSUME BlankAssumption == \A content \in Contents : content = Blank <=> paragraphs[content] = <<>>
ASSUME SourcesAssumption == IsFiniteSet(Sources)

VARIABLE tables          \* knowledge_documents, knowledge_chunks, chunk_embeddings

indexVars == <<vars, tables>>

----------------------------------------------------------------------------
(* ingestion_loader *)

\* The paragraphs of a chunk are joined by an empty line, two characters.
Length(chunk) ==
    LET sum[n \in 0..Len(chunk)] == IF n = 0 THEN 0 ELSE sum[n - 1] + chunk[n]
    IN sum[Len(chunk)] + 2 * (Len(chunk) - 1)

\* bug: a paragraph joins the chunk whenever that one is not full yet
ExtendNotFull(chunks, paragraph) ==
    IF chunks # <<>> /\ Length(chunks[Len(chunks)]) <= chunk_size
      THEN [chunks EXCEPT ![Len(chunks)] = Append(@, paragraph)]
      ELSE Append(chunks, <<paragraph>>)

\* A paragraph joins the current chunk if it fits, and begins the next otherwise.
Extend(chunks, paragraph) ==
    IF chunks # <<>> /\ Length(Append(chunks[Len(chunks)], paragraph)) <= chunk_size
      THEN [chunks EXCEPT ![Len(chunks)] = Append(@, paragraph)]
      ELSE Append(chunks, <<paragraph>>)

chunk_text(text) ==
    LET chunks[n \in 0..Len(text)] == IF n = 0 THEN <<>> ELSE Extend(chunks[n - 1], text[n])
    IN chunks[Len(text)]

\* The chunk_id is made of the source and the place.
ChunkRecords ==
    [s \in Sources |-> [content \in Contents |->
       LET chunks == chunk_text(paragraphs[content]) IN
       [i \in 1..Len(chunks) |-> [chunk_id |-> <<s, i>>, document_id |-> s, chunk_text |-> chunks[i]]]]]

\* The embedding, made under the settings c.
EmbeddingRecord(chunk, c) == [chunk_id |-> chunk.chunk_id, config |-> c, of |-> chunk.chunk_text]

----------------------------------------------------------------------------
(* The statements of the three repositories.  What a foreign key refuses       *)
(* raises, which is noted in refused.                                          *)

create_document(t, s, fingerprint) == [t EXCEPT !.documents[s] = fingerprint]

\* The embeddings of the chunks go with them (ON DELETE CASCADE).
delete_chunks_for_document(t, s) ==
    [t EXCEPT !.chunks = {c \in @ : c.document_id # s},
              !.embeddings = {e \in @ : \A c \in t.chunks : c.document_id = s => c.chunk_id # e.chunk_id}]

delete_document(t, s) == delete_chunks_for_document([t EXCEPT !.documents[s] = None], s)

\* ON CONFLICT DO UPDATE
Upsert(rows, row) == {x \in rows : x.chunk_id # row.chunk_id} \cup {row}

create_chunk(t, row) ==
    [t EXCEPT !.chunks = Upsert(@, row),
              !.refused = IF t.documents[row.document_id] # None THEN @ ELSE @ \cup {row}]

create_embedding(t, row) ==
    [t EXCEPT !.embeddings = Upsert(@, row),
              !.refused = IF \E c \in t.chunks : c.chunk_id = row.chunk_id THEN @ ELSE @ \cup {row}]

----------------------------------------------------------------------------
(* _persist_refresh_batch *)

\* Each chunk with its embedding, made under the settings of the running version.
WriteChunk(t, chunk) == create_embedding(create_chunk(t, chunk), EmbeddingRecord(chunk, config))

WriteChunks(t, chunks) ==
    LET after[n \in 0..Len(chunks)] == IF n = 0 THEN t ELSE WriteChunk(after[n - 1], chunks[n])
    IN after[Len(chunks)]

\* bug: the chunks the document has are left to the upserts
ReindexByUpserts(t, s, fingerprint, content) ==
    WriteChunks(create_document(t, s, fingerprint), ChunkRecords[s][content])

\* bug: the chunks are written before their document
ReindexChunksFirst(t, s, fingerprint, content) ==
    create_document(WriteChunks(delete_chunks_for_document(t, s), ChunkRecords[s][content]), s, fingerprint)

Reindex(t, s, fingerprint, content) ==
    WriteChunks(delete_chunks_for_document(create_document(t, s, fingerprint), s), ChunkRecords[s][content])

\* The source ids of a set are sorted; which order that is, is left open.
Orders(S) == {order \in [1..Cardinality(S) -> S] : \A s \in S : \E i \in DOMAIN order : order[i] = s}

DeleteAll(t, removed) ==
    LET after[n \in 0..Len(removed)] == IF n = 0 THEN t ELSE delete_document(after[n - 1], removed[n])
    IN after[Len(removed)]

ReindexAll(t, reindexed, sources, texts) ==
    LET after[n \in 0..Len(reindexed)] ==
          IF n = 0 THEN t
          ELSE LET s == reindexed[n] IN Reindex(after[n - 1], s, sources[s], texts[s])
    IN after[Len(reindexed)]

PersistTables(r) ==
    /\ PersistIndex(r)
    /\ \E removed \in Orders(work[r].removed), reindexed \in Orders(work[r].reindex) :
         tables' = ReindexAll(DeleteAll(tables, removed), reindexed, work[r].sources, work[r].texts)

----------------------------------------------------------------------------

IndexInit ==
    /\ Init
    /\ tables = [documents |-> NoSources, chunks |-> {}, embeddings |-> {}, refused |-> {}]

IndexNext ==
    \/ \E r \in Runs : PersistTables(r)
    \/ /\ \/ \E s \in Sources, content \in Contents : EditFile(s, content)
          \/ \E m \in Manifests, c \in Configs : Restart(m, c)
          \/ \E r \in Runs :
               \/ CheckRunning(r) \/ CreateRun(r) \/ BuildManifest(r) \/ CreateSource(r)
               \/ PlanRefresh(r) \/ LoadTexts(r) \/ MarkSucceeded(r) \/ MarkFailed(r)
               \/ WriteAudit(r) \/ RaiseInTry(r)
          \/ Idle
       /\ UNCHANGED tables

IndexSpec == IndexInit /\ [][IndexNext]_indexVars

----------------------------------------------------------------------------
(* Properties *)

\* The chunks one after the other are the text.
IsCut(chunks, text) ==
    LET end[i \in 0..Len(chunks)] == IF i = 0 THEN 0 ELSE end[i - 1] + Len(chunks[i]) IN
    /\ end[Len(chunks)] = Len(text)
    /\ \A i \in 1..Len(chunks) : chunks[i] # <<>> /\ chunks[i] = SubSeq(text, end[i - 1] + 1, end[i])

Fits(chunk) == Len(chunk) = 1 \/ Length(chunk) <= chunk_size

\* Where the chunks may end if all of them are to fit.
FittingEnds(text) ==
    {ends \in SUBSET (1..Len(text)) :
       /\ Len(text) \in ends
       /\ \A b \in ends \cup {0}, e \in ends :
            b < e /\ (\A d \in ends : d <= b \/ e <= d) => Fits(SubSeq(text, b + 1, e))}

\* chunk_text cuts a text between paragraphs and loses none, no chunk of more
\* than one paragraph is longer than chunk_size, and no such cut has fewer chunks.
CutsAreBest ==
    \A text \in Texts \cup {paragraphs[content] : content \in Contents} :
      LET chunks == chunk_text(text) IN
      /\ IsCut(chunks, text)
      /\ \A i \in 1..Len(chunks) : Fits(chunks[i])
      /\ \A ends \in FittingEnds(text) : Len(chunks) <= Cardinality(ends)

\* The tables that some documents should have.
TablesOf(docs) ==
    LET present == {s \in Sources : docs[s] # None}
        rows(s) == {ChunkRecords[s][docs[s].text][i] : i \in DOMAIN ChunkRecords[s][docs[s].text]} IN
    [documents |-> [s \in Sources |-> IF s \in present THEN docs[s].fingerprint ELSE None],
     chunks |-> UNION {rows(s) : s \in present},
     embeddings |-> UNION {{EmbeddingRecord(c, docs[s].fingerprint.config) : c \in rows(s)} : s \in present},
     refused |-> {}]

\* The statements of a refresh, in their order and under the cascades, leave
\* what its one assignment promises, and none of them is refused: each document
\* has its fingerprint and exactly the chunks of its text, cut as well as can be,
\* whole and in order, each embedded as it is and under the settings of the
\* fingerprint; no chunk of an earlier, longer text is left, and none of a
\* removed source.
IndexIsWhole == tables = TablesOf(documents) /\ CutsAreBest
=============================================================================
