------------------------------ MODULE Retrieval ------------------------------
(* Searching (capabilities/search, capabilities/ai/retrieval): the search
   engine in memory, the vector stores, the retriever over them, and the
   cutting of documents.  Each operation of a store holds its lock; the
   retriever, which runs in threads, asks its store twice.

   One name space of each store is modelled: they share nothing but the
   lock.  Scores are left out of the engine, and in the retriever they are
   any: what is found, and in what order, is all that is kept. *)
EXTENDS Integers, FiniteSets, Sequences
LOCAL INSTANCE SequencesExt

CONSTANTS DocIds, Terms,
          Bodies,      \* contents of documents: how often a term is in them
          NoBody,
          MaxDocuments,\* max_documents_per_tenant
          VectorIds, MaxVectors,
          StoreKinds,  \* vector stores to look at: "memory", "elasticsearch"
          Searches,    \* searches of the retriever
          TopK, NeighborWindow,
          LineKinds, MaxLines, \* bound: lines of a document
          EsTenants, EsIndexes, \* names, as words between underscores; <<>> is none
          EsIds, MaxEsIndexes  \* bound: indexes at once

ASSUME RetrievalAssumption ==
  /\ Bodies \subseteq [Terms -> Nat] /\ NoBody \notin Bodies
  /\ MaxDocuments \in Nat \ {0} /\ MaxVectors \in Nat \ {0}
  /\ TopK \in Nat \ {0} /\ NeighborWindow \in Nat /\ MaxLines \in Nat
  /\ <<"vector">> \in EsIndexes /\ MaxEsIndexes \in Nat

VARIABLES index,    \* of the engine: [docs, postings, order]
          shared,   \* documents whose dictionary a caller has, too
          changed,  \* history: has a caller changed a stored document?
          searched, \* the last answer: "none", "ok" or "KeyError"
          vectors,  \* [kind, order, live]: the ids of a vector store, as found and as written
          rsearch,  \* of each search: where it is, [at, hits, stored, result]
          text,     \* [lines, next, open, buffer, heading, chunks]
          mislaid,  \* history: lines of a block that was never closed
          cluster,  \* Elasticsearch: [dense, live, shown] of each index
          keyword,  \* does the client take ignore_status?
          disturbed,\* history: vector indexes that others touched, or could not be made
          esHits    \* the last answer: [of, in, found], or that it failed

indexVars == <<index, shared, changed, searched>>
vectorVars == <<vectors, rsearch>>
chunkVars == <<text, mislaid>>
elasticVars == <<cluster, keyword, disturbed, esHits>>

----------------------------------------
(* InMemorySearchEngine. *)

EmptyIndex == [docs |-> [d \in DocIds |-> NoBody],
               postings |-> [t \in Terms |-> [d \in DocIds |-> 0]],
               order |-> <<>>]
StoredDocs(x) == {d \in DocIds : x.docs[d] # NoBody}

(* _delete_doc_locked: the postings of the terms the document has now. *)
DeleteDoc(x, d) ==
  IF x.docs[d] = NoBody THEN x
  ELSE [docs |-> [x.docs EXCEPT ![d] = NoBody],
        postings |-> [t \in Terms |-> IF x.docs[d][t] = 0 THEN x.postings[t]
                                      ELSE [x.postings[t] EXCEPT ![d] = 0]],
        order |-> SelectSeq(x.order, LAMBDA e : e # d)]

(* _insert_doc_locked; the oldest go when there are too many. *)
InsertDoc(x, d, body) ==
  LET put == [docs |-> [x.docs EXCEPT ![d] = body],
              postings |-> [t \in Terms |-> [x.postings[t] EXCEPT ![d] = @ + body[t]]],
              order |-> IF d \in ToSet(x.order) THEN x.order ELSE Append(x.order, d)]
      over == Cardinality(StoredDocs(put)) - MaxDocuments
  IN  IF over > 0 THEN FoldLeft(DeleteDoc, put, SubSeq(put.order, 1, over)) ELSE put

(* A mutant: a document of a batch is put over the old one. *)
ReplacedTwice(x, d, body) == InsertDoc(x, d, body)

(* The old one is removed first. *)
Replaced(x, d, body) == InsertDoc(DeleteDoc(x, d), d, body)

IndexInit == index = EmptyIndex /\ shared = {} /\ changed = FALSE /\ searched = "none"

(* index_document keeps the dictionary of the caller. *)
IndexDocument(d, body) ==
  /\ index' = Replaced(index, d, body)
  /\ shared' = (shared \cup {d}) \cap StoredDocs(index')
  /\ searched' = "none" /\ UNCHANGED changed

(* bulk_index copies them, and passes over those without an id. *)
BulkIndex(items) ==
  /\ index' = FoldLeft(LAMBDA x, i : Replaced(x, i.id, i.body), index,
                       SelectSeq(items, LAMBDA i : i.id \in DocIds))
  /\ shared' = (shared \ {items[n].id : n \in DOMAIN items}) \cap StoredDocs(index')
  /\ searched' = "none" /\ UNCHANGED changed

DeleteDocument(d) ==
  /\ index' = DeleteDoc(index, d) /\ shared' = shared \ {d}
  /\ searched' = "none" /\ UNCHANGED changed

DeleteIndex ==
  /\ index' = EmptyIndex /\ shared' = {} /\ searched' = "none" /\ UNCHANGED changed

(* search: of the documents that have a term, any page (their scores are
   not modelled); the answer holds the stored dictionaries. *)
SearchEngine(tokens) ==
  LET matching == {d \in DocIds : \E t \in tokens : index.postings[t][d] > 0}
  IN  /\ searched = "none" /\ StoredDocs(index) # {}
      /\ \E page \in SUBSET matching :
           /\ page # {} \/ matching = {}
           /\ searched' = IF page \subseteq StoredDocs(index) THEN "ok" ELSE "KeyError"
           /\ shared' = shared \cup (page \cap StoredDocs(index))
      /\ UNCHANGED <<index, changed>>

(* A caller changes the dictionary it gave, or got. *)
CallerChanges(d, body) ==
  /\ d \in shared /\ index.docs[d] # body
  /\ index' = [index EXCEPT !.docs[d] = body] /\ changed' = TRUE
  /\ UNCHANGED <<shared, searched>>

Items == [id : DocIds \cup {"missing"}, body : Bodies]

(* After a change nothing is written any more (bound). *)
IndexNext ==
  \/ DeleteIndex
  \/ ~changed /\ \E d \in DocIds, b \in Bodies : IndexDocument(d, b) \/ CallerChanges(d, b)
  \/ \E d \in DocIds : DeleteDocument(d)
  \/ ~changed /\ \E i, j \in Items : BulkIndex(<<i, j>>)
  \/ \E tokens \in SUBSET Terms \ {{}} : SearchEngine(tokens)

----------------------------------------
(* The vector stores.  Elasticsearch shows what was written when it
   refreshes, and has no field vector_id to sort by. *)

VectorsInit ==
  /\ vectors \in {[kind |-> k, order |-> <<>>, live |-> <<>>] : k \in StoreKinds}
  /\ rsearch = [s \in Searches |-> [at |-> "new", hits |-> <<>>, stored |-> {},
                                   result |-> <<>>]]

(* Those that are not there come last; one written again keeps its place. *)
Joined(order, ids) == order \o SelectSeq(ids, LAMBDA v : v \notin ToSet(order))

(* InMemoryVectorStore.add: the oldest go when there are too many. *)
AddVectors(ids) ==
  LET all == Joined(vectors.order, ids)
      over == IF Len(all) > MaxVectors THEN Len(all) - MaxVectors ELSE 0
      left == SubSeq(all, over + 1, Len(all))
  IN  /\ vectors.kind = "memory" /\ vectors' = [vectors EXCEPT !.order = left, !.live = left]
      /\ UNCHANGED rsearch

(* ElasticsearchVectorStore.add. *)
BulkVectors(ids) ==
  /\ vectors.kind = "elasticsearch" /\ vectors' = [vectors EXCEPT !.live = Joined(@, ids)]
  /\ UNCHANGED rsearch

RefreshIndex ==
  /\ vectors.live # vectors.order
  /\ vectors' = [vectors EXCEPT !.order = vectors.live] /\ UNCHANGED rsearch

DeleteVectors(ids) ==
  LET left == SelectSeq(vectors.live, LAMBDA v : v \notin ids)
  IN  /\ vectors' = IF vectors.kind = "memory" THEN [vectors EXCEPT !.order = left, !.live = left]
                    ELSE [vectors EXCEPT !.live = left]
      /\ vectors' # vectors /\ UNCHANGED rsearch

(* ids_in_order of Elasticsearch, where all lack the field sorted by. *)
AnyOrder == SetToSeqs(ToSet(vectors.order))

(* ids_in_order. *)
OrdersRead == IF vectors.kind = "memory" THEN {vectors.order} ELSE AnyOrder

----------------------------------------
(* Retriever.search, in three steps. *)

AtMost(n, s) == SubSeq(s, 1, IF Len(s) < n THEN Len(s) ELSE n)

(* The nearest ones: similarities are any. *)
Recall(s) ==
  /\ rsearch[s].at = "new"
  /\ \E near \in SetToSeqs(ToSet(vectors.order)) :
       rsearch' = [rsearch EXCEPT ![s] = [at |-> "recalled", hits |-> AtMost(TopK, near),
                                          stored |-> ToSet(near), result |-> <<>>]]
  /\ UNCHANGED vectors

Around(order, v) ==
  LET p == CHOOSE n \in DOMAIN order : order[n] = v
      first == IF p > NeighborWindow THEN p - NeighborWindow ELSE 1
      last == IF p + NeighborWindow < Len(order) THEN p + NeighborWindow ELSE Len(order)
  IN  SubSeq(order, first, last)

(* A mutant: one that has gone meanwhile stays in. *)
ExpandedBlindly(order, hits) ==
  FoldLeft(LAMBDA found, v : Joined(found, IF v \in ToSet(order) THEN Around(order, v)
                                           ELSE <<v>>), <<>>, hits)

(* _expand_neighbors: each with its neighbours, once; one that has gone
   meanwhile is left out. *)
Expanded(order, hits) ==
  FoldLeft(LAMBDA found, v : IF v \in ToSet(order) THEN Joined(found, Around(order, v))
                             ELSE found, <<>>, hits)

Expand(s) ==
  /\ rsearch[s].at = "recalled"
  /\ IF NeighborWindow > 0
     THEN \E order \in OrdersRead :
            rsearch' = [rsearch EXCEPT ![s].at = "expanded", ![s].stored = ToSet(order),
                                       ![s].hits = Expanded(order, @)]
     ELSE rsearch' = [rsearch EXCEPT ![s].at = "expanded"]
  /\ UNCHANGED vectors

(* The scores of the reranker: those below min_score are left out, and the
   rest is sorted.  IdentityReranker finds all of them equally good. *)
Rerank(s) ==
  /\ rsearch[s].at = "expanded"
  /\ \E good \in SUBSET VectorIds : \E fair \in SUBSET (VectorIds \ good) :
       rsearch' = [rsearch EXCEPT
         ![s].at = "done", ![s].hits = <<>>,
         ![s].result = AtMost(TopK, SelectSeq(rsearch[s].hits, LAMBDA v : v \in good)
                                    \o SelectSeq(rsearch[s].hits, LAMBDA v : v \in fair))]
  /\ UNCHANGED vectors

VectorsNext ==
  \/ RefreshIndex
  \/ \E v \in VectorIds : AddVectors(<<v>>) \/ BulkVectors(<<v>>) \/ DeleteVectors({v})
  \/ \E v, w \in VectorIds : v # w /\ (AddVectors(<<v, w>>) \/ BulkVectors(<<v, w>>))
  \/ \E s \in Searches : Recall(s) \/ Expand(s) \/ Rerank(s)

----------------------------------------
(* MarkdownChunker.chunk, line by line.  "row" starts with a bar, "rule"
   is a row of bars and dashes. *)

ChunksInit ==
  /\ \E n \in 0..MaxLines : \E lines \in [1..n -> LineKinds] :
       text = [lines |-> lines, next |-> 1, open |-> FALSE, buffer |-> <<>>,
               block |-> <<>>, heading |-> 0, chunks |-> <<>>]
  /\ mislaid = {}

Cut(kind, x, content) ==
  IF content = <<>> /\ kind = "prose" THEN x.chunks
  ELSE Append(x.chunks, [kind |-> kind, lines |-> ToSet(content), heading |-> x.heading])
Flushed(x) == [x EXCEPT !.chunks = Cut("prose", x, x.buffer), !.buffer = <<>>]

Kind(x, n) == x.lines[n]
IsRow(x, n) == n <= Len(x.lines) /\ Kind(x, n) \in {"row", "rule"}

(* _is_table_block: a row, and a rule after it. *)
IsTable(x, n) == IsRow(x, n) /\ n < Len(x.lines) /\ Kind(x, n + 1) = "rule"

(* The first line that is no row. *)
TableEnd(x, n) == CHOOSE m \in n + 1..Len(x.lines) + 1 :
                    ~IsRow(x, m) /\ \A k \in n..m - 1 : IsRow(x, k)

Read(x, to) == [x EXCEPT !.next = to]

(* A block in a fence is one chunk, empty or not. *)
Fence(x) ==
  IF x.open THEN [x EXCEPT !.open = FALSE, !.chunks = Cut("code", x, x.block), !.block = <<>>]
  ELSE [Flushed(x) EXCEPT !.open = TRUE]

Table(x) ==
  LET end == TableEnd(x, x.next)
      y == Flushed(x)
  IN  Read([y EXCEPT !.chunks = Cut("table", y, [n \in 1..end - x.next |-> x.next + n - 1])], end)

(* A mutant: a heading does not end the text before it. *)
HeadingInside(x) == [x EXCEPT !.heading = x.next]

Heading(x) == [Flushed(x) EXCEPT !.heading = x.next]

ReadLine ==
  LET n == text.next
      k == Kind(text, n)
      on == Read(text, n + 1)
  IN  /\ n <= Len(text.lines)
      /\ text' = IF k = "fence" THEN Read(Fence(text), n + 1)
                 ELSE IF text.open THEN [on EXCEPT !.block = Append(@, n)]
                 ELSE IF IsTable(text, n) THEN Table(text)
                 ELSE IF k = "heading" THEN Read(Heading(text), n + 1)
                 ELSE IF k = "blank" THEN on
                 ELSE [on EXCEPT !.buffer = Append(@, n)]
      /\ UNCHANGED mislaid

(* The last flush: a block that is still open is not among the chunks. *)
EndOfText ==
  /\ text.next = Len(text.lines) + 1
  /\ text' = Read(Flushed(text), Len(text.lines) + 2)
  /\ mislaid' = ToSet(text.block)

ChunksNext == ReadLine \/ EndOfText

----------------------------------------
(* ElasticsearchSearchEngine and ElasticsearchVectorStore over one
   cluster.  An operation names a tenant or leaves it to the context of
   the request; a document is [id, of, by]: for whom and by which of the
   two it was written.  An error of the cluster changes nothing. *)

NoHits == [of |-> <<>>, in |-> <<>>, found |-> {}, failed |-> FALSE]
Placeholder == <<"no-tenant">>
Vector == <<"vector">>

(* The prefix both are given by default; a client that knows the keyword,
   or does not. *)
EnginePrefix == <<"web">>
StorePrefix == <<"web">>
ElasticInit == cluster = <<>> /\ keyword \in BOOLEAN /\ disturbed = {} /\ esHits = NoHits

(* _resolve_tenant. *)
ResolveTenant(named, context) ==
  IF named # <<>> THEN named ELSE IF context # <<>> THEN context ELSE Placeholder

(* A mutant: an underscore in a name does not matter. *)
IndexNameAny(tenant, name) == EnginePrefix \o tenant \o name

(* _index_name: no name is made of a tenant or an index with an underscore. *)
IndexName(tenant, name) ==
  IF Len(tenant) # 1 \/ Len(name) # 1 THEN <<>> ELSE EnginePrefix \o tenant \o name

(* ElasticsearchVectorStore._index_name: the index of a tenant's vectors. *)
StoreIndex(tenant) == IF Len(tenant) # 1 THEN <<>> ELSE StorePrefix \o tenant \o Vector

Exists(n) == n \in DOMAIN cluster
Empty(dense) == [dense |-> dense, live |-> {}, shown |-> {}]
MayGrow(n) == n # <<>> /\ (Exists(n) \/ Cardinality(DOMAIN cluster) < MaxEsIndexes)   \* bound
Was(c, n, dense) == IF n \in DOMAIN c THEN c[n] ELSE Empty(dense)
With(c, n, x) == [m \in DOMAIN c \cup {n} |-> IF m = n THEN x ELSE c[m]]
Lives(x, live, refresh) == [x EXCEPT !.live = live, !.shown = IF refresh THEN live ELSE @]
WithoutIds(docs, ids) == {d \in docs : d.id \notin ids}

(* What is written to an index that is not there makes it, its fields as
   they come. *)
Write(c, n, tenant, by, ids, refresh) ==
  LET x == Was(c, n, FALSE)
  IN  With(c, n, Lives(x, WithoutIds(x.live, ids)
                            \cup {[id |-> d, of |-> tenant, by |-> by] : d \in ids}, refresh))
Touches(n, name) == disturbed' = IF name = Vector THEN disturbed \cup {n} ELSE disturbed

(* create_index: one that is there is left as it is. *)
EngineCreates(tenant, name) ==
  LET n == IndexName(tenant, name)
  IN  /\ MayGrow(n) /\ ~Exists(n) /\ cluster' = With(cluster, n, Empty(FALSE))
      /\ Touches(n, name) /\ esHits' = NoHits /\ UNCHANGED keyword

(* delete_index. *)
EngineDeletes(tenant, name) ==
  LET n == IndexName(tenant, name)
  IN  /\ Exists(n) /\ keyword /\ cluster' = [m \in DOMAIN cluster \ {n} |-> cluster[m]]
      /\ Touches(n, name) /\ esHits' = NoHits /\ UNCHANGED keyword

(* index_document. *)
EngineWrites(tenant, name, d, refresh) ==
  LET n == IndexName(tenant, name)
  IN  /\ MayGrow(n) /\ cluster' = Write(cluster, n, tenant, "engine", {d}, refresh)
      /\ Touches(n, name) /\ esHits' = NoHits /\ UNCHANGED keyword

(* bulk_index: those without an id are passed over; when none is left, the
   cluster is not asked. *)
EngineBulk(tenant, name, items, refresh) ==
  LET n == IndexName(tenant, name)
      ids == items \cap EsIds
  IN  /\ MayGrow(n) /\ ids # {} /\ cluster' = Write(cluster, n, tenant, "engine", ids, refresh)
      /\ Touches(n, name) /\ esHits' = NoHits /\ UNCHANGED keyword

(* delete_document. *)
EngineRemoves(tenant, name, d, refresh) ==
  LET n == IndexName(tenant, name)
  IN  /\ Exists(n)
      /\ cluster' = With(cluster, n, Lives(cluster[n], WithoutIds(cluster[n].live, {d}), refresh))
      /\ Touches(n, name) /\ esHits' = NoHits /\ UNCHANGED keyword

Answers(tenant, name, found) ==
  esHits' = [of |-> tenant, in |-> name, found |-> found, failed |-> FALSE]

(* search, a page of it; an index that is not there has nothing. *)
EngineSearches(tenant, name) ==
  LET n == IndexName(tenant, name)
  IN  /\ n # <<>> /\ UNCHANGED <<cluster, keyword, disturbed>>
      /\ \E page \in SUBSET Was(cluster, n, FALSE).shown : Answers(tenant, name, page)

(* _ensure_index: errors are logged, that of an index that is there and
   that of a client that does not know the keyword among them. *)
Ensured(n, made) ==
  IF Exists(n) THEN <<cluster, disturbed>>
  ELSE IF made /\ keyword THEN <<With(cluster, n, Empty(TRUE)), disturbed \ {n}>>
  ELSE <<cluster, disturbed \cup {n}>>

(* A mutant: the index is left to the first search. *)
StoreAddsFirst(tenant, ids) ==
  LET n == StoreIndex(tenant)
  IN  /\ MayGrow(n) /\ esHits' = NoHits /\ UNCHANGED <<keyword, disturbed>>
      /\ cluster' = Write(cluster, n, tenant, "store", ids, FALSE)

(* ElasticsearchVectorStore.add. *)
StoreAdds(tenant, ids) ==
  LET n == StoreIndex(tenant)
  IN  /\ MayGrow(n) /\ esHits' = NoHits /\ UNCHANGED keyword
      /\ \E made \in BOOLEAN :
           LET e == Ensured(n, made)
           IN  /\ cluster' = Write(e[1], n, tenant, "store", ids, FALSE) /\ disturbed' = e[2]

(* delete: where _index_exists says so. *)
StoreDeletes(tenant, ids) ==
  LET n == StoreIndex(tenant)
  IN  /\ Exists(n) /\ esHits' = NoHits /\ UNCHANGED <<keyword, disturbed>>
      /\ cluster' = With(cluster, n, Lives(cluster[n], WithoutIds(cluster[n].live, ids), FALSE))

(* search by kNN, which needs the field of vectors; documents of the
   engine have none. *)
StoreSearches(tenant) ==
  LET n == StoreIndex(tenant)
  IN  /\ MayGrow(n) /\ UNCHANGED keyword
      /\ \E made \in BOOLEAN :
           LET e == Ensured(n, made)
               near == {d \in Was(e[1], n, FALSE).shown : d.by = "store"}
           IN  /\ cluster' = e[1] /\ disturbed' = e[2]
               /\ IF n \in DOMAIN e[1] /\ e[1][n].dense
                  THEN \E some \in SUBSET near : Answers(tenant, Vector, some)
                  ELSE esHits' = [NoHits EXCEPT !.of = tenant, !.in = Vector, !.failed = TRUE]

(* get: what was written, shown or not; _index_exists takes an error for a
   no. *)
StoreGets(tenant, ids) ==
  LET n == StoreIndex(tenant)
      live == {d \in Was(cluster, n, FALSE).live : d.id \in ids}
  IN  /\ n # <<>> /\ UNCHANGED <<cluster, keyword, disturbed>>
      /\ \E found \in {live, {}} : Answers(tenant, Vector, found)

ClusterRefreshes ==
  \E n \in DOMAIN cluster :
    /\ cluster[n].shown # cluster[n].live
    /\ cluster' = With(cluster, n, Lives(cluster[n], cluster[n].live, TRUE))
    /\ esHits' = NoHits /\ UNCHANGED <<keyword, disturbed>>

ElasticNext ==
  \/ ClusterRefreshes
  \/ \E tenant \in {ResolveTenant(named, context) : named, context \in EsTenants} :
       \/ \E name \in EsIndexes, d \in EsIds, refresh \in BOOLEAN :
            EngineWrites(tenant, name, d, refresh) \/ EngineRemoves(tenant, name, d, refresh)
       \/ \E name \in EsIndexes, items \in SUBSET (EsIds \cup {"missing"}), refresh \in BOOLEAN :
            EngineBulk(tenant, name, items, refresh)
       \/ \E name \in EsIndexes :
            \/ EngineCreates(tenant, name) \/ EngineDeletes(tenant, name)
            \/ EngineSearches(tenant, name)
       \/ \E ids \in SUBSET EsIds \ {{}} :
            StoreAdds(tenant, ids) \/ StoreDeletes(tenant, ids) \/ StoreGets(tenant, ids)
       \/ StoreSearches(tenant)

----------------------------------------
(* Properties. *)

(* Unless a caller changed a document behind the engine's back, its
   postings are those of the documents it holds, at most as many as are
   allowed, and no search fails (index_document, bulk_index,
   delete_document, search). *)
IndexExact ==
  \/ changed
  \/ /\ \A t \in Terms, d \in DocIds :
          index.postings[t][d] = IF index.docs[d] = NoBody THEN 0 ELSE index.docs[d][t]
     /\ ToSet(index.order) = StoredDocs(index) /\ Len(index.order) <= MaxDocuments
     /\ searched # "KeyError"

(* What a search answers was stored when it read the store last, and is in
   the answer once, however the store is written meanwhile
   (Retriever.search, _expand_neighbors). *)
ResultsStored ==
  \A s \in Searches :
    LET result == rsearch[s].result
    IN  ToSet(result) \subseteq rsearch[s].stored /\ IsInjective(result) /\ Len(result) <= TopK

(* A text that was cut has every line in one chunk, under the last heading
   before it, but for blank lines, headings and fences.  Lines are lost in
   one case only: those of a block that is never closed are in no chunk,
   and then all of them after its fence (MarkdownChunker.chunk). *)
InFences(x, n) == Cardinality({m \in 1..n - 1 : Kind(x, m) = "fence"}) % 2 = 1
Content(x) == {n \in DOMAIN x.lines : Kind(x, n) # "fence"
                                      /\ (InFences(x, n) \/ Kind(x, n) \notin {"blank", "heading"})}
HeadingOf(x, n) ==
  LET before == {m \in 1..n - 1 : Kind(x, m) = "heading" /\ ~InFences(x, m)}
  IN  IF before = {} THEN 0 ELSE CHOOSE m \in before : \A k \in before : k <= m
AllCut ==
  text.next = Len(text.lines) + 2 =>
    /\ mislaid = {} \/ \E f \in DOMAIN text.lines :
         Kind(text, f) = "fence" /\ \A n \in f + 1..Len(text.lines) :
           Kind(text, n) # "fence" /\ n \in mislaid
    /\ \A n \in Content(text) \ mislaid :
         /\ Cardinality({c \in DOMAIN text.chunks : n \in text.chunks[c].lines}) = 1
         /\ \E c \in DOMAIN text.chunks :
              n \in text.chunks[c].lines /\ text.chunks[c].heading = HeadingOf(text, n)

(* What is found was written for the tenant that asks, as it is named or
   known from the context, whatever names tenants and indexes have; and by
   the store that is asked, but for an index of the engine that is named
   as the vectors are.  A search for vectors works where the vector store
   was the only one to touch their index and could make it (_index_name,
   _ensure_index). *)
HitsOwn ==
  /\ \A d \in esHits.found :
       /\ d.of = esHits.of
       /\ esHits.in # Vector => d.by = "engine"
  /\ esHits.failed => StoreIndex(esHits.of) \in disturbed
  /\ \A n \in DOMAIN cluster :
       n \notin disturbed => \A d \in cluster[n].live \cup cluster[n].shown :
         d.by = (IF cluster[n].dense THEN "store" ELSE "engine")

(* What is stored is found, what is found is stored, and the lines of a
   document are in its chunks, but for those of a block that is never
   closed (SearchEngine, vector stores, Retriever, MarkdownChunker). *)
RetrievalSound == IndexExact /\ ResultsStored /\ AllCut /\ HitsOwn
=============================================================================
