--------------------------- MODULE KnowledgeIndex ---------------------------
(***************************************************************************)
(* The runbook index.  Every API and worker process builds its retriever   *)
(* at start: it makes sure the Qdrant collection exists, reads the hashes  *)
(* of all points, and embeds and upserts the chunks whose hash differs.    *)
(* All processes share one collection, and during a rollout they have      *)
(* different versions of the documents.                                    *)
(***************************************************************************)
EXTENDS Naturals, Sequences

CONSTANTS
    Replica,    \* processes: API and workers
    Id,         \* chunk ids, "<doc_id>#<n>"; their order matters to ties
    Text,       \* contents; a hash or an embedding stands for its content
    None,       \* no point
    Versions,   \* the documents, version by version: sequences of chunks
    MaxFaults,  \* how many starts fail and processes die of a fault
    MaxQueue    \* bound of the model: unapplied upserts

Chunk == [id : Id, text : Text]

ASSUME KnowledgeAssumption ==
    /\ Replica # {} /\ Id \subseteq Nat /\ None \notin Text
    /\ Versions \in Seq(Seq(Chunk)) /\ Versions # <<>>
    /\ MaxFaults \in Nat /\ MaxQueue \in Nat \ {0}

VARIABLES
    image,       \* the version of the documents each process is shipped with
    at,          \* where BuildRunbookRetriever is, or that it serves
    known,       \* Index: the hashes read from the collection
    next,        \* Index: the chunk the loop is at
    wrote,       \* this start has stored a chunk
    collection,  \* the collection exists
    points,      \* what each point of the collection was made of
    queue,       \* upserts Qdrant acknowledged and has not applied yet
    late,        \* history: a process read hashes that its predecessor's
                 \* acknowledged upserts were missing from
    faults       \* how many faults there were

process == <<image, at, known, next, wrote>>
store == <<collection, points, queue>>
vars == <<process, store, late, faults>>

Starting == {"check", "create", "hashes", "index"}
Docs(r) == Versions[image[r]]
Current(r) == Docs(r)[next[r]]
NoPoints == [i \in Id |-> None]

-----------------------------------------------------------------------------
Init ==
    /\ image = [r \in Replica |-> 1]
    /\ at = [r \in Replica |-> "down"]
    /\ known = [r \in Replica |-> NoPoints]
    /\ next = [r \in Replica |-> 1]
    /\ wrote = [r \in Replica |-> FALSE]
    /\ collection = FALSE /\ points = NoPoints /\ queue = <<>>
    /\ late = FALSE /\ faults = 0

Enter(r, place) == at' = [at EXCEPT ![r] = place]

(* The process ends: its Index is forgotten, what it upserted is not.      *)
Ends(r) ==
    /\ Enter(r, "down")
    /\ known' = [known EXCEPT ![r] = NoPoints]
    /\ next' = [next EXCEPT ![r] = 1]
    /\ wrote' = [wrote EXCEPT ![r] = FALSE]

(* Somebody starts the process; the documents are in its image.            *)
Boot(r) ==
    /\ at[r] = "down"
    /\ Enter(r, "check")
    /\ UNCHANGED <<image, known, next, wrote, store, late, faults>>

(* EnsureCollection asks first and creates then; the second of two that    *)
(* create it gets an error, which ends the start.                          *)
CheckCollection(r) ==
    /\ at[r] = "check"
    /\ Enter(r, IF collection THEN "hashes" ELSE "create")
    /\ UNCHANGED <<image, known, next, wrote, store, late, faults>>

CreateCollection(r) ==
    /\ at[r] = "create" /\ ~collection
    /\ collection' = TRUE
    /\ Enter(r, "hashes")
    /\ UNCHANGED <<image, known, next, wrote, points, queue, late, faults>>

LoseCreation(r) ==
    /\ at[r] = "create" /\ collection
    /\ Ends(r)
    /\ UNCHANGED <<image, store, late, faults>>

Hashes(r) ==
    /\ at[r] = "hashes"
    /\ Enter(r, "index")
    /\ known' = [known EXCEPT ![r] = points]
    /\ late' = (late \/ \E k \in DOMAIN queue : queue[k].by = r)
    /\ UNCHANGED <<image, next, wrote, store, faults>>

-----------------------------------------------------------------------------
(* The loop of Index.  A chunk whose hash is known is skipped; any other   *)
(* is embedded and upserted.                                               *)
UnchangedNever(r) == FALSE                              \* mutants: embeds
UnchangedById(r) == known[r][Current(r).id] # None      \* always; by id only

Unchanged(r) == known[r][Current(r).id] = Current(r).text

(* Mutant: the loop steps over the chunk after a skipped one.              *)
SkipTwo(r) ==
    /\ at[r] = "index" /\ next[r] <= Len(Docs(r)) /\ Unchanged(r)
    /\ next' = [next EXCEPT ![r] = @ + 2]
    /\ UNCHANGED <<image, at, known, wrote, store, late, faults>>

Skip(r) ==
    /\ at[r] = "index" /\ next[r] <= Len(Docs(r)) /\ Unchanged(r)
    /\ next' = [next EXCEPT ![r] = @ + 1]
    /\ UNCHANGED <<image, at, known, wrote, store, late, faults>>

Sent(r) == [by |-> r, id |-> Current(r).id, text |-> Current(r).text]

Upsert(r) ==
    /\ at[r] = "index" /\ next[r] <= Len(Docs(r)) /\ ~Unchanged(r)
    /\ Len(queue) < MaxQueue
    /\ queue' = Append(queue, Sent(r))
    /\ next' = [next EXCEPT ![r] = @ + 1]
    /\ wrote' = [wrote EXCEPT ![r] = TRUE]
    /\ UNCHANGED <<image, at, known, collection, points, late, faults>>

Indexed(r) ==
    /\ at[r] = "index" /\ next[r] > Len(Docs(r))
    /\ Enter(r, "up")
    /\ UNCHANGED <<image, known, next, wrote, store, late, faults>>

(* Mutant: a chunk that cannot be embedded or upserted is logged, and the  *)
(* loop goes on.                                                           *)
FaultLogged(r) ==
    /\ at[r] = "index" /\ next[r] <= Len(Docs(r)) /\ ~Unchanged(r)
    /\ faults < MaxFaults
    /\ faults' = faults + 1
    /\ next' = [next EXCEPT ![r] = @ + 1]
    /\ UNCHANGED <<image, at, known, wrote, store, late>>

(* A dependency fails, the process is killed, or the answer to an upsert   *)
(* is lost: the start, or the process, ends.                               *)
Fault(r) ==
    /\ at[r] # "down" /\ faults < MaxFaults
    /\ faults' = faults + 1
    /\ \/ UNCHANGED queue
       \/ /\ at[r] = "index" /\ next[r] <= Len(Docs(r)) /\ ~Unchanged(r)
          /\ Len(queue) < MaxQueue
          /\ queue' = Append(queue, Sent(r))
    /\ Ends(r)
    /\ UNCHANGED <<image, collection, points, late>>

(* The three minutes of a start are over.  They are enough for one chunk.  *)
Timeout(r) ==
    /\ at[r] = "index" /\ wrote[r]
    /\ Ends(r)
    /\ UNCHANGED <<image, store, late, faults>>

(* The process is replaced by one with newer documents.                    *)
Replace(r) ==
    /\ image[r] < Len(Versions)
    /\ image' = [image EXCEPT ![r] = @ + 1]
    /\ Ends(r)
    /\ UNCHANGED <<store, late, faults>>

(* Qdrant applies the upserts in the order it acknowledged them.           *)
Apply ==
    /\ queue # <<>>
    /\ points' = [points EXCEPT ![Head(queue).id] = Head(queue).text]
    /\ queue' = Tail(queue)
    /\ UNCHANGED <<process, collection, late, faults>>

Start(r) ==
    \/ Boot(r) \/ CheckCollection(r) \/ CreateCollection(r) \/ LoseCreation(r)
    \/ Hashes(r) \/ Skip(r) \/ Upsert(r) \/ Indexed(r)

Next == Apply \/ \E r \in Replica : Start(r) \/ Fault(r) \/ Timeout(r) \/ Replace(r)

Spec == Init /\ [][Next]_vars

(* Who is down is started again, a start goes on, a rollout is finished.   *)
FairSpec ==
    /\ Spec /\ WF_vars(Apply)
    /\ \A r \in Replica : WF_vars(Start(r)) /\ WF_vars(Replace(r))

-----------------------------------------------------------------------------
(* Every variable has its type.                                            *)
TypeOK ==
    /\ image \in [Replica -> DOMAIN Versions]
    /\ at \in [Replica -> Starting \cup {"down", "up"}]
    /\ known \in [Replica -> [Id -> Text \cup {None}]]
    /\ next \in [Replica -> Nat \ {0}]
    /\ \A r \in Replica : next[r] <= Len(Docs(r)) + 1
    /\ wrote \in [Replica -> BOOLEAN]
    /\ collection \in BOOLEAN
    /\ points \in [Id -> Text \cup {None}]
    /\ queue \in Seq([by : Replica, id : Id, text : Text]) /\ Len(queue) <= MaxQueue
    /\ late \in BOOLEAN /\ faults \in 0 .. MaxFaults

(* What the point of an id is when everything acknowledged is applied.     *)
Pending(i) == {k \in DOMAIN queue : queue[k].id = i}
Eventual(i) ==
    IF Pending(i) = {} THEN points[i]
    ELSE queue[CHOOSE k \in Pending(i) : \A j \in Pending(i) : j <= k].text

(* Chunks whose id no other chunk of the version has.                      *)
Unique(docs) ==
    {docs[k] : k \in {j \in DOMAIN docs :
        \A l \in DOMAIN docs : docs[l].id = docs[j].id => l = j}}

Covers(docs) == \A c \in Unique(docs) : Eventual(c.id) = c.text

(* As long as no rollout has begun, a process that serves finds all of its *)
(* documents in the collection, whoever crashed, lost a race or timed out  *)
(* while indexing them (retriever.go:75).                                  *)
UpIsIndexed ==
    (\A r \in Replica : image[r] = 1) =>
        \A r \in Replica : at[r] = "up" => Covers(Docs(r))

(* However the starts of old and new processes interleaved during a        *)
(* rollout, once all of them serve one version the collection holds it,    *)
(* unless a process read hashes from under its predecessor's upserts.      *)
RolloutConverges ==
    \A v \in DOMAIN Versions :
        (\A r \in Replica : image[r] = v /\ at[r] = "up") /\ ~late => Covers(Versions[v])

(* Every process serves in the end, although any start may be cut off      *)
(* after one chunk, processes undo each other's upserts during a rollout   *)
(* and one of two that create the collection fails (retriever.go:82).      *)
AllServe == <>[](\A r \in Replica : at[r] = "up" /\ image[r] = Len(Versions))

=============================================================================
