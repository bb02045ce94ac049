------------------------ MODULE KnowledgeIndexProofs ------------------------
(***************************************************************************)
(* Proofs, for any number of processes and versions of the documents, that *)
(* the starts of KnowledgeIndex leave the collection with what the serving *)
(* processes need.  The argument is about the last write to a point: its   *)
(* author either has to read the hashes again, or wrote it, or found it,   *)
(* in the start that is now under way, and agrees with it.                 *)
(***************************************************************************)
EXTENDS KnowledgeIndex, TLAPS

(* The start has read its hashes.                                          *)
Reading == {"index", "up"}

Upserted == [by : Replica, id : Id, text : Text]

(* The last of the pending upserts of an id.                               *)
LastWrite(i, k) == k \in Pending(i) /\ \A j \in Pending(i) : j <= k

WritesEnd == \A i \in Id : Pending(i) # {} => \E k \in Pending(i) : LastWrite(i, k)

(* Chunk k of a process's documents is behind the loop and has id i.       *)
Passed(r, k, i) == k \in DOMAIN Docs(r) /\ k < next[r] /\ Docs(r)[k].id = i

Single(docs, k) == \A l \in DOMAIN docs : docs[l].id = docs[k].id => l = k

(* Everything the process has decided about an id agrees with the last     *)
(* write to it.                                                            *)
Settled(r, i) ==
    /\ \A k : Passed(r, k, i) /\ Single(Docs(r), k) => Docs(r)[k].text = Eventual(i)
    /\ known[r][i] = Eventual(i) \/ \E k : Passed(r, k, i)

Answers(r, i) == at[r] \in Reading => Settled(r, i)

(* Somebody answers for every point: the author of the last write while it *)
(* is pending.                                                             *)
Answered ==
    ~late => \A i \in Id :
        /\ Pending(i) = {} => \E r \in Replica : Answers(r, i)
        /\ \A k \in Pending(i) : LastWrite(i, k) => Answers(queue[k].by, i)

Stages ==
    \A r \in Replica : /\ at[r] \notin Reading => next[r] = 1
                       /\ at[r] = "up" => next[r] > Len(Docs(r))

AllFirst == \A r \in Replica : image[r] = 1

First == Versions[1]

(* Before a rollout nothing but the text of chunk k is ever written to its *)
(* point, and what is known of it is there.                                *)
OnlyOf(k) ==
    LET c == First[k] IN
    /\ points[c.id] \in {None, c.text}
    /\ \A j \in Pending(c.id) : queue[j].text = c.text
    /\ \A r \in Replica : known[r][c.id] \in {None, points[c.id]}
    /\ \A r \in Replica : at[r] \in Reading /\ k < next[r] =>
          points[c.id] = c.text \/ Pending(c.id) # {}

FirstOnly == AllFirst => \A k \in DOMAIN First : Single(First, k) => OnlyOf(k)

IInv == TypeOK /\ Stages /\ WritesEnd /\ Answered /\ FirstOnly

-----------------------------------------------------------------------------
(* Types.                                                                  *)

LEMMA Documents ==
    ASSUME TypeOK, NEW r \in Replica
    PROVE  /\ Docs(r) \in Seq(Chunk) /\ Len(Docs(r)) \in Nat
           /\ DOMAIN Docs(r) = 1 .. Len(Docs(r)) /\ next[r] \in Nat \ {0}
           /\ image[r] \in 1 .. Len(Versions) /\ Len(Versions) \in Nat
           /\ next[r] <= Len(Docs(r)) => next[r] \in DOMAIN Docs(r) /\ Current(r) \in Chunk
<1>1. image[r] \in DOMAIN Versions /\ Versions \in Seq(Seq(Chunk))
    BY KnowledgeAssumption DEF TypeOK
<1>2. Docs(r) \in Seq(Chunk)
    BY <1>1 DEF Docs
<1>3. next[r] \in Nat \ {0}
    BY DEF TypeOK
<1>. QED
    BY <1>1, <1>2, <1>3 DEF Current

LEMMA ChunkParts == \A x \in Chunk : x.id \in Id /\ x.text \in Text /\ x.text # None
BY KnowledgeAssumption DEF Chunk

LEMMA SentTyped ==
    ASSUME TypeOK, NEW r \in Replica, next[r] <= Len(Docs(r))
    PROVE  /\ Sent(r) \in Upserted
           /\ Sent(r).by = r /\ Sent(r).id = Current(r).id /\ Sent(r).text = Current(r).text
BY Documents, ChunkParts DEF Sent, Upserted

LEMMA TypeInit == Init => TypeOK
<1>. SUFFICES ASSUME Init PROVE TypeOK
    OBVIOUS
<1>1. Versions \in Seq(Seq(Chunk)) /\ Versions # << >> /\ 1 \in DOMAIN Versions
    BY KnowledgeAssumption
<1>2. \A r \in Replica : Docs(r) \in Seq(Chunk) /\ next[r] <= Len(Docs(r)) + 1
  <2>. TAKE r \in Replica
  <2>1. image[r] = 1 /\ next[r] = 1
      BY DEF Init
  <2>2. Docs(r) \in Seq(Chunk)
      BY <1>1, <2>1 DEF Docs
  <2>3. Len(Docs(r)) \in Nat
      BY <2>2
  <2>. QED
      BY <2>1, <2>2, <2>3
<1>3. queue \in Seq([by : Replica, id : Id, text : Text]) /\ Len(queue) <= MaxQueue
  <2>1. queue = << >>
      BY DEF Init
  <2>. QED
      BY <2>1, KnowledgeAssumption
<1>4. faults \in 0 .. MaxFaults
    BY KnowledgeAssumption DEF Init
<1>5. image \in [Replica -> DOMAIN Versions] /\ next \in [Replica -> Nat \ {0}]
    BY <1>1 DEF Init
<1>6. points \in [Id -> Text \cup {None}] /\ known \in [Replica -> [Id -> Text \cup {None}]]
    BY DEF Init, NoPoints
<1>7. at \in [Replica -> Starting \cup {"down", "up"}] /\ wrote \in [Replica -> BOOLEAN]
      /\ collection \in BOOLEAN /\ late \in BOOLEAN
    BY DEF Init
<1>. QED
    BY <1>2, <1>3, <1>4, <1>5, <1>6, <1>7 DEF TypeOK

-----------------------------------------------------------------------------
(* What the steps do to the processes and to the store.                    *)

(* r ends: its image may have been replaced before.                        *)
Ended(r) ==
    /\ Ends(r)
    /\ \/ image' = image
       \/ image[r] < Len(Versions) /\ image' = [image EXCEPT ![r] = @ + 1]

(* r goes from one place to another that is not beyond the hashes.         *)
Moves(r) ==
    /\ at[r] \in {"down", "check", "create"}
    /\ \E p \in Starting \ {"index"} : Enter(r, p)
    /\ UNCHANGED <<image, known, next, wrote>>

Quiet == UNCHANGED <<points, queue>>

Sends(r) ==
    /\ at[r] = "index" /\ next[r] <= Len(Docs(r)) /\ Len(queue) < MaxQueue
    /\ queue' = Append(queue, Sent(r)) /\ UNCHANGED points

Steps ==
    \/ Apply
    \/ \E r \in Replica :
          \/ Moves(r) /\ Quiet /\ UNCHANGED late
          \/ Hashes(r) \/ Skip(r) \/ Upsert(r) \/ Indexed(r)
          \/ Ended(r) /\ (Quiet \/ Sends(r)) /\ UNCHANGED late
    \/ UNCHANGED vars

LEMMA NextIsSteps == [Next]_vars => Steps
<1>. SUFFICES ASSUME [Next]_vars PROVE Steps
    OBVIOUS
<1>1. ASSUME NEW r \in Replica, Boot(r) \/ CheckCollection(r) \/ CreateCollection(r)
      PROVE  Moves(r) /\ Quiet /\ UNCHANGED late
    BY <1>1 DEF Boot, CheckCollection, CreateCollection, Moves, Quiet, Enter, Starting, store
<1>2. ASSUME NEW r \in Replica, LoseCreation(r) \/ Timeout(r) \/ Fault(r) \/ Replace(r)
      PROVE  Ended(r) /\ (Quiet \/ Sends(r)) /\ UNCHANGED late
    BY <1>2 DEF LoseCreation, Timeout, Fault, Replace, Ended, Quiet, Sends, store
<1>. QED
    BY <1>1, <1>2 DEF Next, Start, Steps

(* What the sends and the applications do to the queue.                    *)
LEMMA QueueTyped ==
    ASSUME TypeOK, Steps
    PROVE  /\ queue' \in Seq(Upserted) /\ Len(queue') <= MaxQueue
           /\ points' \in [Id -> Text \cup {None}]
<1>. queue \in Seq(Upserted) /\ Len(queue) \in Nat /\ Len(queue) <= MaxQueue
     /\ MaxQueue \in Nat /\ points \in [Id -> Text \cup {None}]
    BY KnowledgeAssumption DEF TypeOK, Upserted
<1>1. CASE Apply
  <2>1. Head(queue) \in Upserted /\ queue' = Tail(queue)
      BY <1>1 DEF Apply
  <2>2. Tail(queue) \in Seq(Upserted) /\ Len(Tail(queue)) <= Len(queue)
      BY <1>1 DEF Apply
  <2>3. points' \in [Id -> Text \cup {None}]
      BY <1>1, <2>1 DEF Apply, Upserted
  <2>. QED
      BY <2>1, <2>2, <2>3
<1>2. ASSUME NEW r \in Replica, Sends(r) \/ Upsert(r)
      PROVE  /\ queue' \in Seq(Upserted) /\ Len(queue') <= MaxQueue /\ points' = points
  <2>1. next[r] <= Len(Docs(r)) /\ Len(queue) < MaxQueue /\ queue' = Append(queue, Sent(r))
        /\ points' = points
      BY <1>2 DEF Sends, Upsert
  <2>2. Sent(r) \in Upserted
      BY <2>1, SentTyped
  <2>. HIDE DEF Upserted
  <2>3. Append(queue, Sent(r)) \in Seq(Upserted) /\ Len(Append(queue, Sent(r))) = Len(queue) + 1
      BY <2>2
  <2>. QED
      BY <2>1, <2>3
<1>3. CASE UNCHANGED <<points, queue>>
    BY <1>3
<1>. QED
    BY <1>1, <1>2, <1>3 DEF Steps, Quiet, Hashes, Skip, Indexed, store, vars

LEMMA TypeNext == TypeOK /\ [Next]_vars => TypeOK'
<1>. SUFFICES ASSUME TypeOK, [Next]_vars PROVE TypeOK'
    OBVIOUS
<1>. Steps
    BY NextIsSteps
<1>1. /\ queue' \in Seq([by : Replica, id : Id, text : Text]) /\ Len(queue') <= MaxQueue
      /\ points' \in [Id -> Text \cup {None}]
    BY QueueTyped DEF Upserted
<1>2. collection' \in BOOLEAN /\ late' \in BOOLEAN /\ faults' \in 0 .. MaxFaults
  <2>1. collection' \in {collection, TRUE}
      BY DEF Next, Apply, Start, Boot, CheckCollection, CreateCollection, LoseCreation, Hashes,
         Skip, Upsert, Indexed, Fault, Timeout, Replace, vars, store
  <2>2. UNCHANGED late \/ \E r \in Replica : late' = (late \/ \E k \in DOMAIN queue : queue[k].by = r)
      BY DEF Next, Apply, Start, Boot, CheckCollection, CreateCollection, LoseCreation, Hashes,
         Skip, Upsert, Indexed, Fault, Timeout, Replace, vars, store
  <2>3. \A r : (late \/ \E k \in DOMAIN queue : queue[k].by = r) \in BOOLEAN
      OBVIOUS
  <2>4. late' \in BOOLEAN
      BY <2>2, <2>3 DEF TypeOK
  <2>5. UNCHANGED faults \/ (faults < MaxFaults /\ faults' = faults + 1)
      BY DEF Next, Apply, Start, Boot, CheckCollection, CreateCollection, LoseCreation, Hashes,
         Skip, Upsert, Indexed, Fault, Timeout, Replace, vars, store
  <2>6. faults' \in 0 .. MaxFaults
      BY <2>5, KnowledgeAssumption DEF TypeOK
  <2>. QED
      BY <2>1, <2>4, <2>6 DEF TypeOK
<1>3. ASSUME NEW r \in Replica, Ended(r)
      PROVE  /\ image' \in [Replica -> DOMAIN Versions] /\ next' \in [Replica -> Nat \ {0}]
             /\ \A q \in Replica : next'[q] <= Len(Docs(q)') + 1
             /\ at' \in [Replica -> Starting \cup {"down", "up"}]
             /\ known' \in [Replica -> [Id -> Text \cup {None}]]
             /\ wrote' \in [Replica -> BOOLEAN]
  <2>1. /\ at' \in [Replica -> Starting \cup {"down", "up"}]
        /\ known' \in [Replica -> [Id -> Text \cup {None}]]
        /\ wrote' \in [Replica -> BOOLEAN] /\ next' \in [Replica -> Nat \ {0}]
      BY <1>3 DEF Ended, Ends, Enter, TypeOK, NoPoints
  <2>2. image' \in [Replica -> DOMAIN Versions]
      BY <1>3, Documents, KnowledgeAssumption DEF Ended, TypeOK
  <2>3. ASSUME NEW q \in Replica PROVE next'[q] <= Len(Docs(q)') + 1
    <3>1. Versions[image'[q]] \in Seq(Chunk)
        BY <2>2, KnowledgeAssumption
    <3>2. Docs(q)' \in Seq(Chunk) /\ Len(Docs(q)') \in Nat
        BY <3>1 DEF Docs
    <3>3. CASE q = r
      <4>1. next'[r] = 1
          BY <1>3 DEF Ended, Ends, TypeOK
      <4>. QED
          BY <3>2, <3>3, <4>1
    <3>4. CASE q # r
      <4>1. next'[q] = next[q] /\ image'[q] = image[q]
          BY <1>3, <3>4 DEF Ended, Ends, TypeOK
      <4>. QED
          BY <4>1 DEF Docs, TypeOK
    <3>. QED
        BY <3>3, <3>4
  <2>. QED
      BY <2>1, <2>2, <2>3
<1>4. ASSUME NEW r \in Replica, Skip(r) \/ Upsert(r)
      PROVE  UNCHANGED <<image, at, known>> /\ next' = [next EXCEPT ![r] = next[r] + 1]
             /\ next[r] <= Len(Docs(r)) /\ wrote' \in [Replica -> BOOLEAN]
    BY <1>4 DEF Skip, Upsert, TypeOK
<1>5. ASSUME NEW r \in Replica, Skip(r) \/ Upsert(r)
      PROVE  next' \in [Replica -> Nat \ {0}] /\ \A q \in Replica : next'[q] <= Len(Docs(q)') + 1
  <2>1. next[r] \in Nat \ {0} /\ Len(Docs(r)) \in Nat
      BY Documents
  <2>. DEFINE n == next[r] + 1
  <2>2. n \in Nat \ {0} /\ n <= Len(Docs(r)) + 1 /\ next' = [next EXCEPT ![r] = n]
      BY <1>4, <1>5, <2>1
  <2>. HIDE DEF n
  <2>3. next \in [Replica -> Nat \ {0}]
      BY DEF TypeOK
  <2>4. next' \in [Replica -> Nat \ {0}]
      BY <2>2, <2>3
  <2>5. ASSUME NEW q \in Replica PROVE next'[q] <= Len(Docs(q)') + 1
    <3>1. Docs(q)' = Docs(q)
        BY <1>4, <1>5 DEF Docs
    <3>2. next'[q] = IF q = r THEN n ELSE next[q]
        BY <2>2, <2>3
    <3>. QED
        BY <2>2, <3>1, <3>2 DEF TypeOK
  <2>. QED
      BY <2>4, <2>5
<1>6. ASSUME NEW r \in Replica, Moves(r) \/ Hashes(r) \/ Indexed(r)
      PROVE  /\ UNCHANGED <<image, next, wrote>>
             /\ at' \in [Replica -> Starting \cup {"down", "up"}]
             /\ known' \in [Replica -> [Id -> Text \cup {None}]]
    BY <1>6 DEF Moves, Hashes, Indexed, Enter, TypeOK, Starting
<1>7. CASE UNCHANGED process
    BY <1>1, <1>2, <1>7 DEF TypeOK, process, Docs
<1>8. CASE \E r \in Replica : Moves(r) \/ Hashes(r) \/ Indexed(r)
    BY <1>1, <1>2, <1>6, <1>8 DEF TypeOK, Docs
<1>9. CASE \E r \in Replica : Skip(r) \/ Upsert(r)
    BY <1>1, <1>2, <1>4, <1>5, <1>9 DEF TypeOK
<1>10. CASE \E r \in Replica : Ended(r)
    BY <1>1, <1>2, <1>3, <1>10 DEF TypeOK
<1>. QED
    BY <1>7, <1>8, <1>9, <1>10 DEF Steps, Apply, vars

(* Every variable keeps its type; the loop stays within the documents and  *)
(* the queue within its bound (Index).                                     *)
THEOREM TypeCorrect == Spec => []TypeOK
BY TypeInit, TypeNext, PTL DEF Spec

(* A process that no step of Steps is about stays as it is.                *)
Kept(q) ==
    /\ at'[q] = at[q] /\ next'[q] = next[q] /\ known'[q] = known[q] /\ image'[q] = image[q]
    /\ Docs(q)' = Docs(q)

LEMMA OthersKept ==
    ASSUME TypeOK, NEW r \in Replica,
           Moves(r) \/ Hashes(r) \/ Skip(r) \/ Upsert(r) \/ Indexed(r) \/ Ended(r)
    PROVE  \A q \in Replica \ {r} : Kept(q)
BY DEF TypeOK, Moves, Hashes, Skip, Upsert, Indexed, Ended, Ends, Enter, Kept, Docs

LEMMA EndedAtStart ==
    ASSUME TypeOK, NEW r \in Replica, Ended(r)
    PROVE  at'[r] = "down" /\ next'[r] = 1 /\ known'[r] = NoPoints
BY DEF TypeOK, Ended, Ends, Enter

LEMMA StagesKept ==
    ASSUME TypeOK, Stages, Steps
    PROVE  Stages'
<1>1. ASSUME NEW r \in Replica, \A q \in Replica \ {r} : Kept(q),
             /\ at'[r] \notin Reading => next'[r] = 1
             /\ at'[r] = "up" => next'[r] > Len(Docs(r)')
      PROVE  Stages'
    BY <1>1 DEF Stages, Kept
<1>2. ASSUME NEW r \in Replica, Moves(r) PROVE Stages'
  <2>1. at'[r] \notin Reading /\ next'[r] = next[r] /\ at[r] \notin Reading
      BY <1>2 DEF Moves, Enter, Reading, Starting, TypeOK
  <2>. QED
      BY <1>1, <1>2, <2>1, OthersKept DEF Stages, Reading
<1>3. ASSUME NEW r \in Replica, Hashes(r) PROVE Stages'
  <2>1. at'[r] = "index"
      BY <1>3 DEF Hashes, Enter, TypeOK
  <2>. QED
      BY <1>1, <1>3, <2>1, OthersKept DEF Reading
<1>4. ASSUME NEW r \in Replica, Skip(r) \/ Upsert(r) PROVE Stages'
  <2>1. at'[r] = "index"
      BY <1>4 DEF Skip, Upsert
  <2>. QED
      BY <1>1, <1>4, <2>1, OthersKept DEF Reading
<1>5. ASSUME NEW r \in Replica, Indexed(r) PROVE Stages'
  <2>1. at'[r] = "up" /\ next'[r] = next[r] /\ next[r] > Len(Docs(r)) /\ Docs(r)' = Docs(r)
      BY <1>5 DEF Indexed, Enter, TypeOK, Docs
  <2>. QED
      BY <1>1, <1>5, <2>1, OthersKept DEF Reading
<1>6. ASSUME NEW r \in Replica, Ended(r) PROVE Stages'
    BY <1>1, <1>6, OthersKept, EndedAtStart
<1>7. CASE UNCHANGED process
    BY <1>7 DEF Stages, process, Docs
<1>. QED
    BY <1>2, <1>3, <1>4, <1>5, <1>6, <1>7 DEF Steps, Apply, vars

-----------------------------------------------------------------------------
(* The last write to an id.                                                *)

LEMMA Latest ==
    ASSUME NEW S \in SUBSET Nat, NEW k \in S, \A l \in S : l <= k
    PROVE  (CHOOSE j \in S : \A l \in S : l <= j) = k
<1>. DEFINE last == CHOOSE j \in S : \A l \in S : l <= j
<1>1. last \in S /\ \A l \in S : l <= last
    OBVIOUS
<1>2. k <= last /\ last <= k /\ k \in Nat /\ last \in Nat
    BY <1>1
<1>. QED
    BY <1>2

LEMMA LastWriteIsEventual ==
    ASSUME TypeOK, NEW i, NEW k, LastWrite(i, k)
    PROVE  Eventual(i) = queue[k].text
<1>1. Pending(i) \subseteq Nat /\ k \in Pending(i) /\ \A l \in Pending(i) : l <= k
    BY DEF LastWrite, Pending, TypeOK
<1>2. (CHOOSE j \in Pending(i) : \A l \in Pending(i) : l <= j) = k
    BY <1>1, Latest
<1>. QED
    BY <1>1, <1>2 DEF Eventual

LEMMA LastWriteIsEventualNext ==
    ASSUME TypeOK', NEW i, NEW k, LastWrite(i, k)'
    PROVE  Eventual(i)' = queue'[k].text
<1>1. Pending(i)' \subseteq Nat /\ k \in Pending(i)' /\ \A l \in Pending(i)' : l <= k
    BY DEF LastWrite, Pending, TypeOK
<1>2. (CHOOSE j \in Pending(i)' : \A l \in Pending(i)' : l <= j) = k
    BY <1>1, Latest
<1>. QED
    BY <1>1, <1>2 DEF Eventual

LEMMA NothingPending ==
    ASSUME NEW i, Pending(i) = {}
    PROVE  Eventual(i) = points[i]
BY DEF Eventual

(* A step that does not touch the store.                                   *)
LEMMA QuietWrites ==
    ASSUME Quiet
    PROVE  \A i : /\ Pending(i)' = Pending(i) /\ Eventual(i)' = Eventual(i)
                  /\ \A k : LastWrite(i, k)' = LastWrite(i, k)
BY DEF Quiet, Pending, Eventual, LastWrite

(* An upsert is the last write to its id, and to no other.                 *)
LEMMA SentWrites ==
    ASSUME TypeOK, TypeOK', WritesEnd, NEW s \in Upserted,
           queue' = Append(queue, s), UNCHANGED points
    PROVE  /\ \A i : i # s.id =>
                 /\ Pending(i)' = Pending(i) /\ Eventual(i)' = Eventual(i)
                 /\ \A k \in Pending(i) : queue'[k] = queue[k]
           /\ \A k \in Pending(s.id)' :
                 queue'[k] = s \/ (k \in Pending(s.id) /\ queue'[k] = queue[k])
           /\ \E k \in Pending(s.id)' : LastWrite(s.id, k)'
           /\ \A k : LastWrite(s.id, k)' => queue'[k] = s
           /\ Eventual(s.id)' = s.text
<1>0. PICK n : n = Len(queue) + 1
    OBVIOUS
<1>1. queue \in Seq(Upserted)
    BY DEF TypeOK, Upserted
<1>2. n \in Nat /\ DOMAIN queue = 1 .. (n - 1) /\ DOMAIN queue' = 1 .. n /\ queue'[n] = s
      /\ \A k \in DOMAIN queue : queue'[k] = queue[k]
  <2>. HIDE DEF Upserted
  <2>. QED
      BY <1>0, <1>1
<1>3. ASSUME NEW i, i # s.id
      PROVE  Pending(i)' = Pending(i) /\ \A k \in Pending(i) : queue'[k] = queue[k]
  <2>1. \A k : k \in DOMAIN queue' /\ queue'[k].id = i <=> k \in DOMAIN queue /\ queue[k].id = i
      BY <1>2, <1>3
  <2>. QED
      BY <1>2, <2>1 DEF Pending
<1>4. ASSUME NEW i, i # s.id PROVE Eventual(i)' = Eventual(i)
  <2>1. Pending(i)' = Pending(i) /\ points' = points /\ \A k \in Pending(i) : queue'[k] = queue[k]
      BY <1>3, <1>4
  <2>2. CASE Pending(i) = {}
      BY <2>1, <2>2 DEF Eventual
  <2>3. CASE Pending(i) # {}
    <3>1. i \in Id
      <4>1. PICK k \in DOMAIN queue : queue[k].id = i
          BY <2>3 DEF Pending
      <4>2. queue[k] \in Upserted
          BY <1>1
      <4>. QED
          BY <4>1, <4>2 DEF Upserted
    <3>2. PICK k \in Pending(i) : LastWrite(i, k)
        BY <2>3, <3>1 DEF WritesEnd
    <3>3. LastWrite(i, k)'
        BY <2>1, <3>2 DEF LastWrite
    <3>4. Eventual(i) = queue[k].text /\ Eventual(i)' = queue'[k].text
        BY <3>2, <3>3, LastWriteIsEventual, LastWriteIsEventualNext
    <3>. QED
        BY <2>1, <3>2, <3>4
  <2>. QED
      BY <2>2, <2>3
<1>5. Pending(s.id)' = Pending(s.id) \cup {n}
  <2>1. \A k : k \in DOMAIN queue' /\ queue'[k].id = s.id
             <=> k = n \/ (k \in DOMAIN queue /\ queue[k].id = s.id)
      BY <1>2
  <2>. QED
      BY <2>1 DEF Pending
<1>6. \A k \in Pending(s.id) : k \in DOMAIN queue /\ k <= n /\ k \in Nat
    BY <1>2 DEF Pending
<1>7. LastWrite(s.id, n)'
    BY <1>2, <1>5, <1>6 DEF LastWrite
<1>8. \A k : LastWrite(s.id, k)' => k = n
    BY <1>2, <1>5, <1>6 DEF LastWrite
<1>9. Eventual(s.id)' = s.text
    BY <1>2, <1>7, LastWriteIsEventualNext
<1>10. ASSUME NEW k \in Pending(s.id)'
       PROVE  queue'[k] = s \/ (k \in Pending(s.id) /\ queue'[k] = queue[k])
  <2>1. CASE k = n
      BY <1>2, <2>1
  <2>2. CASE k \in Pending(s.id)
      BY <1>2, <1>6, <2>2
  <2>. QED
      BY <1>5, <2>1, <2>2
<1>11. \E k \in Pending(s.id)' : LastWrite(s.id, k)'
    BY <1>5, <1>7
<1>12. \A k : LastWrite(s.id, k)' => queue'[k] = s
    BY <1>2, <1>8
<1>. QED
    BY <1>3, <1>4, <1>9, <1>10, <1>11, <1>12

(* Applying the first of the queue moves a write, and changes none: what   *)
(* is pending afterwards is what was behind it.                            *)
LEMMA AppliedWrites ==
    ASSUME TypeOK, TypeOK', WritesEnd, Apply
    PROVE  /\ queue[1] \in Upserted
           /\ \A i \in Id : Eventual(i)' = Eventual(i)
           /\ \A i, k : k \in Pending(i)' => k + 1 \in Pending(i) /\ queue'[k] = queue[k + 1]
           /\ \A i, k : LastWrite(i, k)' => LastWrite(i, k + 1)
           /\ \A i \in Id : Pending(i) # {} /\ Pending(i)' = {} => LastWrite(i, 1)
           /\ \A i \in Id : Pending(i)' # {} => \E k \in Pending(i)' : LastWrite(i, k)'
           /\ points' = [points EXCEPT ![queue[1].id] = queue[1].text]
           /\ \A i : Pending(i) = {} => Pending(i)' = {}
<1>. DEFINE n == Len(queue)
<1>1. queue \in Seq(Upserted) /\ queue # << >> /\ queue' = Tail(queue)
    BY DEF TypeOK, Upserted, Apply
<1>2. /\ n \in Nat \ {0} /\ DOMAIN queue = 1 .. n /\ DOMAIN queue' = 1 .. (n - 1)
      /\ \A k \in DOMAIN queue' : queue'[k] = queue[k + 1]
      /\ queue[1] \in Upserted /\ Head(queue) = queue[1]
  <2>. HIDE DEF Upserted
  <2>. QED
      BY <1>1
<1>. HIDE DEF n
<1>3. points' = [points EXCEPT ![queue[1].id] = queue[1].text]
    BY <1>2 DEF Apply
<1>4. \A i, k : k \in Pending(i)' <=> k \in Nat \ {0} /\ k + 1 \in Pending(i)
  <2>. TAKE i, k
  <2>1. k \in DOMAIN queue' <=> k \in Nat \ {0} /\ k + 1 \in DOMAIN queue
      BY <1>2
  <2>2. k \in Nat \ {0} /\ k + 1 \in DOMAIN queue => queue'[k] = queue[k + 1]
      BY <1>2, <2>1
  <2>. QED
      BY <2>1, <2>2 DEF Pending
<1>5. \A i, k : k \in Pending(i)' => queue'[k] = queue[k + 1]
    BY <1>2 DEF Pending
<1>6. \A i : Pending(i) \subseteq Nat \ {0}
    BY <1>2 DEF Pending
<1>7. ASSUME NEW i, NEW k, LastWrite(i, k)' PROVE LastWrite(i, k + 1)
  <2>1. k \in Pending(i)' /\ k \in Nat \ {0} /\ k + 1 \in Pending(i)
      BY <1>4, <1>7 DEF LastWrite
  <2>2. ASSUME NEW j \in Pending(i) PROVE j <= k + 1
    <3>1. CASE j = 1
        BY <2>1, <3>1
    <3>2. CASE j # 1
      <4>1. j \in Nat \ {0} /\ j - 1 \in Nat \ {0} /\ (j - 1) + 1 = j
          BY <1>6, <3>2
      <4>2. j - 1 \in Pending(i)'
          BY <1>4, <4>1
      <4>. QED
          BY <1>7, <2>1, <4>1, <4>2 DEF LastWrite
    <3>. QED
        BY <3>1, <3>2
  <2>. QED
      BY <2>1, <2>2 DEF LastWrite
<1>8. ASSUME NEW i \in Id, NEW k, LastWrite(i, k), k # 1
      PROVE  LastWrite(i, k - 1)' /\ k - 1 \in Pending(i)'
  <2>1. k \in Nat \ {0} /\ k - 1 \in Nat \ {0} /\ (k - 1) + 1 = k /\ k \in Pending(i)
      BY <1>6, <1>8 DEF LastWrite
  <2>2. k - 1 \in Pending(i)'
      BY <1>4, <2>1
  <2>3. \A j \in Pending(i)' : j <= k - 1
      BY <1>4, <1>8, <2>1 DEF LastWrite
  <2>. QED
      BY <2>2, <2>3 DEF LastWrite
<1>9. ASSUME NEW i \in Id, Pending(i) # {}, Pending(i)' = {} PROVE LastWrite(i, 1)
    BY <1>8, <1>9 DEF WritesEnd
<1>10. ASSUME NEW i \in Id, Pending(i)' # {} PROVE \E k \in Pending(i)' : LastWrite(i, k)'
  <2>1. PICK j \in Pending(i)' : TRUE
      BY <1>10
  <2>2. j \in Nat \ {0} /\ j + 1 \in Pending(i)
      BY <1>4, <2>1
  <2>3. PICK k \in Pending(i) : LastWrite(i, k)
      BY <2>2 DEF WritesEnd
  <2>4. k # 1
      BY <1>6, <2>2, <2>3 DEF LastWrite
  <2>. QED
      BY <1>8, <2>3, <2>4
<1>11. ASSUME NEW i \in Id PROVE Eventual(i)' = Eventual(i)
  <2>1. CASE Pending(i) = {}
    <3>1. Pending(i)' = {}
        BY <1>4, <2>1
    <3>2. queue[1].id # i
        BY <1>2, <2>1 DEF Pending
    <3>3. points'[i] = points[i]
        BY <1>3, <3>2 DEF TypeOK
    <3>. QED
        BY <2>1, <3>1, <3>3 DEF Eventual
  <2>2. CASE Pending(i) # {} /\ Pending(i)' = {}
    <3>1. LastWrite(i, 1)
        BY <1>9, <2>2
    <3>2. Eventual(i) = queue[1].text /\ queue[1].id = i
        BY <3>1, LastWriteIsEventual DEF LastWrite, Pending
    <3>3. points'[i] = queue[1].text
        BY <1>3, <3>2 DEF TypeOK
    <3>. QED
        BY <2>2, <3>2, <3>3 DEF Eventual
  <2>3. CASE Pending(i)' # {}
    <3>1. PICK k \in Pending(i)' : LastWrite(i, k)'
        BY <1>10, <2>3
    <3>2. LastWrite(i, k + 1) /\ queue'[k] = queue[k + 1]
        BY <1>5, <1>7, <3>1
    <3>. QED
        BY <3>1, <3>2, LastWriteIsEventual, LastWriteIsEventualNext
  <2>. QED
      BY <2>1, <2>2, <2>3
<1>12. \A i : Pending(i) = {} => Pending(i)' = {}
    BY <1>4
<1>. QED
    BY <1>2, <1>3, <1>4, <1>5, <1>7, <1>9, <1>10, <1>11, <1>12

(* An upsert is one more write, of a chunk of its process.                 *)
LEMMA SendingWrites ==
    ASSUME TypeOK, TypeOK', WritesEnd, NEW r \in Replica,
           next[r] <= Len(Docs(r)), queue' = Append(queue, Sent(r)), UNCHANGED points
    PROVE  \E s \in Upserted :
              /\ s.by = r /\ s.id = Current(r).id /\ s.text = Current(r).text
              /\ \A i : i # s.id =>
                    /\ Pending(i)' = Pending(i) /\ Eventual(i)' = Eventual(i)
                    /\ \A k \in Pending(i) : queue'[k] = queue[k]
              /\ \A k \in Pending(s.id)' :
                    queue'[k] = s \/ (k \in Pending(s.id) /\ queue'[k] = queue[k])
              /\ \E k \in Pending(s.id)' : LastWrite(s.id, k)'
              /\ \A k : LastWrite(s.id, k)' => queue'[k] = s
              /\ Eventual(s.id)' = s.text
<1>1. PICK s : s = Sent(r)
    OBVIOUS
<1>2. s \in Upserted /\ s.by = r /\ s.id = Current(r).id /\ s.text = Current(r).text
    BY <1>1, SentTyped
<1>3. queue' = Append(queue, s)
    BY <1>1
<1>4. /\ \A i : i # s.id =>
            /\ Pending(i)' = Pending(i) /\ Eventual(i)' = Eventual(i)
            /\ \A k \in Pending(i) : queue'[k] = queue[k]
      /\ \A k \in Pending(s.id)' :
            queue'[k] = s \/ (k \in Pending(s.id) /\ queue'[k] = queue[k])
      /\ \E k \in Pending(s.id)' : LastWrite(s.id, k)'
      /\ \A k : LastWrite(s.id, k)' => queue'[k] = s
      /\ Eventual(s.id)' = s.text
    BY <1>2, <1>3, SentWrites
<1>. QED
    BY <1>2, <1>4

LEMMA WritesEndKept ==
    ASSUME TypeOK, TypeOK', WritesEnd, Steps
    PROVE  WritesEnd'
<1>1. CASE Apply
    BY <1>1, AppliedWrites DEF WritesEnd
<1>2. ASSUME NEW r \in Replica, Sends(r) \/ Upsert(r) PROVE WritesEnd'
  <2>1. PICK s \in Upserted :
          /\ \A i : i # s.id => Pending(i)' = Pending(i)
          /\ \E k \in Pending(s.id)' : LastWrite(s.id, k)'
      BY <1>2, SendingWrites DEF Sends, Upsert
  <2>2. ASSUME NEW i \in Id, i # s.id, Pending(i)' # {}
        PROVE  \E k \in Pending(i)' : LastWrite(i, k)'
      BY <2>1, <2>2 DEF WritesEnd, LastWrite
  <2>. QED
      BY <2>1, <2>2 DEF WritesEnd
<1>3. CASE Quiet
    BY <1>3, QuietWrites DEF WritesEnd
<1>. QED
    BY <1>1, <1>2, <1>3 DEF Steps, Quiet, Hashes, Skip, Indexed, store, vars

-----------------------------------------------------------------------------
(* Who answers for the last write.                                         *)

LEMMA AnswersKept ==
    ASSUME NEW q, NEW i, Kept(q), Eventual(i)' = Eventual(i), Answers(q, i)
    PROVE  Answers(q, i)'
BY DEF Kept, Answers, Settled, Passed, Single, Reading

(* The loop passes one chunk.                                              *)
LEMMA PassesOne ==
    ASSUME TypeOK, NEW r \in Replica, Skip(r) \/ Upsert(r)
    PROVE  /\ at[r] = "index" /\ at'[r] = "index" /\ Docs(r)' = Docs(r)
           /\ known'[r] = known[r]
           /\ next[r] \in DOMAIN Docs(r) /\ next[r] <= Len(Docs(r))
           /\ \A i, k : Passed(r, k, i)' <=>
                           Passed(r, k, i) \/ (k = next[r] /\ i = Current(r).id)
           /\ \A i : ~Passed(r, next[r], i)
<1>1. at[r] = "index" /\ next[r] <= Len(Docs(r)) /\ UNCHANGED <<image, at, known>>
      /\ next' = [next EXCEPT ![r] = @ + 1]
    BY DEF Skip, Upsert
<1>2. Docs(r)' = Docs(r)
    BY <1>1 DEF Docs
<1>3. DOMAIN Docs(r) \subseteq Nat /\ next[r] \in Nat /\ next[r] \in DOMAIN Docs(r)
    BY <1>1, Documents
<1>4. next'[r] = next[r] + 1
    BY <1>1 DEF TypeOK
<1>5. \A i, k : Passed(r, k, i)' <=>
                   Passed(r, k, i) \/ (k = next[r] /\ i = Current(r).id)
    BY <1>2, <1>3, <1>4 DEF Passed, Current
<1>. QED
    BY <1>1, <1>2, <1>3, <1>5 DEF Passed

(* What it decides about its own documents agrees with the last write: a   *)
(* skipped chunk was found, and nothing was stored for its id by this      *)
(* start.                                                                  *)
LEMMA SkipAnswers ==
    ASSUME TypeOK, NEW r \in Replica, NEW i, Skip(r), Answers(r, i), Eventual(i)' = Eventual(i)
    PROVE  Answers(r, i)'
<1>1. Settled(r, i)
    BY PassesOne DEF Answers, Reading
<1>2. ASSUME NEW k, Passed(r, k, i)', Single(Docs(r), k)
      PROVE  Docs(r)[k].text = Eventual(i)
  <2>1. CASE Passed(r, k, i)
      BY <1>1, <1>2, <2>1 DEF Settled
  <2>2. CASE k = next[r] /\ i = Current(r).id
    <3>1. known[r][i] = Docs(r)[k].text
        BY <2>2 DEF Skip, Unchanged, Current
    <3>2. ~ \E l : Passed(r, l, i)
        BY <1>2, <2>2, PassesOne DEF Passed, Single, Current
    <3>. QED
        BY <1>1, <3>1, <3>2 DEF Settled
  <2>. QED
      BY <1>2, <2>1, <2>2, PassesOne
<1>3. known'[r][i] = Eventual(i) \/ \E k : Passed(r, k, i)'
    BY <1>1, PassesOne DEF Settled
<1>4. Docs(r)' = Docs(r)
    BY PassesOne
<1>. QED
    BY <1>2, <1>3, <1>4 DEF Answers, Settled, Single

LEMMA UpsertAnswers ==
    ASSUME TypeOK, NEW r \in Replica, NEW i, Upsert(r),
           \/ i # Current(r).id /\ Answers(r, i) /\ Eventual(i)' = Eventual(i)
           \/ i = Current(r).id /\ Eventual(i)' = Current(r).text
    PROVE  Answers(r, i)'
<1>1. Docs(r)' = Docs(r)
    BY PassesOne
<1>2. CASE i # Current(r).id
  <2>1. Settled(r, i)
      BY <1>2, PassesOne DEF Answers, Reading
  <2>2. \A k : Passed(r, k, i)' <=> Passed(r, k, i)
      BY <1>2, PassesOne
  <2>. QED
      BY <1>1, <1>2, <2>1, <2>2, PassesOne DEF Answers, Settled, Single
<1>3. CASE i = Current(r).id
  <2>1. ASSUME NEW k, Passed(r, k, i)', Single(Docs(r), k)
        PROVE  Docs(r)[k].text = Eventual(i)'
    <3>1. k = next[r]
        BY <1>3, <2>1, PassesOne DEF Single, Passed, Current
    <3>. QED
        BY <1>3, <3>1 DEF Current
  <2>2. PICK n : n = next[r]
      OBVIOUS
  <2>3. Passed(r, n, i)'
      BY <1>3, <2>2, PassesOne
  <2>. QED
      BY <1>1, <2>1, <2>3 DEF Answers, Settled, Single
<1>. QED
    BY <1>2, <1>3

(* A process outside the loop answers for everything; one that has just    *)
(* read the hashes, for what is applied.                                   *)
LEMMA StartAnswers ==
    ASSUME TypeOK, NEW r \in Replica, Moves(r) \/ Ended(r)
    PROVE  \A i : Answers(r, i)'
BY EndedAtStart DEF Moves, Enter, Starting, TypeOK, Answers, Reading

LEMMA HashesAnswer ==
    ASSUME TypeOK, Stages, NEW r \in Replica, NEW i, Hashes(r), Pending(i) = {}
    PROVE  Answers(r, i)'
<1>1. at[r] = "hashes" /\ known' = [known EXCEPT ![r] = points] /\ UNCHANGED next /\ Quiet
    BY DEF Hashes, Quiet, store
<1>2. next'[r] = 1 /\ known'[r][i] = points[i]
    BY <1>1 DEF Stages, Reading, TypeOK
<1>3. Eventual(i)' = points[i]
    BY <1>1, NothingPending, QuietWrites
<1>4. \A k : ~Passed(r, k, i)'
  <2>1. ASSUME NEW k, Passed(r, k, i)' PROVE FALSE
    <3>1. k \in DOMAIN Docs(r) /\ k < 1
        BY <1>2, <2>1 DEF Passed, Hashes, Docs
    <3>. QED
        BY <3>1, Documents
  <2>. QED
      BY <2>1
<1>. QED
    BY <1>2, <1>3, <1>4 DEF Answers, Settled

LEMMA AnsweredKept ==
    ASSUME TypeOK, TypeOK', Stages, WritesEnd, Answered, Steps
    PROVE  Answered'
<1>. SUFFICES ASSUME ~late', NEW i \in Id
     PROVE  /\ Pending(i)' = {} => \E r \in Replica : Answers(r, i)'
            /\ \A k \in Pending(i)' : LastWrite(i, k)' => Answers(queue[k].by, i)'
    BY DEF Answered
<1>1. ~late
    BY DEF Steps, Apply, Hashes, Skip, Upsert, Indexed, vars
<1>2. /\ Pending(i) = {} => \E r \in Replica : Answers(r, i)
      /\ \A k \in Pending(i) : LastWrite(i, k) => Answers(queue[k].by, i)
    BY <1>1 DEF Answered
<1>3. \A k \in Pending(i) : queue[k].by \in Replica
  <2>. TAKE k \in Pending(i)
  <2>1. k \in DOMAIN queue /\ queue \in Seq(Upserted)
      BY DEF Pending, TypeOK, Upserted
  <2>2. queue[k] \in Upserted
      BY <2>1
  <2>. QED
      BY <2>2 DEF Upserted
<1>4. ASSUME Pending(i)' = Pending(i), \A k \in Pending(i) : queue'[k] = queue[k],
             \A q \in Replica : Answers(q, i) => Answers(q, i)'
      PROVE  /\ Pending(i)' = {} => \E r \in Replica : Answers(r, i)'
             /\ \A k \in Pending(i)' : LastWrite(i, k)' => Answers(queue[k].by, i)'
  <2>1. ASSUME NEW k \in Pending(i)', LastWrite(i, k)' PROVE Answers(queue[k].by, i)'
    <3>1. LastWrite(i, k) /\ queue'[k] = queue[k] /\ k \in Pending(i)
        BY <1>4, <2>1 DEF LastWrite
    <3>2. PICK q \in Replica : q = queue[k].by
        BY <1>3, <3>1
    <3>3. Answers(q, i)
        BY <1>2, <3>1, <3>2
    <3>4. Answers(q, i)'
        BY <1>4, <3>3
    <3>. QED
        BY <3>1, <3>2, <3>4
  <2>. QED
      BY <1>2, <1>4, <2>1
<1>5. CASE Apply
  <2>1. \A q : Kept(q)
      BY <1>5 DEF Apply, process, Kept, Docs
  <2>2. Eventual(i)' = Eventual(i)
      BY <1>5, AppliedWrites
  <2>3. CASE Pending(i)' = {}
    <3>1. CASE Pending(i) = {}
        BY <1>2, <2>1, <2>2, <2>3, <3>1, AnswersKept
    <3>2. CASE Pending(i) # {}
      <4>1. LastWrite(i, 1) /\ 1 \in Pending(i)
          BY <1>5, <2>3, <3>2, AppliedWrites DEF LastWrite
      <4>2. PICK q \in Replica : q = queue[1].by
          BY <1>3, <4>1
      <4>3. Answers(q, i)
          BY <1>2, <4>1, <4>2
      <4>4. Answers(q, i)'
          BY <2>1, <2>2, <4>3, AnswersKept
      <4>. QED
          BY <2>3, <4>4
    <3>. QED
        BY <3>1, <3>2
  <2>4. ASSUME NEW k \in Pending(i)', LastWrite(i, k)' PROVE Answers(queue[k].by, i)'
    <3>1. LastWrite(i, k + 1) /\ k + 1 \in Pending(i) /\ queue'[k] = queue[k + 1]
        BY <1>5, <2>4, AppliedWrites
    <3>2. PICK q : q = queue[k + 1].by
        OBVIOUS
    <3>3. Answers(q, i)
        BY <1>2, <3>1, <3>2
    <3>4. Answers(q, i)'
        BY <2>1, <2>2, <3>3, AnswersKept
    <3>. QED
        BY <3>1, <3>2, <3>4
  <2>. QED
      BY <2>3, <2>4
<1>6. CASE UNCHANGED vars
  <2>1. Quiet /\ \A q : Kept(q)
      BY <1>6 DEF vars, process, store, Quiet, Kept, Docs
  <2>2. Eventual(i)' = Eventual(i) /\ Pending(i)' = Pending(i) /\ queue' = queue
      BY <2>1, QuietWrites DEF Quiet
  <2>3. \A q \in Replica : Answers(q, i) => Answers(q, i)'
      BY <2>1, <2>2, AnswersKept
  <2>. QED
      BY <1>4, <2>2, <2>3
<1>7. ASSUME NEW r \in Replica, Quiet, (Moves(r) \/ Ended(r)) \/ Skip(r) \/ Indexed(r)
      PROVE  /\ Pending(i)' = {} => \E q \in Replica : Answers(q, i)'
             /\ \A k \in Pending(i)' : LastWrite(i, k)' => Answers(queue[k].by, i)'
  <2>1. Eventual(i)' = Eventual(i) /\ Pending(i)' = Pending(i) /\ queue' = queue
      BY <1>7, QuietWrites DEF Quiet
  <2>2. Answers(r, i) => Answers(r, i)'
    <3>1. CASE Moves(r) \/ Ended(r)
        BY <3>1, StartAnswers
    <3>2. CASE Skip(r)
        BY <2>1, <3>2, SkipAnswers
    <3>3. CASE Indexed(r)
        BY <2>1, <3>3 DEF Indexed, Enter, TypeOK, Answers, Settled, Passed, Single, Docs, Reading
    <3>. QED
        BY <1>7, <3>1, <3>2, <3>3
  <2>3. \A q \in Replica : Answers(q, i) => Answers(q, i)'
      BY <1>7, <2>1, <2>2, OthersKept, AnswersKept
  <2>. QED
      BY <1>4, <2>1, <2>3
<1>8. ASSUME NEW r \in Replica, Hashes(r)
      PROVE  /\ Pending(i)' = {} => \E q \in Replica : Answers(q, i)'
             /\ \A k \in Pending(i)' : LastWrite(i, k)' => Answers(queue[k].by, i)'
  <2>1. Eventual(i)' = Eventual(i) /\ Pending(i)' = Pending(i) /\ UNCHANGED queue
        /\ \A k : LastWrite(i, k)' = LastWrite(i, k)
      BY <1>8, QuietWrites DEF Hashes, Quiet, store
  <2>2. \A q \in Replica \ {r} : Answers(q, i) => Answers(q, i)'
      BY <1>8, <2>1, OthersKept, AnswersKept
  <2>3. \A k \in Pending(i) : queue[k].by # r
      BY <1>8 DEF Hashes, Pending
  <2>4. ASSUME NEW k \in Pending(i)', LastWrite(i, k)' PROVE Answers(queue[k].by, i)'
    <3>1. PICK q \in Replica \ {r} : q = queue[k].by
        BY <1>3, <2>1, <2>3, <2>4
    <3>2. Answers(q, i)
        BY <1>2, <2>1, <2>4, <3>1
    <3>3. Answers(q, i)'
        BY <2>2, <3>2
    <3>. QED
        BY <2>1, <3>1, <3>3
  <2>. QED
      BY <1>8, <2>1, <2>4, HashesAnswer
<1>9. ASSUME NEW r \in Replica, Upsert(r) \/ (Ended(r) /\ Sends(r))
      PROVE  /\ Pending(i)' = {} => \E q \in Replica : Answers(q, i)'
             /\ \A k \in Pending(i)' : LastWrite(i, k)' => Answers(queue[k].by, i)'
  <2>1. PICK s \in Upserted :
          /\ s.by = r /\ s.id = Current(r).id /\ s.text = Current(r).text
          /\ \A j : j # s.id =>
                /\ Pending(j)' = Pending(j) /\ Eventual(j)' = Eventual(j)
                /\ \A k \in Pending(j) : queue'[k] = queue[k]
          /\ \E k \in Pending(s.id)' : LastWrite(s.id, k)'
          /\ \A k : LastWrite(s.id, k)' => queue'[k] = s
          /\ Eventual(s.id)' = s.text
      BY <1>9, SendingWrites DEF Sends, Upsert
  <2>2. CASE i # s.id
    <3>1. Answers(r, i) => Answers(r, i)'
        BY <1>9, <2>1, <2>2, StartAnswers, UpsertAnswers
    <3>2. \A q \in Replica : Answers(q, i) => Answers(q, i)'
        BY <1>9, <2>1, <2>2, <3>1, OthersKept, AnswersKept
    <3>. QED
        BY <1>4, <2>1, <2>2, <3>2
  <2>3. CASE i = s.id
    <3>1. Answers(r, i)'
        BY <1>9, <2>1, <2>3, StartAnswers, UpsertAnswers
    <3>. QED
        BY <2>1, <2>3, <3>1
  <2>. QED
      BY <2>2, <2>3
<1>. QED
    BY <1>5, <1>6, <1>7, <1>8, <1>9 DEF Steps, Skip, Indexed, Quiet, store

-----------------------------------------------------------------------------
(* Before a rollout.                                                       *)

LEMMA FirstVersion ==
    ASSUME TypeOK, AllFirst
    PROVE  /\ First \in Seq(Chunk) /\ DOMAIN First \subseteq Nat \ {0}
           /\ \A r \in Replica : Docs(r) = First
           /\ \A k \in DOMAIN First : First[k].id \in Id /\ First[k].text # None
<1>1. First \in Seq(Chunk)
    BY KnowledgeAssumption DEF First
<1>2. \A k \in DOMAIN First : First[k] \in Chunk
    BY <1>1
<1>3. DOMAIN First = 1 .. Len(First)
    BY <1>1
<1>. QED
    BY <1>1, <1>2, <1>3, ChunkParts DEF AllFirst, Docs, First

(* A rollout is not undone.                                                *)
LEMMA StillFirst ==
    ASSUME TypeOK, Steps, AllFirst'
    PROVE  AllFirst /\ UNCHANGED image
<1>1. ASSUME NEW r \in Replica, image' = [image EXCEPT ![r] = @ + 1] PROVE FALSE
  <2>1. image'[r] = image[r] + 1 /\ image[r] \in Nat \ {0}
      BY <1>1, Documents DEF TypeOK
  <2>. QED
      BY <2>1 DEF AllFirst
<1>. QED
    BY <1>1 DEF Steps, AllFirst, Apply, Moves, Hashes, Skip, Upsert, Indexed, Ended, vars, process

LEMMA FirstOnlyKept ==
    ASSUME TypeOK, TypeOK', Stages, WritesEnd, FirstOnly, Steps
    PROVE  FirstOnly'
<1>. SUFFICES ASSUME AllFirst', NEW k \in DOMAIN First, Single(First, k) PROVE OnlyOf(k)'
    BY DEF FirstOnly, First, Single
<1>1. AllFirst /\ UNCHANGED image
    BY StillFirst
<1>2. PICK i, t : i = First[k].id /\ t = First[k].text
    OBVIOUS
<1>3. i \in Id /\ t # None /\ k \in Nat \ {0} /\ \A r \in Replica : Docs(r) = First
    BY <1>1, <1>2, FirstVersion
<1>4. \A j \in DOMAIN First : First[j].id = i => j = k
    BY <1>2 DEF Single
<1>5. /\ points[i] \in {None, t} /\ \A j \in Pending(i) : queue[j].text = t
      /\ \A r \in Replica : known[r][i] \in {None, points[i]}
      /\ \A r \in Replica : at[r] \in Reading /\ k < next[r] => points[i] = t \/ Pending(i) # {}
    BY <1>1, <1>2 DEF FirstOnly, OnlyOf
<1>6. SUFFICES
         /\ points'[i] \in {None, t} /\ \A j \in Pending(i)' : queue'[j].text = t
         /\ \A r \in Replica : known'[r][i] \in {None, points'[i]}
         /\ \A r \in Replica : at'[r] \in Reading /\ k < next'[r] =>
               points'[i] = t \/ Pending(i)' # {}
    BY <1>2 DEF OnlyOf, First
<1>7. CASE Apply
  <2>1. points'[i] = IF queue[1].id = i THEN queue[1].text ELSE points[i]
      BY <1>3, <1>7, AppliedWrites DEF TypeOK
  <2>2. queue # << >> => (1 \in Pending(i) <=> queue[1].id = i)
      BY DEF Pending, TypeOK
  <2>3. points'[i] = IF queue[1].id = i THEN t ELSE points[i]
      BY <1>5, <1>7, <2>1, <2>2 DEF Apply
  <2>4. \A j \in Pending(i)' : queue'[j].text = t
      BY <1>5, <1>7, AppliedWrites
  <2>5. Pending(i) # {} => Pending(i)' # {} \/ points'[i] = t
      BY <1>3, <1>7, <2>2, <2>3, AppliedWrites DEF LastWrite, Apply
  <2>6. UNCHANGED <<at, next, known>>
      BY <1>7 DEF Apply, process
  <2>. QED
      BY <1>5, <2>3, <2>4, <2>5, <2>6
<1>8. ASSUME NEW r \in Replica, Upsert(r) \/ (Ended(r) /\ Sends(r))
      PROVE  /\ points'[i] = points[i] /\ \A j \in Pending(i)' : queue'[j].text = t
             /\ Pending(i) # {} => Pending(i)' # {}
             /\ Upsert(r) /\ k = next[r] => Pending(i)' # {}
  <2>1. next[r] <= Len(Docs(r)) /\ queue' = Append(queue, Sent(r)) /\ UNCHANGED points
      BY <1>8 DEF Sends, Upsert
  <2>2. PICK s \in Upserted :
          /\ s.by = r /\ s.id = Current(r).id /\ s.text = Current(r).text
          /\ \A j : j # s.id =>
                /\ Pending(j)' = Pending(j) /\ Eventual(j)' = Eventual(j)
                /\ \A l \in Pending(j) : queue'[l] = queue[l]
          /\ \A l \in Pending(s.id)' :
                queue'[l] = s \/ (l \in Pending(s.id) /\ queue'[l] = queue[l])
          /\ \E l \in Pending(s.id)' : LastWrite(s.id, l)'
          /\ \A l : LastWrite(s.id, l)' => queue'[l] = s
          /\ Eventual(s.id)' = s.text
      BY <2>1, SendingWrites
  <2>3. next[r] \in DOMAIN First /\ Current(r) = First[next[r]]
      BY <1>3, <2>1, Documents DEF Current
  <2>4. i = s.id => next[r] = k /\ s.text = t
      BY <1>2, <1>4, <2>2, <2>3
  <2>5. k = next[r] => i = s.id
      BY <1>2, <2>2, <2>3
  <2>6. CASE i = s.id
    <3>1. \A j \in Pending(i)' : queue'[j].text = t
        BY <1>5, <2>2, <2>4, <2>6
    <3>. QED
        BY <2>1, <2>2, <2>6, <3>1
  <2>7. CASE i # s.id
    <3>1. Pending(i)' = Pending(i) /\ \A j \in Pending(i) : queue'[j] = queue[j]
        BY <2>2, <2>7
    <3>. QED
        BY <1>5, <2>1, <2>5, <2>7, <3>1
  <2>. QED
      BY <2>6, <2>7
<1>9. ASSUME Quiet
      PROVE  /\ points'[i] = points[i] /\ \A j \in Pending(i)' : queue'[j].text = t
             /\ Pending(i)' = Pending(i)
    BY <1>5, <1>9, QuietWrites DEF Quiet
<1>10. ASSUME NEW r \in Replica,
              Moves(r) \/ Hashes(r) \/ Skip(r) \/ Upsert(r) \/ Indexed(r) \/ Ended(r),
              points'[i] = points[i], Pending(i) # {} => Pending(i)' # {},
              Upsert(r) /\ k = next[r] => Pending(i)' # {}
       PROVE  \A q \in Replica :
                 /\ known'[q][i] \in {None, points'[i]}
                 /\ at'[q] \in Reading /\ k < next'[q] => points'[i] = t \/ Pending(i)' # {}
  <2>1. ASSUME NEW q \in Replica \ {r}
        PROVE  /\ known'[q][i] \in {None, points'[i]}
               /\ at'[q] \in Reading /\ k < next'[q] => points'[i] = t \/ Pending(i)' # {}
      BY <1>5, <1>10, OthersKept DEF Kept
  <2>. SUFFICES /\ known'[r][i] \in {None, points'[i]}
                /\ at'[r] \in Reading /\ k < next'[r] => points'[i] = t \/ Pending(i)' # {}
      BY <2>1
  <2>2. CASE Moves(r)
    <3>1. known'[r] = known[r] /\ at'[r] \notin Reading
        BY <2>2 DEF Moves, Enter, Starting, Reading, TypeOK
    <3>. QED
        BY <1>5, <1>10, <3>1
  <2>3. CASE Ended(r)
      BY <1>3, <1>5, <1>10, <2>3, EndedAtStart DEF NoPoints, Reading
  <2>4. CASE Hashes(r)
    <3>1. known'[r] = points /\ next'[r] = 1
        BY <2>4 DEF Hashes, TypeOK, Stages, Reading
    <3>. QED
        BY <1>3, <1>10, <3>1
  <2>5. CASE Indexed(r)
      BY <1>5, <1>10, <2>5 DEF Indexed, Enter, Reading, TypeOK
  <2>6. CASE Skip(r) \/ Upsert(r)
    <3>1. known'[r] = known[r] /\ at[r] = "index"
        BY <2>6, PassesOne
    <3>2. next'[r] = next[r] + 1 /\ next[r] \in Nat
        BY <2>6, Documents DEF Skip, Upsert, TypeOK
    <3>3. k < next'[r] => k < next[r] \/ k = next[r]
        BY <1>3, <3>2
    <3>4. Skip(r) /\ k = next[r] => points[i] = t
        BY <1>2, <1>3, <1>5 DEF Skip, Unchanged, Current
    <3>5. at[r] \in Reading
        BY <3>1 DEF Reading
    <3>6. k < next'[r] => points[i] = t \/ Pending(i) # {} \/ (Upsert(r) /\ k = next[r])
        BY <1>5, <2>6, <3>3, <3>4, <3>5
    <3>. QED
        BY <1>5, <1>10, <3>1, <3>6
  <2>. QED
      BY <1>10, <2>2, <2>3, <2>4, <2>5, <2>6
<1>11. CASE \E r \in Replica : Upsert(r) \/ (Ended(r) /\ Sends(r))
  <2>1. PICK r \in Replica : Upsert(r) \/ (Ended(r) /\ Sends(r))
      BY <1>11
  <2>2. /\ points'[i] = points[i] /\ \A j \in Pending(i)' : queue'[j].text = t
        /\ Pending(i) # {} => Pending(i)' # {}
        /\ Upsert(r) /\ k = next[r] => Pending(i)' # {}
      BY <1>8, <2>1
  <2>. QED
      BY <1>5, <1>10, <2>1, <2>2
<1>12. ASSUME NEW r \in Replica, Quiet, ~Upsert(r),
              Moves(r) \/ Hashes(r) \/ Skip(r) \/ Indexed(r) \/ Ended(r)
       PROVE  /\ points'[i] \in {None, t} /\ \A j \in Pending(i)' : queue'[j].text = t
              /\ \A q \in Replica :
                    /\ known'[q][i] \in {None, points'[i]}
                    /\ at'[q] \in Reading /\ k < next'[q] => points'[i] = t \/ Pending(i)' # {}
    BY <1>5, <1>9, <1>10, <1>12
<1>13. CASE UNCHANGED vars
    BY <1>5, <1>9, <1>13 DEF vars, process, store, Quiet
<1>. QED
    BY <1>7, <1>11, <1>12, <1>13 DEF Steps, Hashes, Skip, Indexed, Quiet, store

-----------------------------------------------------------------------------
LEMMA InitIndexed == Init => IInv
<1>. SUFFICES ASSUME Init PROVE IInv
    OBVIOUS
<1>1. TypeOK
    BY TypeInit
<1>2. \A r \in Replica : at[r] = "down" /\ next[r] = 1 /\ known[r] = NoPoints
    BY DEF Init
<1>3. \A i : Pending(i) = {}
    BY DEF Init, Pending
<1>4. Stages /\ WritesEnd
    BY <1>2, <1>3 DEF Stages, WritesEnd
<1>5. Answered
    BY <1>2, <1>3, KnowledgeAssumption DEF Answered, Answers, Reading
<1>6. FirstOnly
  <2>. SUFFICES ASSUME AllFirst, NEW k \in DOMAIN First PROVE OnlyOf(k)
      BY DEF FirstOnly
  <2>1. First[k].id \in Id
      BY <1>1, FirstVersion
  <2>. QED
      BY <1>2, <1>3, <2>1 DEF OnlyOf, Init, NoPoints, Reading
<1>. QED
    BY <1>1, <1>4, <1>5, <1>6 DEF IInv

LEMMA NextIndexed == IInv /\ [Next]_vars => IInv'
<1>. SUFFICES ASSUME IInv, [Next]_vars PROVE IInv'
    OBVIOUS
<1>1. TypeOK' /\ Steps
    BY TypeNext, NextIsSteps DEF IInv
<1>. QED
    BY <1>1, StagesKept, WritesEndKept, AnsweredKept, FirstOnlyKept DEF IInv

THEOREM Invariance == Spec => []IInv
BY InitIndexed, NextIndexed, PTL DEF Spec

(* As long as no rollout has begun, a process that serves finds all of its *)
(* documents in the collection, whoever crashed, lost a race or timed out  *)
(* while indexing them: what a start skips it has found, and nothing else  *)
(* is written to those points (Index).                                     *)
THEOREM ServingIsIndexed == Spec => []UpIsIndexed
<1>1. IInv => UpIsIndexed
  <2>. SUFFICES ASSUME IInv, AllFirst, NEW r \in Replica, at[r] = "up",
                       NEW c \in Unique(Docs(r))
                PROVE  Eventual(c.id) = c.text
      BY DEF UpIsIndexed, AllFirst, Covers
  <2>1. Docs(r) = First
      BY FirstVersion DEF IInv
  <2>2. PICK k \in DOMAIN First : c = First[k] /\ Single(First, k)
      BY <2>1 DEF Unique, Single
  <2>3. k < next[r]
    <3>1. next[r] > Len(First) /\ next[r] \in Nat /\ Len(First) \in Nat
          /\ DOMAIN First = 1 .. Len(First)
        BY <2>1, Documents DEF IInv, Stages
    <3>. QED
        BY <3>1
  <2>4. OnlyOf(k)
      BY <2>2 DEF IInv, FirstOnly
  <2>5. CASE Pending(c.id) = {}
      BY <2>2, <2>3, <2>4, <2>5, NothingPending DEF OnlyOf, Reading
  <2>6. CASE Pending(c.id) # {}
    <3>1. c.id \in Id
        BY <2>2, FirstVersion DEF IInv
    <3>2. PICK j \in Pending(c.id) : LastWrite(c.id, j)
        BY <2>6, <3>1 DEF IInv, WritesEnd
    <3>3. Eventual(c.id) = queue[j].text
        BY <3>2, LastWriteIsEventual DEF IInv
    <3>. QED
        BY <2>2, <2>4, <3>2, <3>3 DEF OnlyOf
  <2>. QED
      BY <2>5, <2>6
<1>. QED
    BY <1>1, Invariance, PTL

(* However the starts of old and new processes interleaved during a        *)
(* rollout, once all of them serve one version the collection holds it:    *)
(* whoever made the last write to a point has written its text or found    *)
(* it, unless it read the hashes from under its predecessor's upserts.     *)
THEOREM RolloutsConverge == Spec => []RolloutConverges
<1>1. IInv => RolloutConverges
  <2>. SUFFICES ASSUME IInv, NEW v \in DOMAIN Versions, ~late,
                       \A r \in Replica : image[r] = v /\ at[r] = "up",
                       NEW c \in Unique(Versions[v])
                PROVE  Eventual(c.id) = c.text
      BY DEF RolloutConverges, Covers
  <2>1. \A r \in Replica : Docs(r) = Versions[v]
      BY DEF Docs
  <2>2. PICK k \in DOMAIN Versions[v] : c = Versions[v][k] /\ Single(Versions[v], k)
      BY DEF Unique, Single
  <2>3. ASSUME NEW r \in Replica PROVE Passed(r, k, c.id)
    <3>1. next[r] > Len(Docs(r)) /\ next[r] \in Nat /\ Len(Docs(r)) \in Nat
          /\ DOMAIN Docs(r) = 1 .. Len(Docs(r))
        BY Documents DEF IInv, Stages
    <3>2. k < next[r]
        BY <2>1, <3>1
    <3>. QED
        BY <2>1, <2>2, <3>2 DEF Passed
  <2>4. c.id \in Id
    <3>1. Versions[v] \in Seq(Chunk)
        BY KnowledgeAssumption
    <3>2. c \in Chunk
        BY <2>2, <3>1
    <3>. QED
        BY <3>2, ChunkParts
  <2>5. \E r \in Replica : Answers(r, c.id)
    <3>1. CASE Pending(c.id) = {}
        BY <2>4, <3>1 DEF IInv, Answered
    <3>2. CASE Pending(c.id) # {}
      <4>1. PICK j \in Pending(c.id) : LastWrite(c.id, j)
          BY <2>4, <3>2 DEF IInv, WritesEnd
      <4>2. Answers(queue[j].by, c.id)
          BY <2>4, <4>1 DEF IInv, Answered
      <4>3. j \in DOMAIN queue /\ queue \in Seq(Upserted)
          BY <4>1 DEF Pending, IInv, TypeOK, Upserted
      <4>4. queue[j] \in Upserted
          BY <4>3
      <4>. QED
          BY <4>2, <4>4 DEF Upserted
    <3>. QED
        BY <3>1, <3>2
  <2>6. PICK r \in Replica : Answers(r, c.id)
      BY <2>5
  <2>. QED
      BY <2>1, <2>2, <2>3, <2>6 DEF Answers, Settled, Reading
<1>. QED
    BY <1>1, Invariance, PTL
=============================================================================
