------------------------- MODULE StreamBrokerProofs -------------------------
(***************************************************************************)
(* Proofs, for any number of runs, clients and events and any capacity, of *)
(* what StreamBroker promises a subscriber.  IInv is the inductive         *)
(* invariant: what each stream holds at each stage of its life.            *)
(***************************************************************************)
EXTENDS StreamBroker, TLAPS

Event == 1 .. MaxEvents

(* The first n events of a run, in order.                                  *)
History(n) == [k \in 1 .. n |-> k]

(* Such a sequence of numbers from 1 on is no longer than its last one:    *)
(* the k-th is at least k.                                                 *)
Increasing(s) ==
    /\ \A j, k \in 1 .. Len(s) : j < k => s[j] < s[k]
    /\ \A k \in 1 .. Len(s) : s[k] >= k

Elements(s) == {s[k] : k \in 1 .. Len(s)}

(* One client replays at a time, the one with the mutex.                   *)
MutexOK == \A c \in Client : state[c] = "replaying" <=> mutex = c

(* What a stream holds before, during and after the replay; then it has    *)
(* everything published but what it missed, which began with a full        *)
(* channel.                                                                *)
StreamOK(c) ==
    /\ state[c] = "new" => received[c] = << >> /\ channel[c] = << >>
    /\ state[c] = "replaying" =>
          /\ received[c] = << >> /\ Len(channel[c]) <= published[run[c]]
          /\ channel[c] = History(Len(channel[c]))
    /\ state[c] \in {"new", "replaying"} => missed[c] = {}
    /\ Sent(c) \in Seq(1 .. published[run[c]]) /\ Increasing(Sent(c))
    /\ missed[c] \subseteq 1 .. published[run[c]]
    /\ \A k \in missed[c] : k > Buffer
    /\ state[c] = "subscribed" => Elements(Sent(c)) = (1 .. published[run[c]]) \ missed[c]

Streams == channel \in [Client -> Seq(Event)] /\ received \in [Client -> Seq(Event)]

IInv == TypeOK /\ Streams /\ MutexOK /\ \A c \in Client : StreamOK(c)

-----------------------------------------------------------------------------
(* Sequences.                                                              *)

LEMMA PassOn ==
    ASSUME NEW S, NEW s \in Seq(S), NEW t \in Seq(S), t # << >>
    PROVE  Append(s, Head(t)) \o Tail(t) = s \o t
OBVIOUS

LEMMA SendOn ==
    \A s, t \in Seq(Event) : \A e \in Event : s \o Append(t, e) = Append(s \o t, e)
OBVIOUS

LEMMA IncreasingBound ==
    ASSUME NEW n \in Nat, NEW s \in Seq(1 .. n), Increasing(s)
    PROVE  Len(s) <= n
<1>1. CASE Len(s) = 0
    BY <1>1
<1>2. CASE Len(s) # 0
  <2>1. Len(s) \in 1 .. Len(s) /\ s[Len(s)] \in 1 .. n
      BY <1>2
  <2>2. s[Len(s)] >= Len(s)
      BY <2>1 DEF Increasing
  <2>. QED
      BY <2>1, <2>2
<1>. QED
    BY <1>1, <1>2

LEMMA IncreasingAppend ==
    ASSUME NEW n \in Nat, NEW s \in Seq(1 .. n), Increasing(s)
    PROVE  Append(s, n + 1) \in Seq(1 .. n + 1) /\ Increasing(Append(s, n + 1))
BY IncreasingBound DEF Increasing

LEMMA ElementsAppend ==
    ASSUME NEW S, NEW s \in Seq(S), NEW e
    PROVE  Elements(Append(s, e)) = Elements(s) \cup {e}
<1>1. ASSUME NEW x \in Elements(Append(s, e)) PROVE x \in Elements(s) \cup {e}
    BY DEF Elements
<1>2. ASSUME NEW x \in Elements(s) PROVE x \in Elements(Append(s, e))
  <2>1. PICK k \in 1 .. Len(s) : x = s[k]
      BY DEF Elements
  <2>2. k \in 1 .. Len(Append(s, e)) /\ Append(s, e)[k] = s[k]
      OBVIOUS
  <2>. QED
      BY <2>1, <2>2 DEF Elements
<1>3. e \in Elements(Append(s, e))
  <2>1. Len(s) + 1 \in 1 .. Len(Append(s, e)) /\ Append(s, e)[Len(s) + 1] = e
      OBVIOUS
  <2>. QED
      BY <2>1 DEF Elements
<1>. QED
    BY <1>1, <1>2, <1>3

LEMMA HistoryGrows ==
    ASSUME NEW n \in Nat
    PROVE  /\ History(n) \in Seq(1 .. n) /\ Len(History(n)) = n
           /\ Append(History(n), n + 1) = History(n + 1)
           /\ Increasing(History(n))
           /\ Elements(History(n)) = 1 .. n
BY DEF History, Increasing, Elements

(* Values up to n are values up to any later length.                       *)
LEMMA SeqWidens ==
    ASSUME NEW m \in Nat, NEW n \in Nat, m <= n, NEW s \in Seq(1 .. m)
    PROVE  s \in Seq(1 .. n)
OBVIOUS

-----------------------------------------------------------------------------
(* What the invariant says of the types.                                   *)

LEMMA Lengths ==
    ASSUME IInv
    PROVE  /\ Buffer \in Nat /\ MaxEvents \in Nat /\ Nobody \notin Client
           /\ \A r \in Run : published[r] \in 0 .. MaxEvents
           /\ \A c \in Client :
                 /\ run[c] \in Run /\ published[run[c]] \in 0 .. MaxEvents
                 /\ channel[c] \in Seq(Event) /\ received[c] \in Seq(Event)
                 /\ Len(channel[c]) \in Nat /\ Len(channel[c]) <= Buffer
BY BufferAssumption DEF IInv, TypeOK, Event

LEMMA InitStreams == Init => IInv
<1>. SUFFICES ASSUME Init PROVE IInv
    OBVIOUS
<1>1. \A c \in Client : /\ state[c] = "new" /\ channel[c] = << >> /\ received[c] = << >>
                         /\ missed[c] = {} /\ run[c] \in Run /\ published[run[c]] = 0
    BY DEF Init
<1>2. TypeOK /\ Streams
    BY BufferAssumption DEF Init, TypeOK, Streams, Event
<1>3. MutexOK
    BY <1>1, BufferAssumption DEF Init, MutexOK
<1>4. ASSUME NEW c \in Client PROVE StreamOK(c)
  <2>1. Sent(c) = << >>
      BY <1>1 DEF Sent
  <2>. QED
      BY <1>1, <2>1 DEF StreamOK, Increasing
<1>. QED
    BY <1>2, <1>3, <1>4 DEF IInv

(* A stream nothing happens to keeps its promise, whatever other runs do.  *)
LEMMA StreamUntouched ==
    ASSUME NEW c \in Client, StreamOK(c),
           channel'[c] = channel[c], received'[c] = received[c], state'[c] = state[c],
           missed'[c] = missed[c], run' = run, published'[run[c]] = published[run[c]]
    PROVE  StreamOK(c)'
BY DEF StreamOK, Sent, Increasing, Elements

LEMMA PublishKeeps ==
    ASSUME IInv, NEW r \in Run, Publish(r)
    PROVE  IInv'
<1>. DEFINE p == published[r]
            open == {c \in Subscribed(r) : ~Full(c)}
<1>1. p \in 0 .. MaxEvents /\ p < MaxEvents /\ MaxEvents \in Nat
    BY Lengths DEF Publish
<1>2. published' = [published EXCEPT ![r] = p + 1] /\ published'[r] = p + 1
    BY DEF Publish, IInv, TypeOK
<1>3. \A c \in Client : channel'[c] = IF c \in open THEN Append(channel[c], p + 1) ELSE channel[c]
    BY DEF Publish, SentTo
<1>4. UNCHANGED <<run, mutex, state, received>> /\ mutex = Nobody
    BY DEF Publish
<1>5. \A c \in Client : missed'[c] = IF c \in Subscribed(r) /\ Full(c)
                                      THEN missed[c] \cup {p + 1} ELSE missed[c]
    BY DEF Publish
<1>6. TypeOK' /\ Streams'
  <2>1. p + 1 \in Event
      BY <1>1 DEF Event
  <2>2. \A c \in Client : channel'[c] \in Seq(Event) /\ Len(channel'[c]) <= Buffer
    <3>. TAKE c \in Client
    <3>1. CASE c \in open
      <4>1. ~Full(c) /\ channel'[c] = Append(channel[c], p + 1)
          BY <1>3, <3>1
      <4>2. channel[c] \in Seq(Event) /\ Len(channel[c]) # Buffer /\ Len(channel[c]) <= Buffer
            /\ Buffer \in Nat
          BY <4>1, Lengths DEF Full
      <4>. QED
          BY <2>1, <4>1, <4>2
    <3>2. CASE c \notin open
        BY <1>3, <3>2, Lengths
    <3>. QED
        BY <3>1, <3>2
  <2>3. channel' \in [Client -> Seq(Event)]
      BY <2>2 DEF Publish, SentTo
  <2>4. published' \in [Run -> 0 .. MaxEvents]
      BY <1>1, <1>2 DEF IInv, TypeOK
  <2>5. missed' \in [Client -> SUBSET (1 .. MaxEvents)]
    <3>1. \A c \in Client : missed'[c] \in SUBSET (1 .. MaxEvents)
        BY <1>5, <2>1 DEF IInv, TypeOK, Event
    <3>2. DOMAIN missed' = Client /\ missed' = [c \in Client |-> missed'[c]]
        BY DEF Publish
    <3>. QED
        BY <3>1, <3>2
  <2>. QED
      BY <1>4, <2>2, <2>3, <2>4, <2>5 DEF IInv, TypeOK, Streams, Event
<1>7. MutexOK'
    BY <1>4 DEF IInv, MutexOK
<1>8. ASSUME NEW c \in Client PROVE StreamOK(c)'
  <2>. DEFINE q == published[run[c]]
  <2>1. StreamOK(c) /\ state[c] # "replaying" /\ q \in Nat
      BY <1>4, Lengths DEF IInv, MutexOK
  <2>2. CASE run[c] # r
    <3>1. c \notin Subscribed(r) /\ published'[run[c]] = published[run[c]]
        BY <1>2, <2>2, Lengths DEF Subscribed, IInv, TypeOK
    <3>. QED
      <4>1. channel'[c] = channel[c] /\ missed'[c] = missed[c]
          BY <1>3, <1>5, <3>1 DEF IInv, TypeOK
      <4>2. received'[c] = received[c] /\ state'[c] = state[c] /\ run' = run
          BY <1>4
      <4>. QED
          BY <2>1, <3>1, <4>1, <4>2, StreamUntouched
  <2>3. CASE run[c] = r /\ c \in open
    <3>1. channel'[c] = Append(channel[c], p + 1)
        BY <1>3, <2>3
    <3>2. Sent(c)' = Append(Sent(c), p + 1)
      <4>1. p + 1 \in Event /\ received[c] \in Seq(Event) /\ channel[c] \in Seq(Event)
          BY <1>1, Lengths DEF Event
      <4>. DEFINE e == p + 1
      <4>2. received[c] \o Append(channel[c], e) = Append(received[c] \o channel[c], e)
        <5>1. e \in Event
            BY <4>1
        <5>. HIDE DEF e
        <5>. QED
            BY <4>1, <5>1, SendOn, Zenon
      <4>. QED
          BY <1>4, <3>1, <4>2 DEF Sent
    <3>3. Sent(c) \in Seq(1 .. p) /\ Increasing(Sent(c))
        BY <2>1, <2>3 DEF StreamOK
    <3>4. Sent(c)' \in Seq(1 .. p + 1) /\ Increasing(Sent(c)')
        BY <1>1, <3>2, <3>3, IncreasingAppend
    <3>5. state[c] = "subscribed" /\ missed'[c] = missed[c] /\ missed[c] \subseteq 1 .. p
        BY <1>5, <2>1, <2>3 DEF Subscribed, StreamOK
    <3>6. Elements(Sent(c)) = (1 .. p) \ missed[c]
        BY <2>1, <2>3, <3>5 DEF StreamOK
    <3>7. Elements(Sent(c)') = (1 .. p + 1) \ missed'[c]
      <4>1. Elements(Sent(c)') = Elements(Sent(c)) \cup {p + 1}
          BY <3>2, <3>3, ElementsAppend
      <4>. QED
          BY <1>1, <3>5, <3>6, <4>1
    <3>8. missed'[c] \subseteq 1 .. p + 1 /\ \A k \in missed'[c] : k > Buffer
        BY <1>1, <2>1, <3>5 DEF StreamOK
    <3>. QED
        BY <1>2, <1>4, <2>3, <3>4, <3>5, <3>7, <3>8 DEF StreamOK, Increasing, Elements
  <2>4. CASE run[c] = r /\ c \notin open
    <3>1. channel'[c] = channel[c] /\ Sent(c)' = Sent(c)
        BY <1>3, <1>4, <2>4 DEF Sent
    <3>2. Sent(c) \in Seq(1 .. p) /\ Increasing(Sent(c)) /\ missed[c] \subseteq 1 .. p
        BY <2>1, <2>4 DEF StreamOK
    <3>3. Sent(c)' \in Seq(1 .. p + 1) /\ Increasing(Sent(c)')
        BY <1>1, <3>1, <3>2, SeqWidens
    <3>4. state[c] = "subscribed" =>
              /\ missed'[c] = missed[c] \cup {p + 1} /\ p + 1 > Buffer
              /\ Elements(Sent(c)') = (1 .. p + 1) \ missed'[c]
      <4>. SUFFICES ASSUME state[c] = "subscribed"
                    PROVE  /\ missed'[c] = missed[c] \cup {p + 1} /\ p + 1 > Buffer
                           /\ Elements(Sent(c)') = (1 .. p + 1) \ missed'[c]
          OBVIOUS
      <4>1. Full(c) /\ missed'[c] = missed[c] \cup {p + 1}
          BY <1>5, <2>4 DEF Subscribed
      <4>2. Elements(Sent(c)) = (1 .. p) \ missed[c]
          BY <2>1, <2>4 DEF StreamOK
      <4>3. Len(Sent(c)) <= p
          BY <1>1, <3>2, IncreasingBound
      <4>4. Len(Sent(c)) = Len(received[c]) + Buffer
        <5>1. received[c] \in Seq(Event) /\ channel[c] \in Seq(Event)
            BY Lengths
        <5>2. Len(received[c] \o channel[c]) = Len(received[c]) + Len(channel[c])
            BY <5>1
        <5>. QED
            BY <4>1, <5>2 DEF Sent, Full
      <4>5. Len(received[c]) \in Nat /\ Buffer \in Nat
          BY Lengths
      <4>6. p + 1 > Buffer
          BY <1>1, <4>3, <4>4, <4>5
      <4>7. (1 .. p + 1) \ (missed[c] \cup {p + 1}) = (1 .. p) \ missed[c]
          BY <1>1, <3>2
      <4>8. Elements(Sent(c)') = Elements(Sent(c))
          BY <3>1
      <4>. QED
          BY <4>1, <4>2, <4>6, <4>7, <4>8
    <3>5. state[c] # "subscribed" => missed'[c] = missed[c]
        BY <1>5 DEF Subscribed
    <3>6. missed'[c] \subseteq 1 .. p + 1 /\ \A k \in missed'[c] : k > Buffer
        BY <1>1, <2>1, <3>2, <3>4, <3>5 DEF StreamOK
    <3>. QED
        BY <1>2, <1>4, <2>1, <2>4, <3>1, <3>3, <3>4, <3>5, <3>6 DEF StreamOK, Increasing, Elements
  <2>. QED
      BY <2>2, <2>3, <2>4
<1>. QED
    BY <1>6, <1>7, <1>8 DEF IInv

(* What is left alone by the steps of one client.                          *)
OnlyStream(c) ==
    /\ UNCHANGED <<published, run, missed>>
    /\ \A d \in Client \ {c} : channel'[d] = channel[d] /\ received'[d] = received[d] /\ state'[d] = state[d]

LEMMA OthersUntouched ==
    ASSUME IInv, NEW c \in Client, OnlyStream(c), StreamOK(c)'
    PROVE  \A d \in Client : StreamOK(d)'
BY StreamUntouched DEF OnlyStream, IInv

LEMMA SubscribeKeeps ==
    ASSUME IInv, NEW c \in Client, Lock(c) \/ Replay(c) \/ Unlock(c)
    PROVE  IInv'
<1>. DEFINE n == Len(channel[c])
            q == published[run[c]]
<1>0. StreamOK(c) /\ n \in Nat /\ q \in 0 .. MaxEvents /\ MaxEvents \in Nat /\ Nobody \notin Client
    BY Lengths DEF IInv
<1>1. CASE Lock(c)
  <2>1. mutex = Nobody /\ mutex' = c /\ state[c] = "new" /\ state' = [state EXCEPT ![c] = "replaying"]
        /\ UNCHANGED <<published, run, channel, received, missed>>
      BY <1>1 DEF Lock
  <2>2. state'[c] = "replaying" /\ \A d \in Client \ {c} : state'[d] = state[d]
      BY <2>1 DEF IInv, TypeOK
  <2>3. TypeOK' /\ Streams'
      BY <2>1 DEF IInv, TypeOK, Streams
  <2>4. MutexOK'
      BY <1>0, <2>1, <2>2 DEF IInv, MutexOK
  <2>5. StreamOK(c)'
    <3>1. channel'[c] = << >> /\ received'[c] = << >> /\ missed'[c] = {} /\ Sent(c)' = Sent(c)
          /\ published'[run'[c]] = q
        BY <1>0, <2>1 DEF StreamOK, Sent
    <3>2. << >> = History(0) /\ Len(<< >>) = 0
        BY DEF History
    <3>. QED
        BY <1>0, <2>2, <3>1, <3>2 DEF StreamOK, Increasing
  <2>. QED
      BY <2>1, <2>2, <2>3, <2>4, <2>5, OthersUntouched DEF OnlyStream, IInv
<1>2. CASE Replay(c)
  <2>1. state[c] = "replaying" /\ n < q /\ ~Full(c) /\ n + 1 \in Event
      BY <1>0, <1>2 DEF Replay, Event
  <2>2. channel' = [channel EXCEPT ![c] = Append(channel[c], n + 1)]
        /\ UNCHANGED <<published, run, mutex, state, received, missed>>
      BY <1>2 DEF Replay
  <2>3. channel'[c] = Append(channel[c], n + 1) /\ \A d \in Client \ {c} : channel'[d] = channel[d]
      BY <2>2 DEF IInv, Streams
  <2>4. channel'[c] \in Seq(Event) /\ Len(channel'[c]) = n + 1 /\ n + 1 <= Buffer
      BY <1>0, <2>1, <2>3, Lengths DEF Full
  <2>5. TypeOK' /\ Streams'
    <3>1. Streams'
        BY <2>2, <2>4 DEF IInv, Streams
    <3>2. \A d \in Client : channel'[d] \in Seq(Event) /\ Len(channel'[d]) <= Buffer
        BY <2>3, <2>4, Lengths
    <3>. QED
        BY <2>2, <3>1, <3>2 DEF IInv, TypeOK, Event
  <2>6. MutexOK'
      BY <2>2 DEF IInv, MutexOK
  <2>7. StreamOK(c)'
    <3>1. received[c] = << >> /\ channel[c] = History(n)
        BY <1>0, <2>1 DEF StreamOK
    <3>2. channel'[c] = History(n + 1)
        BY <1>0, <2>3, <3>1, HistoryGrows
    <3>3. Sent(c)' = History(n + 1)
      <4>1. << >> \o channel'[c] = channel'[c]
          BY <2>4
      <4>2. received'[c] = << >>
          BY <2>2, <3>1
      <4>3. Sent(c)' = received'[c] \o channel'[c]
          BY DEF Sent
      <4>. QED
          BY <3>2, <4>1, <4>2, <4>3
    <3>4. History(n + 1) \in Seq(1 .. q) /\ Increasing(History(n + 1))
      <4>. DEFINE k == n + 1
      <4>1. k \in Nat /\ q \in Nat /\ k <= q
          BY <1>0, <2>1
      <4>. HIDE DEF k, q
      <4>2. History(k) \in Seq(1 .. k) /\ Increasing(History(k))
          BY <4>1, HistoryGrows
      <4>3. History(k) \in Seq(1 .. q)
          BY <4>1, <4>2, SeqWidens
      <4>. QED
          BY <4>2, <4>3 DEF k
    <3>. QED
        BY <1>0, <2>1, <2>2, <2>4, <3>1, <3>2, <3>3, <3>4 DEF StreamOK, Increasing
  <2>. QED
      BY <2>2, <2>3, <2>5, <2>6, <2>7, OthersUntouched DEF OnlyStream, IInv
<1>3. CASE Unlock(c)
  <2>1. state[c] = "replaying" /\ n = q /\ mutex' = Nobody
        /\ state' = [state EXCEPT ![c] = "subscribed"]
        /\ UNCHANGED <<published, run, channel, received, missed>>
      BY <1>3 DEF Unlock
  <2>2. state'[c] = "subscribed" /\ \A d \in Client \ {c} : state'[d] = state[d]
      BY <2>1 DEF IInv, TypeOK
  <2>3. TypeOK' /\ Streams'
      BY <2>1 DEF IInv, TypeOK, Streams
  <2>4. MutexOK'
    <3>1. mutex = c
        BY <2>1 DEF IInv, MutexOK
    <3>. QED
        BY <1>0, <2>1, <2>2, <3>1 DEF IInv, MutexOK
  <2>5. StreamOK(c)'
    <3>1. received[c] = << >> /\ channel[c] = History(q) /\ channel[c] \in Seq(Event)
        BY <1>0, <2>1, Lengths DEF StreamOK
    <3>2. Sent(c)' = History(q) /\ Sent(c)' = Sent(c)
        BY <2>1, <3>1 DEF Sent
    <3>3. Elements(History(q)) = 1 .. q /\ missed'[c] = {}
        BY <1>0, <2>1, HistoryGrows DEF StreamOK
    <3>. QED
        BY <1>0, <2>1, <2>2, <3>2, <3>3 DEF StreamOK, Increasing, Elements
  <2>. QED
      BY <2>1, <2>2, <2>3, <2>4, <2>5, OthersUntouched DEF OnlyStream, IInv
<1>. QED
    BY <1>1, <1>2, <1>3

LEMMA ReadKeeps ==
    ASSUME IInv, NEW c \in Client, Receive(c) \/ Unsubscribe(c)
    PROVE  IInv'
<1>0. StreamOK(c) /\ state[c] = "subscribed" /\ channel[c] \in Seq(Event) /\ received[c] \in Seq(Event)
    BY Lengths DEF IInv, Receive, Unsubscribe
<1>1. CASE Receive(c)
  <2>1. channel[c] # << >> /\ received' = [received EXCEPT ![c] = Append(received[c], Head(channel[c]))]
        /\ channel' = [channel EXCEPT ![c] = Tail(channel[c])]
        /\ UNCHANGED <<published, run, mutex, state, missed>>
      BY <1>1 DEF Receive
  <2>2. /\ received'[c] = Append(received[c], Head(channel[c])) /\ channel'[c] = Tail(channel[c])
        /\ \A d \in Client \ {c} : received'[d] = received[d] /\ channel'[d] = channel[d]
      BY <2>1 DEF IInv, Streams
  <2>3. /\ received'[c] \in Seq(Event) /\ channel'[c] \in Seq(Event)
        /\ Len(channel'[c]) <= Len(channel[c])
      BY <1>0, <2>1, <2>2
  <2>4. TypeOK' /\ Streams'
    <3>1. \A d \in Client : /\ channel'[d] \in Seq(Event) /\ Len(channel'[d]) <= Buffer
                             /\ received'[d] \in Seq(Event)
      <4>1. Len(channel'[c]) <= Buffer
          BY <2>3, Lengths
      <4>. QED
          BY <2>2, <2>3, <4>1, Lengths
    <3>2. Streams'
        BY <2>1, <2>3 DEF IInv, Streams
    <3>. QED
        BY <2>1, <3>1, <3>2 DEF IInv, TypeOK, Event
  <2>5. MutexOK'
      BY <2>1 DEF IInv, MutexOK
  <2>6. Sent(c)' = Sent(c)
      BY <1>0, <2>1, <2>2, PassOn DEF Sent
  <2>7. StreamOK(c)'
      BY <1>0, <2>1, <2>6 DEF StreamOK, Increasing, Elements
  <2>. QED
      BY <2>1, <2>2, <2>4, <2>5, <2>7, OthersUntouched DEF OnlyStream, IInv
<1>2. CASE Unsubscribe(c)
  <2>1. mutex = Nobody /\ state' = [state EXCEPT ![c] = "gone"]
        /\ UNCHANGED <<published, run, mutex, channel, received, missed>>
      BY <1>2 DEF Unsubscribe
  <2>2. state'[c] = "gone" /\ \A d \in Client \ {c} : state'[d] = state[d]
      BY <2>1 DEF IInv, TypeOK
  <2>3. TypeOK' /\ Streams'
      BY <2>1 DEF IInv, TypeOK, Streams
  <2>4. MutexOK'
      BY <1>0, <2>1, <2>2 DEF IInv, MutexOK
  <2>5. StreamOK(c)'
      BY <1>0, <2>1, <2>2 DEF StreamOK, Increasing, Sent
  <2>. QED
      BY <2>1, <2>2, <2>3, <2>4, <2>5, OthersUntouched DEF OnlyStream, IInv
<1>. QED
    BY <1>1, <1>2

LEMMA StutterKeeps == IInv /\ UNCHANGED vars => IInv'
<1>. SUFFICES ASSUME IInv, UNCHANGED vars PROVE IInv'
    OBVIOUS
<1>1. TypeOK' /\ Streams' /\ MutexOK'
    BY DEF IInv, vars, TypeOK, Streams, MutexOK
<1>2. \A c \in Client : StreamOK(c)'
    BY StreamUntouched DEF IInv, vars
<1>. QED
    BY <1>1, <1>2 DEF IInv

(* The inductive invariant holds in every reachable state.                 *)
THEOREM Invariance == Spec => []IInv
<1>1. IInv /\ [Next]_vars => IInv'
    BY PublishKeeps, SubscribeKeeps, ReadKeeps, StutterKeeps DEF Next, Subscribe
<1>. QED
    BY <1>1, InitStreams, PTL DEF Spec

(* Every variable keeps its type; no channel of a subscriber ever holds    *)
(* more than its capacity, during the replay included.                     *)
THEOREM TypeCorrect == Spec => []TypeOK
<1>1. IInv => TypeOK
    BY DEF IInv
<1>. QED
    BY <1>1, Invariance, PTL

(* No event of a run reaches a client twice or out of order, and a client  *)
(* has every event, whenever it subscribed, but those that found its       *)
(* channel full, none of the first Buffer ones among them (DeliveredIn-    *)
(* Order; StreamBroker.Publish and Subscribe).                             *)
THEOREM StreamsAreFaithful == Spec => []DeliveredInOrder
<1>1. IInv => DeliveredInOrder
    BY DEF IInv, StreamOK, DeliveredInOrder, Increasing, Events, Elements
<1>. QED
    BY <1>1, Invariance, PTL
=============================================================================
