---------------------------- MODULE StreamBroker ----------------------------
(***************************************************************************)
(* runtime.StreamBroker, the event streams of the runs: the recorder of a  *)
(* diagnosis publishes, the SSE handler (handler.RunHandler.Stream)        *)
(* subscribes, receives and cancels.  One mutex guards the streams of all  *)
(* runs.  Subscribe replays the run's history into the new channel while   *)
(* it holds the mutex, before anybody can receive from that channel.       *)
(***************************************************************************)
EXTENDS Naturals, Sequences

CONSTANTS
    Run,         \* diagnoses
    Client,      \* SSE requests
    Buffer,      \* capacity of a subscriber's channel (256 in the code)
    MaxEvents,   \* how many events a run publishes
    Nobody       \* the mutex is free

ASSUME BufferAssumption == Buffer \in Nat /\ MaxEvents \in Nat /\ Nobody \notin Client

VARIABLES
    published,   \* per run: length of its history; event k is the k-th published
    run,         \* per client: the run whose stream it asks for
    mutex,       \* the client replaying the history under b.mu, or Nobody
    state,       \* per client: "new", "replaying", "subscribed" or "gone"
    channel,     \* per client: what its channel holds
    received,    \* per client: what its handler has written to the response
    missed       \* history: per client, the events that found its channel full

vars == <<published, run, mutex, state, channel, received, missed>>

(* Everything that was put into the client's channel so far.               *)
Sent(c) == received[c] \o channel[c]

Events(c) == {Sent(c)[k] : k \in 1 .. Len(Sent(c))}

Full(c) == Len(channel[c]) = Buffer

Subscribed(r) == {c \in Client : run[c] = r /\ state[c] = "subscribed"}

(* The channels once the next event of r was sent to the clients cs.       *)
SentTo(cs, r) == [c \in Client |->
    IF c \in cs THEN Append(channel[c], published[r] + 1) ELSE channel[c]]

-----------------------------------------------------------------------------
(* Mutants: a channel that is full waits for its client; a channel takes   *)
(* more than its capacity.                                                 *)
PublishWaiting(r) ==
    /\ mutex = Nobody /\ published[r] < MaxEvents
    /\ \A c \in Subscribed(r) : ~Full(c)
    /\ published' = [published EXCEPT ![r] = @ + 1]
    /\ channel' = SentTo(Subscribed(r), r)
    /\ UNCHANGED <<run, mutex, state, received, missed>>

PublishUnbounded(r) ==
    /\ mutex = Nobody /\ published[r] < MaxEvents
    /\ published' = [published EXCEPT ![r] = @ + 1]
    /\ channel' = SentTo(Subscribed(r), r)
    /\ UNCHANGED <<run, mutex, state, received, missed>>

(* Publish: append to the history, then a send without waiting to every    *)
(* subscriber; a full channel misses the event.                            *)
Publish(r) ==
    /\ mutex = Nobody /\ published[r] < MaxEvents
    /\ published' = [published EXCEPT ![r] = @ + 1]
    /\ channel' = SentTo({c \in Subscribed(r) : ~Full(c)}, r)
    /\ missed' = [c \in Client |->
          IF c \in Subscribed(r) /\ Full(c) THEN missed[c] \cup {published[r] + 1} ELSE missed[c]]
    /\ UNCHANGED <<run, mutex, state, received>>

(* Subscribe takes the mutex ...                                           *)
Lock(c) ==
    /\ mutex = Nobody /\ state[c] = "new"
    /\ mutex' = c
    /\ state' = [state EXCEPT ![c] = "replaying"]
    /\ UNCHANGED <<published, run, channel, received, missed>>

(* ... sends the history, waiting while the channel is full ...            *)
Replay(c) ==
    /\ state[c] = "replaying" /\ Len(channel[c]) < published[run[c]] /\ ~Full(c)
    /\ channel' = [channel EXCEPT ![c] = Append(@, Len(@) + 1)]
    /\ UNCHANGED <<published, run, mutex, state, received, missed>>

(* Mutant: the channel is registered without the rest of the history.      *)
UnlockUnreplayed(c) ==
    /\ state[c] = "replaying"
    /\ mutex' = Nobody
    /\ state' = [state EXCEPT ![c] = "subscribed"]
    /\ UNCHANGED <<published, run, channel, received, missed>>

(* ... and registers the channel before it releases the mutex.             *)
Unlock(c) ==
    /\ state[c] = "replaying" /\ Len(channel[c]) = published[run[c]]
    /\ mutex' = Nobody
    /\ state' = [state EXCEPT ![c] = "subscribed"]
    /\ UNCHANGED <<published, run, channel, received, missed>>

(* The handler receives an event and writes it to the response.            *)
Receive(c) ==
    /\ state[c] = "subscribed" /\ channel[c] # << >>
    /\ received' = [received EXCEPT ![c] = Append(@, Head(channel[c]))]
    /\ channel' = [channel EXCEPT ![c] = Tail(@)]
    /\ UNCHANGED <<published, run, mutex, state, missed>>

(* The client disconnects: cancel removes and closes the channel.          *)
Unsubscribe(c) ==
    /\ mutex = Nobody /\ state[c] = "subscribed"
    /\ state' = [state EXCEPT ![c] = "gone"]
    /\ UNCHANGED <<published, run, mutex, channel, received, missed>>

-----------------------------------------------------------------------------
Init ==
    /\ published = [r \in Run |-> 0] /\ mutex = Nobody
    /\ run \in [Client -> Run]
    /\ state    = [c \in Client |-> "new"]
    /\ channel  = [c \in Client |-> << >>]
    /\ received = [c \in Client |-> << >>]
    /\ missed   = [c \in Client |-> {}]

Subscribe(c) == Replay(c) \/ Unlock(c)

Next ==
    \/ \E r \in Run : Publish(r)
    \/ \E c \in Client : Lock(c) \/ Subscribe(c) \/ Receive(c) \/ Unsubscribe(c)

Spec == Init /\ [][Next]_vars

(* A diagnosis publishes what it has to (its steps are bounded in time),   *)
(* and a goroutine in Subscribe runs.  Clients may read as slowly as they  *)
(* like, or never.                                                         *)
FairSpec ==
    /\ Spec
    /\ \A r \in Run : WF_vars(Publish(r))
    /\ \A c \in Client : WF_vars(Subscribe(c))

-----------------------------------------------------------------------------
(* Every variable has its type; no channel holds more than its capacity.   *)
TypeOK ==
    /\ published \in [Run -> 0 .. MaxEvents] /\ run \in [Client -> Run]
    /\ mutex \in Client \cup {Nobody}
    /\ state \in [Client -> {"new", "replaying", "subscribed", "gone"}]
    /\ \A c \in Client :
          /\ channel[c] \in Seq(1 .. MaxEvents) /\ Len(channel[c]) <= Buffer
          /\ received[c] \in Seq(1 .. MaxEvents)
    /\ missed \in [Client -> SUBSET (1 .. MaxEvents)]

(* The mutex covers replay and registration together: no event reaches a   *)
(* subscriber twice or out of order, and it has received or will receive   *)
(* every event, whenever it subscribed, but those that found its channel   *)
(* full; a slow reader misses none of the first Buffer events (no gap      *)
(* between the replayed history and the live events; streambroker.go:35).  *)
DeliveredInOrder ==
    \A c \in Client :
        /\ \A j, k \in 1 .. Len(Sent(c)) : j < k => Sent(c)[j] < Sent(c)[k]
        /\ state[c] = "subscribed" => Events(c) = (1 .. published[run[c]]) \ missed[c]
        /\ \A k \in missed[c] : k > Buffer

(* Clients, however slow, never hold up a diagnosis: all its events get    *)
(* published (streambroker.go:36, "drop rather than block the publisher"). *)
PublisherNeverBlocked == \A r \in Run : <>(published[r] = MaxEvents)

(* What does hold: the runs publish all their events, or a client has been *)
(* caught with the mutex in the replay of a history that is longer than    *)
(* its channel.  Nothing else in Publish, Subscribe or cancel stops them.  *)
OnlyLongHistoryBlocks ==
    \/ PublisherNeverBlocked
    \/ <>[](\E c \in Client : mutex = c /\ published[run[c]] > Buffer /\ Full(c))
=============================================================================
