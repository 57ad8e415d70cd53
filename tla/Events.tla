-------------------------------- MODULE Events --------------------------------
(***************************************************************************)
(* The event stream of events/events.go.  Publish appends to the history   *)
(* and to every subscriber's queue under the hub's lock; Subscribe         *)
(* registers its queue under the lock, lets go of it, and replays the      *)
(* history under a read lock, so that events may be published in between.  *)
(* A full queue drops what is offered to it: the newest events, also of a  *)
(* replayed history longer than the queue.  An event is its number.        *)
(***************************************************************************)
EXTENDS Naturals, FiniteSets, Sequences, SequencesExt

CONSTANTS
    Client,    \* the connections of ServeHTTP
    MaxHist,   \* 100 in the code
    QueueLen,  \* 64 in the code
    MaxEvents  \* bound: events published

ASSUME EventsAssumption == MaxHist \in Nat /\ QueueLen \in Nat

VARIABLES
    published, \* number of the last event
    history,   \* Hub.history
    client     \* for each client: [phase, queue, got, from, dropped]

evvars == <<published, history, client>>
-----------------------------------------------------------------------------
Nobody == [phase |-> "away", queue |-> <<>>, got |-> {}, from |-> 0, dropped |-> FALSE]

(* The non-blocking send to a subscriber's queue. *)
Offer(x, e) ==
    IF Len(x.queue) < QueueLen THEN [x EXCEPT !.queue = Append(@, e)]
    ELSE [x EXCEPT !.dropped = TRUE]

(* A history offered event by event: what does not fit is dropped. *)
Filled(x, h) ==
    LET all == x.queue \o h
    IN  IF Len(all) <= QueueLen THEN [x EXCEPT !.queue = all]
        ELSE [x EXCEPT !.queue = SubSeq(all, 1, QueueLen), !.dropped = TRUE]

Trimmed(h) == IF Len(h) > MaxHist THEN Tail(h) ELSE h

Publish ==
    /\ published < MaxEvents
    /\ published' = published + 1
    /\ history' = Trimmed(Append(history, published + 1))
    /\ client' = [c \in Client |-> IF client[c].phase = "away" THEN client[c]
                                   ELSE Offer(client[c], published + 1)]

(* Subscribe: the queue is registered first ... *)
Subscribe(c) ==
    /\ client[c].phase = "away"
    /\ client' = [client EXCEPT ![c].phase = "registered"]
    /\ UNCHANGED <<published, history>>

(* ... then filled with the history; got and from start a new count. *)
ReplayIfEmpty(c) ==
    /\ client[c].phase = "registered"
    /\ client' = [client EXCEPT ![c] =
         [Filled(@, IF @.queue = <<>> THEN history ELSE <<>>) EXCEPT
            !.phase = "live", !.from = IF history = <<>> THEN published + 1 ELSE history[1]]]
    /\ UNCHANGED <<published, history>>

Replay(c) ==
    /\ client[c].phase = "registered"
    /\ client' = [client EXCEPT ![c] =
         [Filled(@, history) EXCEPT
            !.phase = "live", !.from = IF history = <<>> THEN published + 1 ELSE history[1]]]
    /\ UNCHANGED <<published, history>>

(* ServeHTTP writes an event out, or the connection ends. *)
Write(c) ==
    /\ client[c].phase = "live" /\ client[c].queue # <<>>
    /\ client' = [client EXCEPT ![c].queue = Tail(@), ![c].got = @ \cup {Head(client[c].queue)}]
    /\ UNCHANGED <<published, history>>

Unsubscribe(c) ==
    /\ client[c].phase = "live"
    /\ client' = [client EXCEPT ![c] = Nobody]
    /\ UNCHANGED <<published, history>>
-----------------------------------------------------------------------------
EventsInit ==
    /\ published = 0
    /\ history = <<>>
    /\ client = [c \in Client |-> Nobody]

EventsNext ==
    \/ Publish
    \/ \E c \in Client : Subscribe(c) \/ Replay(c) \/ Write(c) \/ Unsubscribe(c)

EventsSpec == EventsInit /\ [][EventsNext]_evvars
-----------------------------------------------------------------------------
(* A live subscriber whose queue was never full misses nothing from the oldest     *)
(* event of the history it was given on, although events are published between its *)
(* registration and the replay; and nothing reaches it more than twice.            *)
NoGap ==
    \A c \in Client : client[c].phase = "live" =>
        LET x == client[c]
        IN  /\ ~x.dropped => x.from .. published \subseteq x.got \cup ToSet(x.queue)
            /\ \A e \in 1 .. published : Cardinality({i \in DOMAIN x.queue : x.queue[i] = e}) <= 2
=============================================================================
