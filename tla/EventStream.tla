----------------------------- MODULE EventStream -----------------------------
(***************************************************************************)
(* The live event stream of one API process.  Agents post events, which go *)
(* to the subscribed connections and, when they are fit for the activity   *)
(* feed, into a ring buffer (events/hub.ts).  A browser opens the stream   *)
(* with a short-lived token (OneTimeTokens) and is subscribed when the     *)
(* token was accepted; between the request and the subscription the        *)
(* database is asked twice, and events and disconnects may come.           *)
(***************************************************************************)
EXTENDS OneTimeTokens, Sequences, SequencesExt

CONSTANTS
  RingSize,  (* RING_SIZE                                                  *)
  MaxEvents, (* bound on the events posted                                 *)
  CloseEarly (* whether clients go away before they are subscribed         *)

ASSUME RingSizeAssumption == RingSize \in Nat \ {0}

VARIABLES
  published, (* history: the kinds of the events posted, in order          *)
  ring,      (* the events in the ring buffer, by their place in published *)
  stream     (* one connection per request slot                            *)

streamVars == <<vars, published, ring, stream>>

(* A Docker event of an ordinary action, one of an exec_* action, one that  *)
(* is no JSON, and an agent's statistics, which are not of type "event".    *)
Kinds == {"docker", "exec", "unparsable", "stats"}

(* from: the events posted before the subscription; got: those sent.        *)
Stream == [subscribed : BOOLEAN, gone : BOOLEAN, from : Nat, got : Seq(Nat)]
Unused == [subscribed |-> FALSE, gone |-> FALSE, from |-> 0, got |-> <<>>]

StreamInit ==
  /\ Init
  /\ published = <<>> /\ ring = <<>>
  /\ stream = [r \in Requests |-> Unused]

-----------------------------------------------------------------------------

(* isSafeToSurface, and the type that publishEvent asks for.                *)
Surfaced(kind) == kind = "docker"

(* Mutant: the buffer drops its oldest event one too early.                 *)
RingPushShort(s) == IF Len(s) >= RingSize THEN Tail(s) ELSE s

(* Mutant: it never drops one.                                              *)
RingPushLong(s) == s

RingPush(s) == IF Len(s) > RingSize THEN Tail(s) ELSE s

(* Mutant: subscribers get what the feed gets.                              *)
DeliverSurfaced(r, i, kind) ==
  IF stream[r].subscribed /\ Surfaced(kind)
    THEN [stream[r] EXCEPT !.got = Append(@, i)] ELSE stream[r]

Deliver(r, i, kind) ==
  IF stream[r].subscribed THEN [stream[r] EXCEPT !.got = Append(@, i)]
                          ELSE stream[r]

(* POST /events: publishEvent emits to every handler, then fills the ring.  *)
Publish(kind) ==
  /\ Len(published) < MaxEvents
  /\ published' = Append(published, kind)
  /\ LET i == Len(published) + 1 IN
       /\ stream' = [r \in Requests |-> Deliver(r, i, kind)]
       /\ ring' = IF Surfaced(kind) THEN RingPush(Append(ring, i)) ELSE ring
  /\ UNCHANGED vars

(* GET /events: the await of consumeSlt ends, the handler is added.         *)
Subscribe(r) ==
  /\ Accept(r)
  /\ stream' = [stream EXCEPT ![r].subscribed = TRUE,
                              ![r].from = Len(published)]
  /\ UNCHANGED <<published, ring>>

(* The request is refused or fails: there will be no stream.                *)
TurnAway(r) ==
  /\ \/ Refuse(r) \/ Fail(r)
     \/ Select(r) /\ request'[r].pc = "idle"
  /\ stream' = [stream EXCEPT ![r] = Unused]
  /\ UNCHANGED <<published, ring>>

Open(r, t) ==
  /\ stream[r] = Unused
  /\ Present(r, t)
  /\ UNCHANGED <<published, ring, stream>>

Proceed(r) ==
  /\ \/ Select(r) /\ request'[r].pc # "idle"
     \/ Delete(r)
  /\ UNCHANGED <<published, ring, stream>>

(* The socket closes, and "close" reaches the listener that unsubscribes.   *)
Close(r) ==
  /\ stream[r].subscribed /\ ~stream[r].gone
  /\ stream' = [stream EXCEPT ![r] = Unused]
  /\ UNCHANGED <<vars, published, ring>>

(* It closes during the awaits, before anybody listens for "close".         *)
CloseUnheard(r) ==
  /\ CloseEarly /\ request[r].pc # "idle" /\ ~stream[r].gone
  /\ stream' = [stream EXCEPT ![r].gone = TRUE]
  /\ UNCHANGED <<vars, published, ring>>

Elsewhere ==
  /\ Tick \/ \E t \in Tokens : Create(t)
  /\ UNCHANGED <<published, ring, stream>>

StreamNext ==
  \/ Elsewhere
  \/ \E kind \in Kinds : Publish(kind)
  \/ \E r \in Requests :
       \/ Subscribe(r) \/ TurnAway(r) \/ Proceed(r) \/ Close(r)
       \/ CloseUnheard(r) \/ \E t \in Tokens : Open(r, t)

StreamSpec == StreamInit /\ [][StreamNext]_streamVars

-----------------------------------------------------------------------------

(* recentEvents(limit): ring.slice(-limit).reverse(), where slice(-0) is    *)
(* slice(0), all of it.                                                     *)
RecentEvents(limit) ==
  Reverse(IF limit = 0 \/ limit >= Len(ring) THEN ring
          ELSE SubSeq(ring, Len(ring) - limit + 1, Len(ring)))

StreamTypeOK ==
  /\ published \in Seq(Kinds)
  /\ ring \in Seq(1..Len(published)) /\ Len(ring) <= RingSize
  /\ stream \in [Requests -> [subscribed : BOOLEAN, gone : BOOLEAN,
                              from : 0..Len(published), got : Seq(Nat)]]

(* The activity feed shows surfaced events only, newest first, and no exec  *)
(* event among them; a surfaced event that it does not show is older than   *)
(* all it shows, and then it shows as many as it was asked for, however     *)
(* events and reads are interleaved (events/hub.ts:38-52).                  *)
FeedShowsLatest ==
  \A limit \in 1..RingSize :
    LET feed == RecentEvents(limit)
        shown == 1..Len(feed)
    IN /\ Len(feed) <= limit
       /\ \A k \in shown :
            /\ feed[k] \in 1..Len(published) /\ Surfaced(published[feed[k]])
            /\ \A j \in 1..(k - 1) : feed[k] < feed[j]
       /\ \A i \in 1..Len(published) : Surfaced(published[i]) =>
            \/ \E k \in shown : feed[k] = i
            \/ Len(feed) = limit /\ \A k \in shown : i < feed[k]

(* A subscribed connection was sent every event since its subscription, in  *)
(* order and once, whoever else subscribes or closes meanwhile.             *)
StreamIsComplete ==
  \A r \in Requests : stream[r].subscribed =>
    stream[r].got = [k \in 1..(Len(published) - stream[r].from) |-> stream[r].from + k]
=============================================================================
