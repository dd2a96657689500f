----------------------------- MODULE LossyFeed -----------------------------
(***************************************************************************)
(* What a broadcaster promises its subscribers: a feed that may lose       *)
(* events but never reorders or repeats those of one source, that only an  *)
(* open subscription gets, and that ends for good.                         *)
(***************************************************************************)
EXTENDS Integers, Sequences

CONSTANTS Subscription, Source, Capacity

VARIABLES ended,    \* the feed is shutting down
          status,   \* of each subscription
          stream,   \* events put on each subscription, in order
          taken     \* how many of them were received

feedVars == <<ended, status, stream, taken>>

Status == {"none", "open", "closed"}
FeedEvent == Source \X (Nat \ {0})

FeedInit ==
    /\ ended = FALSE
    /\ status = [s \in Subscription |-> "none"]
    /\ stream = [s \in Subscription |-> <<>>]
    /\ taken = [s \in Subscription |-> 0]

\* A subscription to an ended feed is closed from the start.
Join(s) ==
    /\ status[s] = "none"
    /\ status' = [status EXCEPT ![s] = IF ended THEN "closed" ELSE "open"]
    /\ UNCHANGED <<ended, stream, taken>>

\* The subscriber leaves, or the end of the feed reaches it.
End(s) ==
    /\ status[s] = "open"
    /\ status' = [status EXCEPT ![s] = "closed"]
    /\ UNCHANGED <<ended, stream, taken>>

\* e is newer than every event of its source on this subscription.
Newest(s, e) ==
    \A i \in 1..Len(stream[s]) : stream[s][i][1] = e[1] => stream[s][i][2] < e[2]

Deliver(s, e) ==
    /\ status[s] = "open"
    /\ Len(stream[s]) - taken[s] < Capacity
    /\ Newest(s, e)
    /\ stream' = [stream EXCEPT ![s] = Append(@, e)]
    /\ UNCHANGED <<ended, status, taken>>

Take(s) ==
    /\ taken[s] < Len(stream[s])
    /\ taken' = [taken EXCEPT ![s] = @ + 1]
    /\ UNCHANGED <<ended, status, stream>>

EndFeed ==
    /\ ~ended
    /\ ended' = TRUE
    /\ UNCHANGED <<status, stream, taken>>

\* The event of a delivery is bound by the stream it extends, so that the
\* next-state relation can be evaluated without enumerating FeedEvent.
DeliverSome(s) ==
    /\ Len(stream'[s]) = Len(stream[s]) + 1
    /\ LET e == stream'[s][Len(stream'[s])] IN e \in FeedEvent /\ Deliver(s, e)

FeedNext ==
    \/ \E s \in Subscription : Join(s) \/ End(s) \/ DeliverSome(s) \/ Take(s)
    \/ EndFeed

FeedSpec == FeedInit /\ [][FeedNext]_feedVars
=============================================================================
