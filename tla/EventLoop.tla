------------------------------- MODULE EventLoop -------------------------------
(***************************************************************************)
(* The Qt event loop under every process of the system.  A queued signal   *)
(* or deleteLater() posts an event.  One pass of the loop first delivers   *)
(* all posted events in order, those posted meanwhile included, and then   *)
(* serves what is ready: each socket notifier at most once, and the timers *)
(* after the notifiers.  So an event posted by one notifier waits for the  *)
(* others of the same pass, and for the timers, but never for a second     *)
(* call of the same notifier.                                              *)
(***************************************************************************)
EXTENDS Sequences, FiniteSets

CONSTANTS
    Clients,   \* the CommunicationClient objects: one per connection attempt
    Server     \* the process of the CommunicationServer

ASSUME ServerAssumption == Server \notin Clients

Processes == Clients \cup {Server}

\* The sources of callbacks: the listening socket, the connection to a client
\* (or, in a client, its only connection), a socket of the application (the
\* data channel, say, whose callback may call the peer's public methods), and
\* the timers.
Sources == Clients \cup {"accept", "socket", "app", "timer"}

EventNames == {"connected", "disconnected", "coupled", "failed", "delete"}

\* "c" is the client whose socket or handler posted the event.
Event(ev, c) == [ev |-> ev, c |-> c]
Events == [ev : EventNames, c : Clients]

VARIABLES
    posted,   \* the events that wait, per process
    served    \* the sources served in this pass since an event began to wait

loopVars == <<posted, served>>

LoopInit == /\ posted = [p \in Processes |-> <<>>]
            /\ served = [p \in Processes |-> {}]

\* The loop of p may call back src: no event waits (a new pass may begin), or
\* the events that wait were posted in the pass that src also belongs to.
CanServe(p, src) ==
    \/ posted[p] = <<>>
    \/ served[p] # {} /\ src \notin served[p] /\ "timer" \notin served[p]

\* A callback of src posts the events evs.
Post(p, src, evs) ==
    /\ posted' = [posted EXCEPT ![p] = @ \o evs]
    /\ served' = [served EXCEPT ![p] =
                      IF posted[p] \o evs = <<>> THEN {} ELSE @ \cup {src}]

\* The loop calls back src, which posts evs.
Serve(p, src, evs) == CanServe(p, src) /\ Post(p, src, evs)

\* The event at the head of the queue of p is ev from c.
Due(p, ev, c) == posted[p] # <<>> /\ Head(posted[p]) = Event(ev, c)

\* It is delivered, and its receiver posts evs.
Deliver(p, evs) ==
    /\ posted' = [posted EXCEPT ![p] = Tail(@) \o evs]
    /\ served' = [served EXCEPT ![p] = {}]

\* The receiver of all events of p is destroyed.
Forget(p) ==
    /\ posted' = [posted EXCEPT ![p] = <<>>]
    /\ served' = [served EXCEPT ![p] = {}]

LoopTypeOK == /\ posted \in [Processes -> Seq(Events)]
              /\ served \in [Processes -> SUBSET Sources]
===============================================================================
