------------------------------- MODULE Signals -------------------------------
(***************************************************************************)
(* The parameters shared by the broker, the publisher and the consumer: the*)
(* replicas of the service and the stock signals in its durable queue.     *)
(***************************************************************************)
EXTENDS Integers, FiniteSets

CONSTANTS
    Replicas,   \* processes of stocker-informer sharing one input queue
    Messages,   \* stock signals; each is one message of the queue
    Poison,     \* signals whose body decodeStock rejects
    NoMsg       \* "no delivery in hand"

ASSUME PoisonAssumption == Poison \subseteq Messages
ASSUME NoMsgAssumption == NoMsg \notin Messages
\* A replica's identity doubles as "held by that replica" in Broker!loc.
ASSUME ReplicaNamesAssumption ==
    Replicas \cap {"ready", "orphan", "gone"} = {}
==============================================================================
