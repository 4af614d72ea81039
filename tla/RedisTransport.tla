--------------------------- MODULE RedisTransport ---------------------------
(***************************************************************************)
(* RedisTransport: one stream per endpoint, read by a consumer group; a    *)
(* sorted set of delayed messages that every process polls; and a timer    *)
(* that claims entries which have been pending for too long.               *)
(*                                                                         *)
(* The timers are not synchronized with anything: any process may poll or  *)
(* claim while another, or its own read loop, is in the middle of a        *)
(* message.  Redis itself survives the crash of a process.                 *)
(***************************************************************************)
EXTENDS TransportTraffic

CONSTANTS
    Processes,
    Serves,        \* process -> the endpoints it may subscribe to
    MaxCopies,     \* bound: times a message is added to its stream
    NoStreams      \* no read loop is running

ASSUME RedisTransportAssumption ==
    /\ Serves \in [Processes -> SUBSET Endpoints]
    /\ MaxCopies \in Nat \ {0}

VARIABLES
    up,            \* process -> "down", "up" or "stopping"
    subscribed,    \* process -> the endpoints in subscriptions
    streams,       \* process -> the streams its read loop has captured, or NoStreams
    added,         \* message -> entries added to its stream for it
    delayedSet,    \* the sorted set of delayed messages
    fresh,         \* entries no consumer of the group has been given
    pending,       \* entries given to a consumer and not acknowledged
    batch,         \* process -> what its read loop has read and not begun
    runs,          \* process -> the entries its read loop and its claims are at
    poll           \* process -> messages its poll has yet to move, and the one half moved

processVars == <<up, subscribed, streams>>
keyVars == <<added, delayedSet, fresh, pending>>
workVars == <<batch, runs, poll>>
streamVars == <<processVars, keyVars, workVars>>

(* The k-th entry of a message in its stream. *)
Entries == Messages \X (1 .. MaxCopies)
Msg(x) == x[1]
Stream(x) == Address[Msg(x)]

(* A handler that is awaited, or has returned with the XACK to follow. *)
Runs == [entry : Entries, via : {"loop", "claim"}, stage : {"handling", "acking"}]

LoopBusy(p) == batch[p] # {} \/ \E r \in runs[p] : r.via = "loop"

NoPoll == [todo |-> {}, moving |-> {}]

StreamTypeOK ==
    /\ up \in [Processes -> {"down", "up", "stopping"}]
    /\ subscribed \in [Processes -> SUBSET Endpoints]
    /\ streams \in [Processes -> (SUBSET Endpoints) \cup {NoStreams}]
    /\ added \in [Messages -> 0 .. MaxCopies]
    /\ delayedSet \subseteq Messages
    /\ fresh \subseteq Entries
    /\ pending \subseteq Entries
    /\ batch \in [Processes -> SUBSET Entries]
    /\ runs \in [Processes -> SUBSET Runs]
    /\ poll \in [Processes -> [todo : SUBSET Messages, moving : SUBSET Messages]]

StreamInit ==
    /\ up = [p \in Processes |-> "down"]
    /\ subscribed = [p \in Processes |-> {}]
    /\ streams = [p \in Processes |-> NoStreams]
    /\ added = [m \in Messages |-> 0]
    /\ delayedSet = {}
    /\ fresh = {}
    /\ pending = {}
    /\ batch = [p \in Processes |-> {}]
    /\ runs = [p \in Processes |-> {}]
    /\ poll = [p \in Processes |-> NoPoll]

-----------------------------------------------------------------------------
(* Life of a process. *)

(* A read loop is begun with the streams subscribed so far; a later subscribe
   finds one running and leaves it alone. *)
BeginReadLoop(p, endpoints) ==
    streams' = [streams EXCEPT ![p] =
        IF @ = NoStreams /\ endpoints # {} THEN endpoints ELSE @]

RedisStart(p) ==
    /\ up[p] = "down"
    /\ up' = [up EXCEPT ![p] = "up"]
    /\ BeginReadLoop(p, subscribed[p])
    /\ UNCHANGED <<subscribed, keyVars, workVars, trafficVars>>

RedisSubscribe(p, e) ==
    /\ e \in Serves[p] \ subscribed[p]
    /\ subscribed' = [subscribed EXCEPT ![p] = @ \cup {e}]
    /\ IF up[p] = "down" THEN UNCHANGED streams ELSE BeginReadLoop(p, subscribed'[p])
    /\ UNCHANGED <<up, keyVars, workVars, trafficVars>>

(* stop clears the timers and waits for the read loop to finish its batch. *)
RedisStop(p) ==
    /\ up[p] = "up"
    /\ Fault({})
    /\ up' = [up EXCEPT ![p] = "stopping"]
    /\ UNCHANGED <<subscribed, streams, keyVars, workVars>>

RedisStopped(p) ==
    /\ up[p] = "stopping"
    /\ ~ LoopBusy(p)
    /\ up' = [up EXCEPT ![p] = "down"]
    /\ streams' = [streams EXCEPT ![p] = NoStreams]
    /\ UNCHANGED <<subscribed, keyVars, workVars, trafficVars>>

RedisCrash(p) ==
    /\ up[p] # "down"
    /\ Fault({})
    /\ up' = [up EXCEPT ![p] = "down"]
    /\ subscribed' = [subscribed EXCEPT ![p] = {}]
    /\ streams' = [streams EXCEPT ![p] = NoStreams]
    /\ batch' = [batch EXCEPT ![p] = {}]
    /\ runs' = [runs EXCEPT ![p] = {}]
    /\ poll' = [poll EXCEPT ![p] = NoPoll]
    /\ UNCHANGED keyVars

-----------------------------------------------------------------------------
(* publish, and the delayed messages. *)

AddToStream(m) ==
    /\ added[m] < MaxCopies
    /\ added' = [added EXCEPT ![m] = @ + 1]
    /\ fresh' = fresh \cup {<<m, added[m] + 1>>}

RedisPublish(m) ==
    /\ \E p \in Processes : up[p] # "down"
    /\ Accept(m)
    /\ IF m \in Delayed
       THEN delayedSet' = delayedSet \cup {m} /\ UNCHANGED <<added, fresh>>
       ELSE AddToStream(m) /\ UNCHANGED delayedSet
    /\ UNCHANGED <<dropped, pending, processVars, workVars>>

(* processDelayedMessages: the messages that are due now, then for each ... *)
RedisPoll(p) ==
    /\ up[p] = "up"
    /\ poll[p] = NoPoll
    /\ delayedSet \cap elapsed # {}
    /\ poll' = [poll EXCEPT ![p].todo = delayedSet \cap elapsed]
    /\ UNCHANGED <<batch, runs, processVars, keyVars, trafficVars>>

(* Mutant: the message is taken out of the set before it is added. *)
RedisPollAddLast(p, m) ==
    /\ up[p] # "down"
    /\ m \in poll[p].todo
    /\ poll[p].moving = {}
    /\ delayedSet' = delayedSet \ {m}
    /\ poll' = [poll EXCEPT ![p] = [todo |-> @.todo \ {m}, moving |-> {m}]]
    /\ UNCHANGED <<added, fresh, pending, batch, runs, processVars, trafficVars>>

(* ... XADD ... *)
RedisPollAdd(p, m) ==
    /\ up[p] # "down"
    /\ m \in poll[p].todo
    /\ poll[p].moving = {}
    /\ AddToStream(m)
    /\ poll' = [poll EXCEPT ![p] = [todo |-> @.todo \ {m}, moving |-> {m}]]
    /\ UNCHANGED <<delayedSet, pending, batch, runs, processVars, trafficVars>>

(* ... and ZREM. *)
RedisPollRemove(p, m) ==
    /\ up[p] # "down"
    /\ m \in poll[p].moving
    /\ delayedSet' = delayedSet \ {m}
    /\ poll' = [poll EXCEPT ![p].moving = {}]
    /\ UNCHANGED <<added, fresh, pending, batch, runs, processVars, trafficVars>>

(* After stop addToStream does nothing and zrem throws into the catch. *)
RedisPollEnds(p) ==
    /\ up[p] = "down"
    /\ poll[p] # NoPoll
    /\ poll' = [poll EXCEPT ![p] = NoPoll]
    /\ UNCHANGED <<batch, runs, processVars, keyVars, trafficVars>>

-----------------------------------------------------------------------------
(* The read loop and the claims. *)

(* XREADGROUP on the captured streams, when the last batch is done.  A read that
   stop finds blocked may still return a batch, the last one. *)
RedisRead(p) ==
    /\ up[p] # "down"
    /\ streams[p] # NoStreams
    /\ ~ LoopBusy(p)
    /\ \E some \in SUBSET {x \in fresh : Stream(x) \in streams[p]} \ {{}} :
          /\ fresh' = fresh \ some
          /\ pending' = pending \cup some
          /\ batch' = [batch EXCEPT ![p] = some]
    /\ streams' = IF up[p] = "up" THEN streams ELSE [streams EXCEPT ![p] = NoStreams]
    /\ UNCHANGED <<added, delayedSet, runs, poll, up, subscribed, trafficVars>>

Begin(p, x, via) ==
    runs' = [runs EXCEPT ![p] = @ \cup {[entry |-> x, via |-> via, stage |-> "handling"]}]

(* One message after another, whatever the concurrency that was asked for. *)
RedisReadLoop(p, x) ==
    /\ x \in batch[p]
    /\ \A r \in runs[p] : r.via # "loop"
    /\ batch' = [batch EXCEPT ![p] = @ \ {x}]
    /\ Begin(p, x, "loop")
    /\ Receive(Msg(x), Stream(x))
    /\ UNCHANGED <<poll, processVars, keyVars>>

Claims(p, x) ==
    /\ up[p] # "down"
    /\ x \in pending
    /\ Stream(x) \in subscribed[p]

AtWork(x) == \E p \in Processes : x \in batch[p] \/ \E r \in runs[p] : r.entry = x

(* An entry pending for minIdleTimeMs is claimed by whoever finds it ... *)
RedisClaim(p, x) ==
    /\ Claims(p, x)
    /\ ~ AtWork(x)
    /\ Begin(p, x, "claim")
    /\ Receive(Msg(x), Stream(x))
    /\ UNCHANGED <<batch, poll, processVars, keyVars>>

(* ... also when it waits its turn in a batch, or its handler takes its time: to
   be pending is not to be abandoned. *)
RedisClaimEarly(p, x) ==
    /\ Claims(p, x)
    /\ AtWork(x)
    /\ faults < MaxFaults(transport)
    /\ Begin(p, x, "claim")
    /\ received' = received \cup {<<Msg(x), Stream(x)>>}
    /\ faults' = faults + 1
    /\ UNCHANGED <<sent, elapsed, handled, dropped, batch, poll, processVars, keyVars>>

RedisHandlerOk(p, r) ==
    /\ r \in runs[p]
    /\ r.stage = "handling"
    /\ Handle(Msg(r.entry))
    /\ runs' = [runs EXCEPT ![p] = (@ \ {r}) \cup {[r EXCEPT !.stage = "acking"]}]
    /\ UNCHANGED <<batch, poll, processVars, keyVars>>

(* Mutant: a message is acknowledged whether or not its handler threw. *)
RedisHandlerThrowsAcked(p, r) ==
    /\ r \in runs[p]
    /\ r.stage = "handling"
    /\ Fault({})
    /\ runs' = [runs EXCEPT ![p] = @ \ {r}]
    /\ pending' = pending \ {r.entry}
    /\ UNCHANGED <<batch, poll, added, delayedSet, fresh, processVars>>

(* The entry stays pending, for a claim to find. *)
RedisHandlerThrows(p, r) ==
    /\ r \in runs[p]
    /\ r.stage = "handling"
    /\ Fault({})
    /\ runs' = [runs EXCEPT ![p] = @ \ {r}]
    /\ UNCHANGED <<batch, poll, processVars, keyVars>>

(* XACK; once stop has let go of the connection the message is left pending. *)
RedisAcknowledge(p, r) ==
    /\ r \in runs[p]
    /\ r.stage = "acking"
    /\ runs' = [runs EXCEPT ![p] = @ \ {r}]
    /\ pending' = IF up[p] = "down" THEN pending ELSE pending \ {r.entry}
    /\ UNCHANGED <<batch, poll, added, delayedSet, fresh, processVars, trafficVars>>

-----------------------------------------------------------------------------

(* What the timers, the read loop and the handlers go on to do by themselves. *)
RedisWork(p) ==
    \/ RedisStopped(p)
    \/ RedisPoll(p)
    \/ \E m \in Messages : RedisPollAdd(p, m) \/ RedisPollRemove(p, m)
    \/ RedisPollEnds(p)
    \/ RedisRead(p)
    \/ \E x \in Entries : RedisReadLoop(p, x) \/ (up[p] = "up" /\ RedisClaim(p, x))
    \/ \E r \in runs[p] : RedisHandlerOk(p, r) \/ RedisAcknowledge(p, r)

RedisNext ==
    \/ \E p \in Processes :
          \/ RedisStart(p) \/ RedisStop(p) \/ RedisCrash(p)
          \/ \E e \in Endpoints : RedisSubscribe(p, e)
          \/ RedisWork(p)
          \/ \E x \in Entries : RedisClaim(p, x) \/ RedisClaimEarly(p, x)
          \/ \E r \in runs[p] : RedisHandlerThrows(p, r)
    \/ \E m \in Messages : RedisPublish(m)

-----------------------------------------------------------------------------

(* Where Redis still has a message. *)
RedisHolds(m) ==
    m \in delayedSet \/ \E x \in fresh \cup pending : Msg(x) = m

(* Some running process has the endpoint's stream in its read loop.  The bus
   starts a transport before it subscribes, so of the endpoints of a bus only the
   first is. *)
RedisReads(e) == \E p \in Processes : up[p] = "up" /\ streams[p] # NoStreams /\ e \in streams[p]
=============================================================================
