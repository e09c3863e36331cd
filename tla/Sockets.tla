------------------------------ MODULE Sockets -------------------------------
(***************************************************************************)
(* The registry of live WebSockets of one process: ConnectionManager and   *)
(* the two endpoints that feed it.  A handler or a fan-out runs until its  *)
(* next await; in between, others change the dicts under it.               *)
(*                                                                         *)
(* A bucket is a Python list that outlives its dict entry as long as a     *)
(* fan-out refers to it, so buckets have identities here: registry maps a  *)
(* key to the index of its list in buckets, or to NoBucket.                *)
(***************************************************************************)
EXTENDS Integers, FiniteSets, SequencesExt

CONSTANTS
  Clients,     \* WebSocket objects; one that comes back is another one
  NoKey, NoClient,
  Lots,        \* keys of active_connections
  Users,       \* keys of user_connections
  IPs,
  MaxPerIp,    \* MAX_AUCTION_WS_PER_IP
  Senders      \* concurrent broadcasts and notifications

Keys == Lots \cup Users
NoBucket == 0

ASSUME KeysAssumption == NoKey \notin Keys /\ Lots \cap Users = {}
ASSUME ClientsAssumption == NoClient \notin Clients /\ IsFiniteSet(Clients)
ASSUME CapAssumption == MaxPerIp \in Nat \ {0}

VARIABLES
  phase,       \* of a socket: "new" | "accepting" | "open" | "closing" |
               \*   "closed" | "failed", the last if its accept raised
  key, ip,     \* what it connected to, and from where
  healthy,     \* its peer takes what is sent within the deadline
  held,        \* _auction_ws_per_ip
  registry,    \* both dicts
  buckets,     \* the lists they have had so far
  fan,         \* fan-outs under way
  heard        \* history: senders whose last message reached the socket

sockets == <<phase, key, ip, healthy, held>>
lists == <<registry, buckets>>
vars == <<sockets, lists, fan, heard>>

(* A fan-out iterates over a copy of its bucket; it is sending to target,  *)
(* the one at position at.                                                 *)
IdleFan == [key |-> NoKey, bucket |-> NoBucket, snapshot |-> <<>>,
            at |-> 0, target |-> NoClient, dead |-> {}]

Sending(p) == fan[p].key # NoKey

(* The list the dict has for a key, empty if it has none.                  *)
Listeners(k) == IF registry[k] = NoBucket THEN <<>> ELSE buckets[registry[k]]

-----------------------------------------------------------------------------
Init ==
  /\ phase = [c \in Clients |-> "new"]
  /\ key = [c \in Clients |-> NoKey]
  /\ ip \in [Clients -> IPs]
  /\ healthy = [c \in Clients |-> TRUE]
  /\ held = [i \in IPs |-> 0]
  /\ registry = [k \in Keys |-> NoBucket]
  /\ buckets = <<>>
  /\ fan = [p \in Senders |-> IdleFan]
  /\ heard = [c \in Clients |-> {}]

-----------------------------------------------------------------------------
(* Handlers.                                                               *)

InHandler(c) == phase[c] \in {"accepting", "open", "closing"}

(* The cap is read and the slot taken without an await in between.         *)
HasSlot(i) == held[i] < MaxPerIp

Connect(c, k) ==
  /\ phase[c] = "new"
  /\ k \in Lots => HasSlot(ip[c])
  /\ phase' = [phase EXCEPT ![c] = "accepting"]
  /\ key' = [key EXCEPT ![c] = k]
  /\ held' = IF k \in Lots THEN [held EXCEPT ![ip[c]] = @ + 1] ELSE held
  /\ UNCHANGED <<ip, healthy, lists, fan, heard>>

(* connect, connect_user: accept is awaited, then the socket is appended   *)
(* to its key's list, a new one if the key has none.                       *)
Accept(c) ==
  LET b == registry[key[c]]
  IN  /\ phase[c] = "accepting"
      /\ phase' = [phase EXCEPT ![c] = "open"]
      /\ IF b = NoBucket
         THEN /\ buckets' = Append(buckets, <<c>>)
              /\ registry' = [registry EXCEPT ![key[c]] = Len(buckets) + 1]
         ELSE /\ buckets' = [buckets EXCEPT ![b] = Append(@, c)]
              /\ UNCHANGED registry
      /\ UNCHANGED <<key, ip, healthy, held, fan, heard>>

(* accept raises, or the handshake is cancelled in it: the endpoint has    *)
(* taken the slot, but not yet entered the try whose finally returns it.   *)
AcceptFails(c) ==
  /\ phase[c] = "accepting"
  /\ phase' = [phase EXCEPT ![c] = "failed"]
  /\ UNCHANGED <<key, ip, healthy, held, lists, fan, heard>>

(* The endpoint returns: a socket of a lot gives its slot back.            *)
SlotsAfterPop(c) ==                                              \* mutant
  IF key[c] \in Lots THEN [held EXCEPT ![ip[c]] = 0] ELSE held
SlotsAfter(c) ==
  IF key[c] \in Lots THEN [held EXCEPT ![ip[c]] = @ - 1] ELSE held

Return(c) ==
  /\ phase' = [phase EXCEPT ![c] = "closed"]
  /\ held' = SlotsAfter(c)
  /\ UNCHANGED <<key, ip, healthy>>

(* The list s without the sockets in S.                                    *)
Kept(s, S) ==
  LET kept[i \in 0 .. Len(s)] ==
        IF i = 0 THEN <<>>
        ELSE IF s[i] \in S THEN kept[i - 1] ELSE Append(kept[i - 1], s[i])
  IN  kept[Len(s)]

(* A list without these sockets; the key goes when the list it has (or     *)
(* had: the code does not look) is empty.                                  *)
Without(b, S) == Kept(buckets[b], S)

EmptyAlways(list) == TRUE                                        \* mutant
EmptyNever(list) == FALSE                                        \* mutant
Empty(list) == list = <<>>

Drop(b, k, S) ==
  /\ buckets' = [buckets EXCEPT ![b] = Without(b, S)]
  /\ registry' = IF Empty(Without(b, S)) THEN [registry EXCEPT ![k] = NoBucket] ELSE registry

(* disconnect, disconnect_user: off the list its key has now.              *)
Unregistered(c) ==
  IF Listeners(key[c]) = <<>>
  THEN UNCHANGED lists
  ELSE Drop(registry[key[c]], key[c], {c})

(* The peer or the server has closed it, or anything raised in the loop.   *)
Disconnect(c) ==
  /\ phase[c] \in {"open", "closing"}
  /\ Return(c)
  /\ Unregistered(c)
  /\ UNCHANGED <<fan, heard>>

(* _invalidate_user_sessions closes the sockets it found under the user,   *)
(* one await after another: some may be off the list by their turn.        *)
CloseByRotation(c) ==
  /\ phase[c] = "open" /\ key[c] \in Users
  /\ phase' = [phase EXCEPT ![c] = "closing"]
  /\ UNCHANGED <<key, ip, healthy, held, lists, fan, heard>>

(* ... and takes them off, whether or not their handlers have noticed.     *)
UnregisterByRotation(c) ==
  /\ phase[c] = "closing"
  /\ Unregistered(c)
  /\ UNCHANGED <<sockets, fan, heard>>

(* A silent peer whose ping fails: the loop ends by break, which leaves    *)
(* the socket registered until a fan-out finds it dead.                    *)
PingFails(c) ==
  /\ phase[c] = "open"
  /\ ~ healthy[c]
  /\ Return(c)
  /\ UNCHANGED <<lists, fan, heard>>

(* The peer vanishes, or becomes slower than _SEND_TIMEOUT_SECS.           *)
Stall(c) ==
  /\ InHandler(c) /\ healthy[c]
  /\ healthy' = [healthy EXCEPT ![c] = FALSE]
  /\ UNCHANGED <<phase, key, ip, held, lists, fan, heard>>

-----------------------------------------------------------------------------
(* _fan_out.                                                               *)

Begin(p, k) ==
  /\ ~ Sending(p)
  /\ Listeners(k) # <<>>
  /\ fan' = [fan EXCEPT ![p] = [key |-> k, bucket |-> registry[k],
               snapshot |-> Listeners(k), at |-> 1,
               target |-> Head(Listeners(k)), dead |-> {}]]
  /\ heard' = [c \in Clients |-> heard[c] \ {p}]
  /\ UNCHANGED <<sockets, lists>>

IteratedLive(p) == buckets[fan[p].bucket]                        \* mutant
Iterated(p) == fan[p].snapshot

(* The await of one send is over; after the last one the dead sockets are  *)
(* pruned before anything else runs.                                       *)
Advance(p, dead) ==
  IF fan[p].at < Len(Iterated(p))
  THEN /\ fan' = [fan EXCEPT ![p].at = @ + 1, ![p].dead = dead,
                             ![p].target = Iterated(p)[fan[p].at + 1]]
       /\ UNCHANGED lists
  ELSE /\ fan' = [fan EXCEPT ![p] = IdleFan]
       /\ Drop(fan[p].bucket, fan[p].key, dead)

(* A peer that is not healthy may still take it; one that is being closed, *)
(* or whose handler has returned, never does.                              *)
Delivered(p) ==
  /\ Sending(p)
  /\ phase[fan[p].target] = "open"
  /\ heard' = [heard EXCEPT ![fan[p].target] = @ \cup {p}]
  /\ Advance(p, fan[p].dead)
  /\ UNCHANGED sockets

Undelivered(p) ==
  /\ Sending(p)
  /\ phase[fan[p].target] \in {"closing", "closed"} \/ ~ healthy[fan[p].target]
  /\ Advance(p, fan[p].dead \cup {fan[p].target})
  /\ UNCHANGED <<sockets, heard>>

-----------------------------------------------------------------------------
Next ==
  \/ \E c \in Clients, k \in Keys : Connect(c, k)
  \/ \E c \in Clients : Accept(c) \/ AcceptFails(c) \/ Disconnect(c) \/ PingFails(c) \/ Stall(c)
  \/ \E c \in Clients : CloseByRotation(c) \/ UnregisterByRotation(c)
  \/ \E p \in Senders, k \in Keys : Begin(p, k)
  \/ \E p \in Senders : Delivered(p) \/ Undelivered(p)

Spec == Init /\ [][Next]_vars

-----------------------------------------------------------------------------
(* Properties.                                                             *)

(* The dicts do not fill up with keys nobody listens to: an entry goes     *)
(* with its last socket, removed by its handler or by any fan-out.         *)
NoEmptyBuckets == \A k \in Keys : registry[k] # NoBucket => buckets[registry[k]] # <<>>

(* The types, and that every entry of the dicts is about somebody.         *)
TypeOK ==
  /\ phase \in [Clients -> {"new", "accepting", "open", "closing", "closed", "failed"}]
  /\ key \in [Clients -> Keys \cup {NoKey}]
  /\ ip \in [Clients -> IPs]
  /\ healthy \in [Clients -> BOOLEAN]
  /\ held \in [IPs -> 0 .. MaxPerIp]
  /\ registry \in [Keys -> 0 .. Len(buckets)]
  /\ buckets \in Seq(Seq(Clients))
  /\ fan \in [Senders -> [key : Keys \cup {NoKey}, bucket : 0 .. Len(buckets),
                          snapshot : Seq(Clients), at : 0 .. Cardinality(Clients),
                          target : Clients \cup {NoClient}, dead : SUBSET Clients]]
  /\ heard \in [Clients -> SUBSET Senders]
  /\ NoEmptyBuckets

Registered(c) == key[c] # NoKey /\ c \in ToSet(Listeners(key[c]))

(* The sockets of an address inside the endpoint of a lot, and those whose *)
(* accept failed there.                                                    *)
Holders(i) ==
  {c \in Clients : (InHandler(c) \/ phase[c] = "failed") /\ key[c] \in Lots /\ ip[c] = i}

(* The slots an address holds are its sockets inside the endpoint of a     *)
(* lot, whichever way each of them got out of its loop, and for good those *)
(* whose accept failed: nothing else leaks, and none is returned twice.    *)
SlotsMatchSockets == \A i \in IPs : held[i] = Cardinality(Holders(i))

(* The comment on the endpoint's finally: the slot is always released, so  *)
(* an address holds no slot without a socket inside the endpoint.          *)
SlotsAlwaysReleased ==
  \A i \in IPs : held[i] = Cardinality({c \in Holders(i) : InHandler(c)})

(* A fan-out reaches every socket it began with that is still there and    *)
(* well at its end, whoever disconnects or is pruned while it waits.       *)
EveryoneHears ==
  [][\A p \in Senders : Sending(p) /\ ~ Sending(p)' =>
        \A c \in ToSet(fan[p].snapshot) :
          phase[c] = "open" /\ healthy[c] => p \in heard'[c]]_vars

(* A socket that is open and well keeps its registration.  Only one thing  *)
(* takes it away: a fan-out that began with an earlier list of the key,    *)
(* emptied since, pops the key although a new list is there now.           *)
LostOnlyToOldFanOut ==
  [][\A c \in Clients :
        phase[c] = "open" /\ healthy[c] /\ Registered(c) /\ phase'[c] = "open"
        => \/ Registered(c)'
           \/ \E p \in Senders : /\ fan[p].key = key[c] /\ ~ Sending(p)'
                                 /\ fan[p].bucket < registry[key[c]]]_vars
=============================================================================
