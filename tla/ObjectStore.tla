----------------------------- MODULE ObjectStore -----------------------------
(***************************************************************************)
(* Clients that set and get objects of one stripe: the coordinator's       *)
(* metadata, written by its four RPC threads, and at each proxy the        *)
(* detached threads of start_encode_and_store_object, which all accept     *)
(* their client on the proxy's one acceptor.                               *)
(***************************************************************************)
EXTENDS Naturals, Sequences, FiniteSets

CONSTANTS
    Clients, Keys, Proxies,
    MaySet,      \* per client, the keys it may set
    MaxCrashes,  \* bound: clients that die during a set
    None

NumSets == Cardinality({ck \in Clients \X Keys : ck[2] \in MaySet[ck[1]]})

\* Bound: every client sets a key once, so no more ids are taken.
StripeIds == 0 .. NumSets - 1

Values == Clients \X Keys

ASSUME StoreAssumption ==
    /\ IsFiniteSet(Clients) /\ IsFiniteSet(Keys)
    /\ MaySet \in [Clients -> SUBSET Keys]
    /\ MaxCrashes \in Nat
    /\ None \notin Clients \cup Keys \cup Proxies \cup StripeIds
    /\ \A v \in Values : {v} # None

VARIABLES
    commited,        \* commited_object_info_: per key, the object's stripe
    waiting,         \* objects_waiting_commit_, likewise
    next_stripe_id,  \* next_stripe_id_
    down,            \* a my_assert has ended the coordinator
    client,          \* per client, where it is in Client::set or Client::get
    tried,           \* per client, the keys it has begun to set
    mine,            \* per client, the keys it has set
    threads,         \* per proxy, the threads of start_encode_and_store_object
    backlog,         \* per proxy, the connections not accepted yet
    dead,            \* the proxies that an exception in a thread has ended
    stored,          \* per stripe, the values its blocks were encoded from
    got,             \* per client, what its last get returned
    crashes          \* clients that have died

coordinator == <<commited, waiting, next_stripe_id, down>>
proxy       == <<threads, backlog, dead, stored>>
vars == <<coordinator, client, tried, mine, proxy, got, crashes>>

Idle == [pc |-> "idle", key |-> None, stripe |-> None, proxy |-> None]

ClientState ==
    [pc : {"idle", "checked", "taking", "planned", "registered", "told",
           "connected", "acked", "getting", "hung"},
     key : Keys \cup {None}, stripe : StripeIds \cup {None},
     proxy : Proxies \cup {None}]

\* The client whose placement a thread was started with, and the client it has
\* accepted.
Thread == [for : Clients, key : Keys, stripe : StripeIds, peer : Clients \cup {None},
           pc : {"accept", "read", "stored"}]

TypeOK ==
    /\ commited \in [Keys -> StripeIds \cup {None}]
    /\ waiting \in [Keys -> StripeIds \cup {None}]
    /\ next_stripe_id \in 0 .. NumSets
    /\ down \in BOOLEAN
    /\ client \in [Clients -> ClientState]
    /\ tried \in [Clients -> SUBSET Keys]
    /\ mine \in [Clients -> SUBSET Keys]
    /\ threads \in [Proxies -> SUBSET Thread]
    /\ backlog \in [Proxies -> Seq(Clients)]
    /\ dead \subseteq Proxies
    /\ stored \in [StripeIds -> SUBSET Values]
    /\ got \in [Clients -> (Keys \X SUBSET Values) \cup {None}]
    /\ crashes \in 0 .. MaxCrashes

Init ==
    /\ commited = [k \in Keys |-> None]
    /\ waiting = [k \in Keys |-> None]
    /\ next_stripe_id = 0
    /\ down = FALSE
    /\ client = [c \in Clients |-> Idle]
    /\ tried = [c \in Clients |-> {}]
    /\ mine = [c \in Clients |-> {}]
    /\ threads = [p \in Proxies |-> {}]
    /\ backlog = [p \in Proxies |-> <<>>]
    /\ dead = {}
    /\ stored = [s \in StripeIds |-> {}]
    /\ got = [c \in Clients |-> None]
    /\ crashes = 0

-----------------------------------------------------------------------------
\* Coordinator::get_proxy_location, run by the RPC thread serving client c.

\* The key is looked up under the mutex, which is released at once.
CheckKey(c, k) ==
    /\ ~down
    /\ client[c].pc = "idle"
    /\ k \in MaySet[c] \ tried[c]
    /\ tried' = [tried EXCEPT ![c] = @ \cup {k}]
    /\ IF commited[k] # None
       THEN down' = TRUE /\ client' = client
       ELSE /\ client' = [client EXCEPT ![c].pc = "checked", ![c].key = k]
            /\ down' = down
    /\ UNCHANGED <<commited, waiting, next_stripe_id, mine, proxy, got,
                   crashes>>

\* new_stripe_item: next_stripe_id_++ without the mutex is a load ...
LoadStripeId(c) ==
    /\ ~down
    /\ client[c].pc = "checked"
    /\ client' = [client EXCEPT ![c].pc = "taking",
                                ![c].stripe = next_stripe_id]
    /\ UNCHANGED <<coordinator, tried, mine, proxy, got, crashes>>

\* Mutant: two ids are taken.
StoreNextButOne(c) ==
    /\ ~down
    /\ client[c].pc = "taking"
    /\ next_stripe_id' = client[c].stripe + 2
    /\ client' = [client EXCEPT ![c].pc = "planned"]
    /\ UNCHANGED <<commited, waiting, down, tried, mine, proxy, got, crashes>>

\* ... and a store.  The placement of the blocks is left to Placement.
StoreStripeId(c) ==
    /\ ~down
    /\ client[c].pc = "taking"
    /\ next_stripe_id' = client[c].stripe + 1
    /\ client' = [client EXCEPT ![c].pc = "planned"]
    /\ UNCHANGED <<commited, waiting, down, tried, mine, proxy, got, crashes>>

\* Mutant: the object is not recorded as waiting for its commit.
RegisterNothing(c) ==
    /\ ~down
    /\ client[c].pc = "planned"
    /\ client' = [client EXCEPT ![c].pc = "registered"]
    /\ UNCHANGED <<coordinator, tried, mine, proxy, got, crashes>>

RegisterObject(c) ==
    /\ ~down
    /\ client[c].pc = "planned"
    /\ waiting' = [waiting EXCEPT ![client[c].key] = client[c].stripe]
    /\ client' = [client EXCEPT ![c].pc = "registered"]
    /\ UNCHANGED <<commited, next_stripe_id, down, tried, mine, proxy, got,
                   crashes>>

\* Mutant: the call is lost, and the client is told the proxy all the same.
StartNothing(c, p) ==
    /\ ~down
    /\ client[c].pc = "registered"
    /\ client' = [client EXCEPT ![c].pc = "told", ![c].proxy = p]
    /\ UNCHANGED <<coordinator, tried, mine, proxy, got, crashes>>

\* The call of start_encode_and_store_object at a random proxy returns when
\* the thread is started; whether it failed is not looked at, and the client
\* is told the proxy.
StartEncode(c, p) ==
    /\ ~down
    /\ client[c].pc = "registered"
    /\ threads' = IF p \in dead THEN threads ELSE
          [threads EXCEPT ![p] = @ \cup
              {[for |-> c, key |-> client[c].key, stripe |-> client[c].stripe,
                peer |-> None, pc |-> "accept"]}]
    /\ client' = [client EXCEPT ![c].pc = "told", ![c].proxy = p]
    /\ UNCHANGED <<coordinator, tried, mine, backlog, dead, stored, got,
                   crashes>>

-----------------------------------------------------------------------------
\* Client::set after the call, and commit_object.

\* The client connects and sends the key and its value; it dies of an
\* exception, and another is started, if the proxy is no longer there.
Connect(c) ==
    /\ client[c].pc = "told"
    /\ IF client[c].proxy \in dead
       THEN /\ client' = [client EXCEPT ![c] = Idle]
            /\ backlog' = backlog
       ELSE /\ client' = [client EXCEPT ![c].pc = "connected"]
            /\ backlog' = [backlog EXCEPT ![client[c].proxy] = Append(@, c)]
    /\ UNCHANGED <<coordinator, tried, mine, threads, dead, stored, got,
                   crashes>>

\* The client has read the finish byte and calls commit_object.
CommitObject(c) ==
    LET k == client[c].key
    IN  /\ ~down
        /\ client[c].pc = "acked"
        /\ IF commited[k] = None /\ waiting[k] # None
           THEN /\ commited' = [commited EXCEPT ![k] = waiting[k]]
                /\ waiting' = [waiting EXCEPT ![k] = None]
                /\ client' = [client EXCEPT ![c] = Idle]
                /\ mine' = [mine EXCEPT ![c] = @ \cup {k}]
                /\ down' = down
           ELSE /\ down' = TRUE
                /\ UNCHANGED <<commited, waiting, client, mine>>
        /\ UNCHANGED <<next_stripe_id, tried, proxy, got, crashes>>

\* A client dies before it connects or before it commits; another is started.
ClientDies(c) ==
    /\ crashes < MaxCrashes
    /\ client[c].pc \in {"told", "acked"}
    /\ crashes' = crashes + 1
    /\ client' = [client EXCEPT ![c] = Idle]
    /\ UNCHANGED <<coordinator, tried, mine, proxy, got>>

-----------------------------------------------------------------------------
\* A thread of Proxy::start_encode_and_store_object at proxy p.

Advance(p, t, new) == threads' = [threads EXCEPT ![p] = (@ \ {t}) \cup {new}]

\* Mutant: two threads may be given the same connection.
AcceptAndLeave(p, t) ==
    /\ t.pc = "accept"
    /\ backlog[p] # <<>>
    /\ Advance(p, t, [t EXCEPT !.pc = "read", !.peer = Head(backlog[p])])
    /\ UNCHANGED <<coordinator, client, tried, mine, backlog, dead, stored,
                   got, crashes>>

\* accept gives the thread the first connection, whoever made it; the key that
\* comes on it is read into key_buf and compared with nothing.
Accept(p, t) ==
    /\ t.pc = "accept"
    /\ backlog[p] # <<>>
    /\ Advance(p, t, [t EXCEPT !.pc = "read", !.peer = Head(backlog[p])])
    /\ backlog' = [backlog EXCEPT ![p] = Tail(@)]
    /\ UNCHANGED <<coordinator, client, tried, mine, dead, stored, got,
                   crashes>>

\* The value that came is encoded and its blocks are written under the ids of
\* the thread's own stripe.
StoreBlocks(p, t) ==
    /\ t.pc = "read"
    /\ stored' = [stored EXCEPT ![t.stripe] =
                     @ \cup {<<t.peer, client[t.peer].key>>}]
    /\ Advance(p, t, [t EXCEPT !.pc = "stored"])
    /\ UNCHANGED <<coordinator, client, tried, mine, backlog, dead, got,
                   crashes>>

\* Mutant: the finish byte is sent before the blocks are written.
SendFinishEarly(p, t) ==
    /\ t.pc = "read"
    /\ client' = [client EXCEPT ![t.peer].pc = "acked"]
    /\ threads' = [threads EXCEPT ![p] = @ \ {t}]
    /\ UNCHANGED <<coordinator, tried, mine, backlog, dead, stored, got,
                   crashes>>

\* The finish byte goes to the client accepted, and the thread ends.
SendFinish(p, t) ==
    /\ t.pc = "stored"
    /\ client' = [client EXCEPT ![t.peer].pc = "acked"]
    /\ threads' = [threads EXCEPT ![p] = @ \ {t}]
    /\ UNCHANGED <<coordinator, tried, mine, backlog, dead, stored, got,
                   crashes>>

-----------------------------------------------------------------------------
\* Client::get of a key the client has set.

\* ask_for_data under the mutex, and the call of a random proxy.  The client
\* then waits for a connection, for ever if that proxy is gone.
AskForData(c, k, p) ==
    /\ ~down
    /\ client[c].pc = "idle"
    /\ k \in mine[c]
    /\ client' = [client EXCEPT ![c] =
          [pc |-> IF p \in dead THEN "hung" ELSE "getting",
           key |-> k, stripe |-> commited[k], proxy |-> p]]
    /\ UNCHANGED <<coordinator, tried, mine, proxy, got, crashes>>

\* ConcurrentRead's delivery of what is stored under the stripe's block ids.
Deliver(c) ==
    /\ client[c].pc = "getting"
    /\ stored[client[c].stripe] # {}
    /\ got' = [got EXCEPT ![c] = <<client[c].key, stored[client[c].stripe]>>]
    /\ client' = [client EXCEPT ![c] = Idle]
    /\ UNCHANGED <<coordinator, tried, mine, proxy, crashes>>

\* An exception that a thread of proxy p does not catch ends the process: who
\* is connected to it dies, who waits for its connection waits for ever.
ProxyEnds(p) ==
    /\ dead' = dead \cup {p}
    /\ threads' = [threads EXCEPT ![p] = {}]
    /\ backlog' = [backlog EXCEPT ![p] = <<>>]

WithoutProxy(p) ==
    [c \in Clients |->
        CASE client[c].proxy = p /\ client[c].pc = "connected" -> Idle
          [] client[c].proxy = p /\ client[c].pc = "getting"
               -> [client[c] EXCEPT !.pc = "hung"]
          [] OTHER -> client[c]]

\* A node answers nothing for a block it does not have, and the read throws.
ReadFails(c) ==
    /\ client[c].pc = "getting"
    /\ stored[client[c].stripe] = {}
    /\ ProxyEnds(client[c].proxy)
    /\ client' = WithoutProxy(client[c].proxy)
    /\ UNCHANGED <<coordinator, tried, mine, stored, got, crashes>>

\* The proxy sends the whole stripe; a client that has its value_len bytes
\* closes, and the write of the padding may then throw.
DeliverAndFail(c) ==
    /\ client[c].pc = "getting"
    /\ stored[client[c].stripe] # {}
    /\ got' = [got EXCEPT ![c] = <<client[c].key, stored[client[c].stripe]>>]
    /\ ProxyEnds(client[c].proxy)
    /\ client' = [WithoutProxy(client[c].proxy) EXCEPT ![c] = Idle]
    /\ UNCHANGED <<coordinator, tried, mine, stored, crashes>>

-----------------------------------------------------------------------------
Finished ==
    /\ \/ down
       \/ \A c \in Clients : \/ client[c].pc = "idle" /\ MaySet[c] = tried[c]
                             \/ client[c].pc = "hung"
    /\ UNCHANGED vars

HandlerStep(c) ==
    \/ LoadStripeId(c)
    \/ StoreStripeId(c)
    \/ RegisterObject(c)
    \/ \E p \in Proxies : StartEncode(c, p)

ClientStep(c) ==
    \/ Connect(c)
    \/ CommitObject(c)
    \/ Deliver(c)
    \/ DeliverAndFail(c)
    \/ ReadFails(c)

ThreadStep(p) ==
    \E t \in threads[p] : Accept(p, t) \/ StoreBlocks(p, t) \/ SendFinish(p, t)

Next ==
    \/ \E c \in Clients :
          \/ \E k \in Keys : CheckKey(c, k)
          \/ \E k \in Keys, p \in Proxies : AskForData(c, k, p)
          \/ HandlerStep(c)
          \/ ClientStep(c)
          \/ ClientDies(c)
    \/ \E p \in Proxies : ThreadStep(p)
    \/ Finished

\* RPC threads, clients in the middle of a call and proxies keep running.
Fairness ==
    /\ \A c \in Clients : WF_vars(HandlerStep(c)) /\ WF_vars(ClientStep(c))
    /\ \A p \in Proxies : WF_vars(ThreadStep(p))

Spec == Init /\ [][Next]_vars

FairSpec == Spec /\ Fairness

-----------------------------------------------------------------------------
\* While sets do not overlap, as with one client, sets and gets behave as the
\* puts and reads of a write-once map that take effect at the commit and at the
\* delivery.
KV == INSTANCE KVStore WITH
    NoValue <- None,
    kv <- [k \in Keys |-> IF commited[k] = None THEN None
                          ELSE stored[commited[k]]],
    reply <- got

WriteOnceMap == KV!Spec

\* run_client.cpp: my_assert(stored_value == kv.second), the value a client
\* gets for a key is the one it has set.
GetReturnsSet ==
    \A c \in Clients : got[c] # None => got[c][2] = {<<c, got[c][1]>>}

\* A value whose set was acknowledged is on the datanodes, under some stripe,
\* whichever thread took it and whatever other clients do or crash.
AckedIsStored ==
    \A c \in Clients : client[c].pc = "acked" =>
        \E s \in StripeIds : <<c, client[c].key>> \in stored[s]

\* commit_object's assertion never fails.
CommitAssertHolds ==
    \A c \in Clients : client[c].pc = "acked" /\ ~down =>
        commited[client[c].key] = None /\ waiting[client[c].key] # None

\* Threads may take each other's connections but each proxy has one for every
\* connection, so a connected client is acknowledged unless the proxy ends.
ConnectedIsAcked ==
    \A c \in Clients : client[c].pc = "connected" ~> client[c].pc # "connected"

\* No value is stored twice: crossed sets swap their values, no more.
StoredOnce ==
    \A v \in Values : Cardinality({s \in StripeIds : v \in stored[s]}) <= 1
=============================================================================
