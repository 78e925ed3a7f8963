--------------------------- MODULE ObjectStoreProofs ---------------------------
(***************************************************************************)
(* Acknowledged values are stored, once, for any clients, keys, proxies    *)
(* and crashes; the assertion of commit_object holds when clients have     *)
(* keys of their own; and as long as sets do not overlap and no client     *)
(* dies in one, the store is the map of KVStore.                           *)
(***************************************************************************)
EXTENDS ObjectStore, FiniteSetTheorems, SequenceTheorems, TLAPS

\* The parts of the inductive invariant.  Where a client is in a set or a get
\* says what it knows.
Setting == {"checked", "taking", "planned", "registered", "told", "connected",
            "acked"}

ClientsOK ==
    \A c \in Clients :
        /\ tried[c] \subseteq MaySet[c]
        /\ client[c].pc \in Setting => client[c].key \in tried[c]
        /\ client[c].pc \in Setting \ {"checked"} => client[c].stripe \in StripeIds
        /\ client[c].pc = "getting" => /\ client[c].stripe \in StripeIds
                                       /\ client[c].key \in Keys
        /\ client[c].pc \in {"told", "connected", "acked", "getting"}
               => client[c].proxy \in Proxies
        /\ \A k \in mine[c] : commited[k] # None

\* An id is taken for a set that is past new_stripe_item.
Numbered ==
    {ck \in Clients \X Keys :
        /\ ck[2] \in tried[ck[1]]
        /\ ~(client[ck[1]].pc \in {"checked", "taking"} /\ client[ck[1]].key = ck[2])}

IdsOK ==
    /\ next_stripe_id <= Cardinality(Numbered)
    /\ \A c \in Clients :
          client[c].pc = "taking" => client[c].stripe <= Cardinality(Numbered)

\* Every connection is waiting at its proxy or was accepted by one thread.
ConnectedTo(c, p) == client[c].pc = "connected" /\ client[c].proxy = p

ThreadsOK(p) ==
    /\ \A t \in threads[p] : t.pc # "accept" =>
          t.peer \in Clients /\ ConnectedTo(t.peer, p)
    /\ \A t, u \in threads[p] :
          t.pc # "accept" /\ u.pc # "accept" /\ t.peer = u.peer => t = u

BacklogOK(p) ==
    \A i \in 1 .. Len(backlog[p]) :
        /\ ConnectedTo(backlog[p][i], p)
        /\ \A j \in 1 .. Len(backlog[p]) : backlog[p][i] = backlog[p][j] => i = j
        /\ \A t \in threads[p] : t.pc # "accept" => t.peer # backlog[p][i]

ConnectionsOK == \A p \in Proxies : ThreadsOK(p) /\ BacklogOK(p)

\* A value is stored when its thread writes the blocks, not before.
Unstored(v) == \A s \in StripeIds : v \notin stored[s]

ClientsStored ==
    \A c \in Clients :
        /\ \A k \in Keys \ tried[c] : Unstored(<<c, k>>)
        /\ client[c].pc \in Setting \ {"connected", "acked"} =>
              Unstored(<<c, client[c].key>>)
        /\ client[c].pc = "acked" =>
              \E s \in StripeIds : <<c, client[c].key>> \in stored[s]

ThreadsStored ==
    \A p \in Proxies :
        /\ \A i \in 1 .. Len(backlog[p]) :
              Unstored(<<backlog[p][i], client[backlog[p][i]].key>>)
        /\ \A t \in threads[p] :
              /\ t.pc = "read" => Unstored(<<t.peer, client[t.peer].key>>)
              /\ t.pc = "stored" =>
                    <<t.peer, client[t.peer].key>> \in stored[t.stripe]

StoredApart == \A r, s \in StripeIds : \A v \in stored[r] \cap stored[s] : r = s

StoredOK == ClientsStored /\ ThreadsStored /\ StoredApart

IInv == TypeOK /\ ClientsOK /\ IdsOK /\ ConnectionsOK /\ StoredOK

\* With keys of their own, nobody commits a client's key but the client.
OwnKeys == \A c, d \in Clients : c # d => MaySet[c] \cap MaySet[d] = {}

CommitsOK ==
    \A c \in Clients :
        /\ client[c].pc \in Setting => commited[client[c].key] = None
        /\ client[c].pc \in {"registered", "told", "connected", "acked"} =>
              waiting[client[c].key] # None

-----------------------------------------------------------------------------
Sets == {ck \in Clients \X Keys : ck[2] \in MaySet[ck[1]]}

LEMMA SetsAreFinite ==
    /\ IsFiniteSet(Sets)
    /\ NumSets = Cardinality(Sets)
    /\ NumSets \in Nat
  <1>1. IsFiniteSet(Clients \X Keys)
    BY StoreAssumption, FS_Product
  <1>2. IsFiniteSet(Sets)
    BY <1>1, FS_Subset DEF Sets
  <1> QED
    BY <1>2, FS_CardinalityType DEF Sets, NumSets

LEMMA NumberedIsFinite ==
    ASSUME TypeOK, ClientsOK
    PROVE  /\ Numbered \subseteq Sets
           /\ IsFiniteSet(Numbered)
           /\ Cardinality(Numbered) \in Nat
           /\ Cardinality(Numbered) <= NumSets
  <1>1. Numbered \subseteq Sets
    BY DEF Numbered, Sets, ClientsOK
  <1> QED
    BY <1>1, SetsAreFinite, FS_Subset, FS_CardinalityType

\* A set that has not taken its id yet leaves one over.
LEMMA IdsAreLeft ==
    ASSUME TypeOK, ClientsOK, NEW c \in Clients,
           client[c].pc \in {"checked", "taking"}
    PROVE  Cardinality(Numbered) < NumSets
  <1> DEFINE ck == <<c, client[c].key>>
  <1>1. client[c].key \in Keys /\ client[c].key \in MaySet[c]
    BY DEF ClientsOK, Setting, TypeOK
  <1>2. ck \in Sets
    BY <1>1 DEF Sets
  <1>3. ck \notin Numbered
    BY DEF Numbered
  <1>4. Numbered # Sets /\ Numbered \in SUBSET Sets
    BY <1>2, <1>3, NumberedIsFinite
  <1>5. Cardinality(Numbered) <= Cardinality(Sets)
        /\ Cardinality(Numbered) # Cardinality(Sets)
    BY <1>4, SetsAreFinite, FS_Subset
  <1> QED
    BY <1>5, SetsAreFinite, NumberedIsFinite

-----------------------------------------------------------------------------
\* Types.

LEMMA ClientTypes ==
    ASSUME TypeOK, NEW c \in Clients
    PROVE  client[c] \in ClientState
  BY DEF TypeOK

LEMMA OneClientChanges ==
    ASSUME TypeOK, NEW c \in Clients, NEW new \in ClientState
    PROVE  [client EXCEPT ![c] = new] \in [Clients -> ClientState]
  BY DEF TypeOK

LEMMA CommitTypes ==
    ASSUME TypeOK, NEW c \in Clients, CommitObject(c),
           client[c].key \in Keys, waiting[client[c].key] \in StripeIds \cup {None}
    PROVE  /\ commited' \in [Keys -> StripeIds \cup {None}]
           /\ waiting' \in [Keys -> StripeIds \cup {None}]
           /\ mine' \in [Clients -> SUBSET Keys]
           /\ down' \in BOOLEAN
  <1>1. CASE commited[client[c].key] = None /\ waiting[client[c].key] # None
    <2>1. commited' \in [Keys -> StripeIds \cup {None}]
      BY <1>1 DEF CommitObject, TypeOK
    <2>2. waiting' \in [Keys -> StripeIds \cup {None}]
      BY <1>1 DEF CommitObject, TypeOK
    <2>3. mine' \in [Clients -> SUBSET Keys] /\ down' \in BOOLEAN
      BY <1>1 DEF CommitObject, TypeOK
    <2> QED
      BY <2>1, <2>2, <2>3
  <1>2. CASE ~(commited[client[c].key] = None /\ waiting[client[c].key] # None)
    BY <1>2 DEF CommitObject, TypeOK
  <1> QED
    BY <1>1, <1>2

LEMMA NextTypeOK ==
    ASSUME IInv, [Next]_vars
    PROVE  TypeOK'
  <1> USE DEF IInv
  <1>1. ASSUME NEW c \in Clients, NEW k \in Keys, CheckKey(c, k)
        PROVE  TypeOK'
    <2>1. client' \in [Clients -> ClientState]
      <3>1. [client[c] EXCEPT !.pc = "checked", !.key = k] \in ClientState
        BY ClientTypes DEF ClientState
      <3> QED
        BY <1>1, <3>1, OneClientChanges DEF CheckKey, TypeOK
    <2>2. tried' \in [Clients -> SUBSET Keys]
      BY <1>1 DEF CheckKey, TypeOK
    <2> QED
      BY <1>1, <2>1, <2>2 DEF CheckKey, TypeOK, proxy
  <1>2. ASSUME NEW c \in Clients, LoadStripeId(c)
        PROVE  TypeOK'
    <2>1. next_stripe_id \in StripeIds
      BY <1>2, IdsAreLeft, NumberedIsFinite, SetsAreFinite
      DEF LoadStripeId, IdsOK, TypeOK, StripeIds
    <2> QED
      <3>1. client' \in [Clients -> ClientState]
        <4>1. [client[c] EXCEPT !.pc = "taking", !.stripe = next_stripe_id] \in ClientState
          BY <2>1, ClientTypes DEF ClientState
        <4> QED
          BY <1>2, <4>1, OneClientChanges DEF LoadStripeId, TypeOK
      <3> QED
        BY <1>2, <3>1 DEF LoadStripeId, TypeOK, coordinator, proxy
  <1>3. ASSUME NEW c \in Clients, StoreStripeId(c)
        PROVE  TypeOK'
    <2>1. client[c].stripe \in StripeIds
      BY <1>3 DEF StoreStripeId, ClientsOK, Setting
    <2>2. client[c].stripe + 1 \in 0 .. NumSets
      BY <2>1, SetsAreFinite DEF StripeIds
    <2>3. client' \in [Clients -> ClientState]
      <3>1. [client[c] EXCEPT !.pc = "planned"] \in ClientState
        BY ClientTypes DEF ClientState
      <3> QED
        BY <1>3, <3>1, OneClientChanges DEF StoreStripeId, TypeOK
    <2> QED
      BY <1>3, <2>2, <2>3 DEF StoreStripeId, TypeOK, proxy
  <1>4. ASSUME NEW c \in Clients, RegisterObject(c)
        PROVE  TypeOK'
    <2>1. client[c].stripe \in StripeIds
      BY <1>4 DEF RegisterObject, ClientsOK, Setting
    <2>2. waiting' \in [Keys -> StripeIds \cup {None}]
      BY <1>4, <2>1 DEF RegisterObject, TypeOK
    <2>3. client' \in [Clients -> ClientState]
      <3>1. [client[c] EXCEPT !.pc = "registered"] \in ClientState
        BY ClientTypes DEF ClientState
      <3> QED
        BY <1>4, <3>1, OneClientChanges DEF RegisterObject, TypeOK
    <2> QED
      BY <1>4, <2>2, <2>3 DEF RegisterObject, TypeOK, proxy
  <1>5. ASSUME NEW c \in Clients, NEW p \in Proxies, StartEncode(c, p)
        PROVE  TypeOK'
    <2>1. client[c].key \in Keys /\ client[c].stripe \in StripeIds
      BY <1>5 DEF StartEncode, ClientsOK, Setting, TypeOK
    <2>2. [for |-> c, key |-> client[c].key, stripe |-> client[c].stripe,
           peer |-> None, pc |-> "accept"] \in Thread
      BY <2>1 DEF Thread
    <2> QED
      <3>1. client' \in [Clients -> ClientState]
        <4>1. [client[c] EXCEPT !.pc = "told", !.proxy = p] \in ClientState
          BY ClientTypes DEF ClientState
        <4> QED
          BY <1>5, <4>1, OneClientChanges DEF StartEncode, TypeOK
      <3>2. threads' \in [Proxies -> SUBSET Thread]
        BY <1>5, <2>2 DEF StartEncode, TypeOK
      <3> QED
        BY <1>5, <3>1, <3>2 DEF StartEncode, TypeOK, coordinator
  <1>6. ASSUME NEW c \in Clients, Connect(c)
        PROVE  TypeOK'
    <2>1. client[c].proxy \in Proxies
      BY <1>6 DEF Connect, ClientsOK
    <2>2. Append(backlog[client[c].proxy], c) \in Seq(Clients)
      BY <2>1 DEF TypeOK
    <2> QED
      <3>1. client' \in [Clients -> ClientState]
        <4>1. /\ Idle \in ClientState
              /\ [client[c] EXCEPT !.pc = "connected"] \in ClientState
          BY ClientTypes DEF ClientState, Idle
        <4> QED
          BY <1>6, <4>1, OneClientChanges DEF Connect, TypeOK
      <3>2. backlog' \in [Proxies -> Seq(Clients)]
        BY <1>6, <2>2 DEF Connect, TypeOK
      <3> QED
        BY <1>6, <3>1, <3>2 DEF Connect, TypeOK, coordinator
  <1>7. ASSUME NEW c \in Clients, CommitObject(c)
        PROVE  TypeOK'
    <2>1. client[c].key \in Keys
      BY <1>7 DEF CommitObject, ClientsOK, Setting, TypeOK
    <2>2. client' \in [Clients -> ClientState]
      <3>1. Idle \in ClientState
        BY DEF ClientState, Idle
      <3> QED
        BY <1>7, <3>1, OneClientChanges DEF CommitObject, TypeOK
    <2>3. /\ commited' \in [Keys -> StripeIds \cup {None}]
          /\ waiting' \in [Keys -> StripeIds \cup {None}]
          /\ mine' \in [Clients -> SUBSET Keys]
          /\ down' \in BOOLEAN
      <3>1. waiting[client[c].key] \in StripeIds \cup {None}
        BY <2>1 DEF TypeOK
      <3> QED
        BY <1>7, <2>1, <3>1, CommitTypes
    <2> QED
      BY <1>7, <2>2, <2>3 DEF CommitObject, TypeOK, proxy
  <1>8. ASSUME NEW c \in Clients, ClientDies(c)
        PROVE  TypeOK'
    BY <1>8, StoreAssumption
    DEF ClientDies, TypeOK, ClientState, Idle, coordinator, proxy
  <1>9. ASSUME NEW p \in Proxies, NEW t \in threads[p], Accept(p, t)
        PROVE  TypeOK'
    <2>1. Head(backlog[p]) \in Clients /\ Tail(backlog[p]) \in Seq(Clients)
      <3>1. backlog[p] \in Seq(Clients) /\ backlog[p] # <<>>
        BY <1>9 DEF Accept, TypeOK
      <3> QED
        BY <3>1, HeadTailProperties
    <2>2. [t EXCEPT !.pc = "read", !.peer = Head(backlog[p])] \in Thread
      <3>1. t \in Thread
        BY DEF TypeOK
      <3> QED
        BY <2>1, <3>1 DEF Thread
    <2>3. threads' \in [Proxies -> SUBSET Thread]
      BY <1>9, <2>2 DEF Accept, Advance, TypeOK
    <2>4. backlog' \in [Proxies -> Seq(Clients)]
      BY <1>9, <2>1 DEF Accept, TypeOK
    <2> QED
      BY <1>9, <2>3, <2>4 DEF Accept, TypeOK, coordinator
  <1>10. ASSUME NEW p \in Proxies, NEW t \in threads[p], StoreBlocks(p, t)
         PROVE  TypeOK'
    <2>1. /\ t \in Thread
          /\ t.peer \in Clients
          /\ client[t.peer].key \in Keys
      <3>1. t \in Thread /\ t.peer \in Clients /\ client[t.peer].pc = "connected"
        BY <1>10 DEF StoreBlocks, TypeOK, ConnectionsOK, ThreadsOK, BacklogOK, ConnectedTo
      <3> QED
        BY <3>1 DEF ClientsOK, Setting, TypeOK
    <2>2. /\ <<t.peer, client[t.peer].key>> \in Values
          /\ [t EXCEPT !.pc = "stored"] \in Thread
      BY <2>1 DEF Values, Thread
    <2>3. threads' \in [Proxies -> SUBSET Thread]
      BY <1>10, <2>2 DEF StoreBlocks, Advance, TypeOK
    <2>4. stored' \in [StripeIds -> SUBSET Values]
      BY <1>10, <2>2 DEF StoreBlocks, TypeOK
    <2> QED
      BY <1>10, <2>3, <2>4 DEF StoreBlocks, TypeOK, coordinator
  <1>11. ASSUME NEW p \in Proxies, NEW t \in threads[p], SendFinish(p, t)
         PROVE  TypeOK'
    <2>1. t.peer \in Clients
      BY <1>11 DEF SendFinish, TypeOK, ConnectionsOK, ThreadsOK
    <2>2. client' \in [Clients -> ClientState]
      <3>1. [client[t.peer] EXCEPT !.pc = "acked"] \in ClientState
        BY <2>1, ClientTypes DEF ClientState
      <3> QED
        BY <1>11, <2>1, <3>1, OneClientChanges DEF SendFinish, TypeOK
    <2>3. threads' \in [Proxies -> SUBSET Thread]
      BY <1>11 DEF SendFinish, TypeOK
    <2> QED
      BY <1>11, <2>2, <2>3 DEF SendFinish, TypeOK, coordinator
  <1>12. ASSUME NEW c \in Clients, NEW k \in Keys, NEW p \in Proxies,
                AskForData(c, k, p)
         PROVE  TypeOK'
    BY <1>12 DEF AskForData, TypeOK, ClientState, coordinator, proxy
  <1>13. ASSUME NEW c \in Clients, client[c].pc = "getting"
         PROVE  /\ <<client[c].key, stored[client[c].stripe]>> \in Keys \X SUBSET Values
                /\ client[c].proxy \in Proxies
    BY <1>13 DEF TypeOK, ClientsOK
  <1>14. ASSUME NEW c \in Clients, Deliver(c)
         PROVE  TypeOK'
    <2>1. client' \in [Clients -> ClientState]
      BY <1>14, OneClientChanges DEF Deliver, TypeOK, ClientState, Idle
    <2>2. got' \in [Clients -> Keys \X (SUBSET Values) \cup {None}]
      BY <1>13, <1>14 DEF Deliver, TypeOK
    <2> QED
      BY <1>14, <2>1, <2>2 DEF Deliver, TypeOK, coordinator, proxy
  <1>15. ASSUME NEW p \in Proxies
         PROVE  WithoutProxy(p) \in [Clients -> ClientState]
    <2>1. ASSUME NEW c \in Clients
          PROVE  /\ Idle \in ClientState
                 /\ [client[c] EXCEPT !.pc = "hung"] \in ClientState
                 /\ client[c] \in ClientState
      BY ClientTypes DEF ClientState, Idle
    <2> QED
      BY <2>1 DEF WithoutProxy
  <1>16. ASSUME NEW p \in Proxies, ProxyEnds(p)
         PROVE  /\ dead' \subseteq Proxies
                /\ threads' \in [Proxies -> SUBSET Thread]
                /\ backlog' \in [Proxies -> Seq(Clients)]
    <2>1. <<>> \in Seq(Clients)
      OBVIOUS
    <2> QED
      BY <1>16, <2>1 DEF ProxyEnds, TypeOK
  <1>17. ASSUME NEW c \in Clients, ReadFails(c)
         PROVE  TypeOK'
    BY <1>13, <1>15, <1>16, <1>17 DEF ReadFails, TypeOK, coordinator
  <1>18. ASSUME NEW c \in Clients, DeliverAndFail(c)
         PROVE  TypeOK'
    BY <1>13, <1>15, <1>16, <1>18
    DEF DeliverAndFail, TypeOK, ClientState, Idle, coordinator
  <1>19. CASE UNCHANGED vars
    BY <1>19 DEF TypeOK, vars, coordinator, proxy
  <1> QED
    BY <1>1, <1>2, <1>3, <1>4, <1>5, <1>6, <1>7, <1>8, <1>9, <1>10, <1>11, <1>12,
       <1>14, <1>17, <1>18, <1>19
    DEF Next, HandlerStep, ClientStep, ThreadStep, Finished

-----------------------------------------------------------------------------
\* A step of a client changes that client, and a proxy that ends changes those
\* that wait for it.

Others(c) == \A d \in Clients \ {c} : client'[d] = client[d]

LEMMA CheckKeyClient ==
    ASSUME TypeOK, NEW c \in Clients, NEW k \in Keys, CheckKey(c, k)
    PROVE  /\ Others(c)
           /\ UNCHANGED <<commited, mine, next_stripe_id>>
           /\ tried' = [tried EXCEPT ![c] = @ \cup {k}]
           /\ client[c].pc = "idle"
           /\ k \in MaySet[c] /\ k \notin tried[c]
           /\ \/ client'[c] = client[c]
              \/ /\ commited[k] = None
                 /\ client'[c].pc = "checked"
                 /\ client'[c].key = k
                 /\ client'[c].stripe = client[c].stripe
                 /\ client'[c].proxy = client[c].proxy
  <1>1. CASE commited[k] # None
    BY <1>1 DEF CheckKey, Others
  <1>2. CASE commited[k] = None
    <2>1. client' = [client EXCEPT ![c].pc = "checked", ![c].key = k]
      BY <1>2 DEF CheckKey
    <2>2. client[c] \in ClientState /\ client \in [Clients -> ClientState]
      BY DEF TypeOK
    <2>3. /\ Others(c)
          /\ client'[c].pc = "checked"
          /\ client'[c].key = k
          /\ client'[c].stripe = client[c].stripe
          /\ client'[c].proxy = client[c].proxy
      BY <2>1, <2>2 DEF Others, ClientState
    <2> QED
      BY <1>2, <2>3 DEF CheckKey
  <1> QED
    BY <1>1, <1>2

LEMMA CommitClient ==
    ASSUME TypeOK, ClientsOK, NEW c \in Clients, CommitObject(c)
    PROVE  /\ Others(c)
           /\ UNCHANGED <<tried, next_stripe_id>>
           /\ client[c].pc = "acked"
           /\ client[c].key \in Keys
           /\ \/ UNCHANGED <<client, commited, waiting, mine>>
              \/ /\ client'[c] = Idle
                 /\ commited[client[c].key] = None
                 /\ waiting[client[c].key] # None
                 /\ commited' = [commited EXCEPT ![client[c].key] = waiting[client[c].key]]
                 /\ waiting' = [waiting EXCEPT ![client[c].key] = None]
                 /\ mine' = [mine EXCEPT ![c] = @ \cup {client[c].key}]
  BY DEF CommitObject, TypeOK, ClientsOK, Setting, Others

LEMMA ConnectClient ==
    ASSUME TypeOK, NEW c \in Clients, Connect(c)
    PROVE  /\ Others(c)
           /\ UNCHANGED <<coordinator, tried, mine, threads, stored>>
           /\ client[c].pc = "told"
           /\ \/ client'[c] = Idle /\ backlog' = backlog
              \/ /\ client'[c].pc = "connected"
                 /\ client'[c].key = client[c].key
                 /\ client'[c].stripe = client[c].stripe
                 /\ client'[c].proxy = client[c].proxy
                 /\ backlog' = [backlog EXCEPT ![client[c].proxy] = Append(@, c)]
  BY DEF Connect, TypeOK, ClientState, Others

LEMMA ProxyEndsClients ==
    ASSUME TypeOK, ClientsOK, NEW c \in Clients, ReadFails(c) \/ DeliverAndFail(c)
    PROVE  /\ client[c].proxy \in Proxies
           /\ ProxyEnds(client[c].proxy)
           /\ UNCHANGED <<coordinator, tried, mine, stored>>
           /\ \A d \in Clients :
                 \/ client'[d] = client[d] /\ ~ConnectedTo(d, client[c].proxy)
                 \/ /\ client[d].pc \in {"getting", "connected"}
                    /\ client[d].proxy = client[c].proxy
                    /\ client'[d].pc \in {"idle", "hung"}
  <1> DEFINE p == client[c].proxy
  <1>1. /\ p \in Proxies
        /\ ProxyEnds(p)
        /\ client[c].pc = "getting"
        /\ UNCHANGED <<coordinator, tried, mine, stored>>
    BY DEF ReadFails, DeliverAndFail, ClientsOK
  <1>2. ASSUME NEW d \in Clients
        PROVE  \/ WithoutProxy(p)[d] = client[d] /\ ~ConnectedTo(d, p)
               \/ /\ client[d].pc \in {"getting", "connected"}
                  /\ client[d].proxy = p
                  /\ WithoutProxy(p)[d].pc \in {"idle", "hung"}
    <2>1. client[d] \in ClientState
      BY DEF TypeOK
    <2>2. CASE client[d].proxy = p /\ client[d].pc = "connected"
      BY <2>2 DEF WithoutProxy, Idle
    <2>3. CASE client[d].proxy = p /\ client[d].pc = "getting"
      BY <2>1, <2>3 DEF WithoutProxy, ClientState
    <2>4. CASE ~(client[d].proxy = p /\ client[d].pc \in {"connected", "getting"})
      BY <2>4 DEF WithoutProxy, ConnectedTo
    <2> QED
      BY <2>2, <2>3, <2>4
  <1>3. \A d \in Clients :
           \/ client'[d] = WithoutProxy(p)[d]
           \/ d = c /\ client'[d] = Idle
    BY DEF ReadFails, DeliverAndFail, WithoutProxy
  <1> QED
    BY <1>1, <1>2, <1>3 DEF Idle

-----------------------------------------------------------------------------
\* What clients know.

LEMMA NextClientsOK ==
    ASSUME IInv, [Next]_vars
    PROVE  ClientsOK'
  <1> USE DEF IInv
  <1>1. ASSUME NEW c \in Clients, NEW k \in Keys, CheckKey(c, k)
        PROVE  ClientsOK'
    BY <1>1, CheckKeyClient DEF TypeOK, ClientsOK, Setting, Others
  <1>2. ASSUME NEW c \in Clients, LoadStripeId(c)
        PROVE  ClientsOK'
    <2>1. next_stripe_id \in StripeIds
      BY <1>2, IdsAreLeft, NumberedIsFinite, SetsAreFinite
      DEF LoadStripeId, IdsOK, TypeOK, StripeIds
    <2> QED
      BY <1>2, <2>1 DEF LoadStripeId, TypeOK, ClientsOK, Setting, coordinator
  <1>3. ASSUME NEW c \in Clients, StoreStripeId(c)
        PROVE  ClientsOK'
    BY <1>3 DEF StoreStripeId, TypeOK, ClientsOK, Setting
  <1>4. ASSUME NEW c \in Clients, RegisterObject(c)
        PROVE  ClientsOK'
    BY <1>4 DEF RegisterObject, TypeOK, ClientsOK, Setting
  <1>5. ASSUME NEW c \in Clients, NEW p \in Proxies, StartEncode(c, p)
        PROVE  ClientsOK'
    BY <1>5 DEF StartEncode, TypeOK, ClientsOK, Setting, coordinator
  <1>6. ASSUME NEW c \in Clients, Connect(c)
        PROVE  ClientsOK'
    BY <1>6, ConnectClient
    DEF ClientsOK, Setting, Idle, coordinator, Others
  <1>7. ASSUME NEW c \in Clients, CommitObject(c)
        PROVE  ClientsOK'
    BY <1>7, CommitClient DEF TypeOK, ClientsOK, Setting, Idle, Others
  <1>8. ASSUME NEW c \in Clients, ClientDies(c)
        PROVE  ClientsOK'
    BY <1>8 DEF ClientDies, TypeOK, ClientsOK, Setting, Idle, coordinator
  <1>9. ASSUME UNCHANGED <<client, tried, mine, commited>>
        PROVE  ClientsOK'
    BY <1>9 DEF ClientsOK
  <1>10. ASSUME NEW p \in Proxies, NEW t \in threads[p], SendFinish(p, t)
         PROVE  ClientsOK'
    <2>1. t.peer \in Clients /\ client[t.peer].pc = "connected"
      BY <1>10 DEF SendFinish, ConnectionsOK, ThreadsOK, BacklogOK, ConnectedTo
    <2> QED
      BY <1>10, <2>1 DEF SendFinish, TypeOK, ClientsOK, Setting, coordinator
  <1>11. ASSUME NEW c \in Clients, NEW k \in Keys, NEW p \in Proxies,
                AskForData(c, k, p)
         PROVE  ClientsOK'
    <2>1. commited[k] \in StripeIds
      BY <1>11 DEF AskForData, TypeOK, ClientsOK
    <2> QED
      BY <1>11, <2>1 DEF AskForData, TypeOK, ClientsOK, Setting, coordinator
  <1>12. ASSUME NEW c \in Clients, Deliver(c)
         PROVE  ClientsOK'
    BY <1>12 DEF Deliver, TypeOK, ClientsOK, Setting, Idle, coordinator
  <1>14. ASSUME NEW c \in Clients, ReadFails(c) \/ DeliverAndFail(c)
         PROVE  ClientsOK'
    BY <1>14, ProxyEndsClients DEF ClientsOK, Setting, coordinator
  <1> QED
    BY <1>1, <1>2, <1>3, <1>4, <1>5, <1>6, <1>7, <1>8, <1>9, <1>10, <1>11, <1>12,
       <1>14
    DEF Next, HandlerStep, ClientStep, ThreadStep, Finished, Accept, StoreBlocks,
        vars, coordinator

-----------------------------------------------------------------------------
\* Ids.

LEMMA SameNumbers ==
    ASSUME IdsOK, UNCHANGED <<tried, next_stripe_id>>,
           \A d \in Clients :
              /\ client'[d].pc \in {"checked", "taking"} <=>
                    client[d].pc \in {"checked", "taking"}
              /\ client[d].pc \in {"checked", "taking"} =>
                    client'[d].key = client[d].key
              /\ client'[d].pc = "taking" =>
                    \/ client[d] = client'[d]
                    \/ client'[d].stripe = next_stripe_id
    PROVE  IdsOK'
  <1>1. Numbered' = Numbered
    BY DEF Numbered
  <1> QED
    BY <1>1 DEF IdsOK

LEMMA OneMoreNumbered ==
    ASSUME TypeOK, ClientsOK, NEW ck, Numbered' = Numbered \cup {ck}
    PROVE  /\ Cardinality(Numbered') \in Nat
           /\ Cardinality(Numbered') >= Cardinality(Numbered)
           /\ ck \notin Numbered => Cardinality(Numbered') = Cardinality(Numbered) + 1
  BY NumberedIsFinite, FS_AddElement

LEMMA NextIdsOK ==
    ASSUME IInv, [Next]_vars
    PROVE  IdsOK'
  <1> USE DEF IInv
  <1>1. ASSUME NEW c \in Clients, NEW k \in Keys, CheckKey(c, k)
        PROVE  IdsOK'
    <2>1. CASE commited[k] # None
      <3>1. Numbered' = Numbered \cup {<<c, k>>}
        BY <1>1, <2>1 DEF CheckKey, Numbered, TypeOK
      <3>2. UNCHANGED <<client, next_stripe_id>>
        BY <1>1, <2>1 DEF CheckKey
      <3>3. /\ Cardinality(Numbered) \in Nat
            /\ Cardinality(Numbered') \in Nat
            /\ Cardinality(Numbered') >= Cardinality(Numbered)
        BY <3>1, OneMoreNumbered, NumberedIsFinite
      <3>4. \A d \in Clients : client[d].pc = "taking" => client[d].stripe \in Int
        BY DEF ClientsOK, Setting, StripeIds
      <3>5. next_stripe_id \in Int
        BY DEF TypeOK
      <3> QED
        BY <3>2, <3>3, <3>4, <3>5 DEF IdsOK
    <2>2. CASE commited[k] = None
      <3>1. client'[c].pc = "checked" /\ client'[c].key = k
        BY <1>1, <2>2, CheckKeyClient DEF CheckKey, TypeOK, ClientState
      <3>2. Numbered' = Numbered
        <4>1. \A d \in Clients, j \in Keys :
                 (j \in tried'[d] <=> j \in tried[d] \/ (d = c /\ j = k))
          BY <1>1, CheckKeyClient DEF TypeOK
        <4>2. client[c].pc = "idle" /\ k \notin tried[c]
          BY <1>1, CheckKeyClient
        <4>3. \A d \in Clients : d # c => client'[d] = client[d]
          BY <1>1, CheckKeyClient DEF Others
        <4> QED
          BY <3>1, <4>1, <4>2, <4>3 DEF Numbered
      <3> QED
        BY <1>1, <3>1, <3>2, CheckKeyClient DEF IdsOK, Others
    <2> QED
      BY <2>1, <2>2
  <1>2. ASSUME NEW c \in Clients, LoadStripeId(c)
        PROVE  IdsOK'
    BY <1>2, SameNumbers DEF LoadStripeId, coordinator, TypeOK, ClientState
  <1>3. ASSUME NEW c \in Clients, StoreStripeId(c)
        PROVE  IdsOK'
    <2> DEFINE ck == <<c, client[c].key>>
    <2>1. ck \notin Numbered /\ client[c].key \in Keys /\ client[c].key \in tried[c]
      BY <1>3 DEF StoreStripeId, Numbered, ClientsOK, Setting, TypeOK
    <2>2. Numbered' = Numbered \cup {ck}
      BY <1>3, <2>1 DEF StoreStripeId, Numbered, TypeOK
    <2>3. Cardinality(Numbered') = Cardinality(Numbered) + 1
      BY <2>1, <2>2, OneMoreNumbered
    <2>4. Cardinality(Numbered) \in Nat
      BY NumberedIsFinite
    <2>5. next_stripe_id' <= Cardinality(Numbered')
      <3>1. /\ client[c].stripe \in Nat
            /\ client[c].stripe <= Cardinality(Numbered)
        BY <1>3 DEF StoreStripeId, IdsOK, ClientsOK, Setting, StripeIds
      <3>2. next_stripe_id' = client[c].stripe + 1
        BY <1>3 DEF StoreStripeId
      <3> QED
        BY <2>3, <2>4, <3>1, <3>2
    <2>6. ASSUME NEW d \in Clients, client'[d].pc = "taking"
          PROVE  client'[d].stripe <= Cardinality(Numbered')
      <3>1. client'[d] = client[d]
        BY <1>3, <2>6 DEF StoreStripeId, TypeOK
      <3>2. client[d].stripe \in Nat /\ client[d].stripe <= Cardinality(Numbered)
        BY <2>6, <3>1 DEF IdsOK, ClientsOK, Setting, StripeIds
      <3> QED
        BY <2>3, <2>4, <3>1, <3>2
    <2> QED
      BY <2>5, <2>6 DEF IdsOK
  <1>4. ASSUME NEW c \in Clients,
               \/ RegisterObject(c)
               \/ \E p \in Proxies : StartEncode(c, p)
               \/ Connect(c)
               \/ CommitObject(c)
               \/ ClientDies(c)
               \/ Deliver(c)
               \/ \E k \in Keys, p \in Proxies : AskForData(c, k, p)
        PROVE  IdsOK'
    <2>1. UNCHANGED <<tried, next_stripe_id>>
      BY <1>4 DEF RegisterObject, StartEncode, Connect, CommitObject, ClientDies,
                  Deliver, AskForData, coordinator
    <2>2. \A d \in Clients :
             \/ client'[d] = client[d]
             \/ /\ client[d].pc \notin {"checked", "taking"}
                /\ client'[d].pc \notin {"checked", "taking"}
      BY <1>4 DEF RegisterObject, StartEncode, Connect, CommitObject, ClientDies,
                  Deliver, AskForData, Idle, TypeOK, ClientState
    <2> QED
      BY <2>1, <2>2, SameNumbers
  <1>5. ASSUME UNCHANGED <<client, tried, next_stripe_id>>
        PROVE  IdsOK'
    BY <1>5, SameNumbers
  <1>6. ASSUME NEW p \in Proxies, NEW t \in threads[p], SendFinish(p, t)
        PROVE  IdsOK'
    <2>1. t.peer \in Clients /\ client[t.peer].pc = "connected"
      BY <1>6 DEF SendFinish, ConnectionsOK, ThreadsOK, BacklogOK, ConnectedTo
    <2> QED
      BY <1>6, <2>1, SameNumbers DEF SendFinish, TypeOK, ClientState, coordinator
  <1>7. ASSUME NEW c \in Clients, ReadFails(c) \/ DeliverAndFail(c)
        PROVE  IdsOK'
    BY <1>7, ProxyEndsClients, SameNumbers DEF coordinator
  <1> QED
    BY <1>1, <1>2, <1>3, <1>4, <1>5, <1>6, <1>7
    DEF Next, HandlerStep, ClientStep, ThreadStep, Finished, Accept, StoreBlocks,
        vars, coordinator

-----------------------------------------------------------------------------
\* Connections.

LEMMA BacklogClients ==
    ASSUME TypeOK, NEW p \in Proxies, NEW i \in 1 .. Len(backlog[p])
    PROVE  backlog[p][i] \in Clients
  BY ElementOfSeq DEF TypeOK

LEMMA BacklogTail ==
    ASSUME TypeOK, NEW p \in Proxies, backlog[p] # <<>>
    PROVE  /\ Len(backlog[p]) \in Nat \ {0}
           /\ Head(backlog[p]) = backlog[p][1]
           /\ Len(Tail(backlog[p])) = Len(backlog[p]) - 1
           /\ \A i \in 1 .. Len(Tail(backlog[p])) :
                 Tail(backlog[p])[i] = backlog[p][i + 1]
  <1>1. backlog[p] \in Seq(Clients)
    BY DEF TypeOK
  <1> QED
    BY <1>1, HeadTailProperties, LenProperties, EmptySeq

LEMMA BacklogAppend ==
    ASSUME TypeOK, NEW p \in Proxies, NEW c \in Clients
    PROVE  LET longer == Append(backlog[p], c)
           IN  /\ Len(backlog[p]) \in Nat
               /\ Len(longer) = Len(backlog[p]) + 1
               /\ \A i \in 1 .. Len(backlog[p]) : longer[i] = backlog[p][i]
               /\ longer[Len(backlog[p]) + 1] = c
  <1>1. backlog[p] \in Seq(Clients)
    BY DEF TypeOK
  <1> QED
    BY <1>1, AppendProperties, LenProperties

\* Steps that concern no connection: no client connects or is answered, and
\* threads at most begin.
Aside ==
    /\ UNCHANGED <<backlog, stored>>
    /\ \A p \in Proxies : \A t \in threads'[p] :
          t \in threads[p] \/ t.pc = "accept"
    /\ \A d \in Clients : client[d].pc = "connected" => client'[d] = client[d]
    /\ \A d \in Clients : client'[d].pc = "connected" => client'[d] = client[d]

LEMMA AsideSteps ==
    ASSUME IInv, NEW c \in Clients,
           \/ \E k \in Keys : CheckKey(c, k)
           \/ LoadStripeId(c)
           \/ StoreStripeId(c)
           \/ RegisterObject(c)
           \/ \E p \in Proxies : StartEncode(c, p)
           \/ CommitObject(c)
           \/ ClientDies(c)
           \/ Deliver(c)
           \/ \E k \in Keys, p \in Proxies : AskForData(c, k, p)
    PROVE  Aside
  <1> USE DEF IInv
  <1>1. ASSUME NEW k \in Keys, CheckKey(c, k)
        PROVE  Aside
    <2>1. UNCHANGED proxy
      BY <1>1 DEF CheckKey
    <2> QED
      BY <1>1, <2>1, CheckKeyClient DEF Aside, Others, proxy
  <1>2. CASE LoadStripeId(c)
    BY <1>2 DEF LoadStripeId, Aside, TypeOK, ClientState, proxy
  <1>3. CASE StoreStripeId(c)
    BY <1>3 DEF StoreStripeId, Aside, TypeOK, ClientState, proxy
  <1>4. CASE RegisterObject(c)
    BY <1>4 DEF RegisterObject, Aside, TypeOK, ClientState, proxy
  <1>5. ASSUME NEW p \in Proxies, StartEncode(c, p)
        PROVE  Aside
    <2>1. \A q \in Proxies : \A t \in threads'[q] : t \in threads[q] \/ t.pc = "accept"
      <3> DEFINE new == [for |-> c, key |-> client[c].key,
                         stripe |-> client[c].stripe, peer |-> None,
                         pc |-> "accept"]
      <3>1. new.pc = "accept"
        OBVIOUS
      <3>2. threads' = threads \/ threads' = [threads EXCEPT ![p] = @ \cup {new}]
        BY <1>5 DEF StartEncode
      <3> HIDE DEF new
      <3>3. \A q \in Proxies : threads'[q] = threads[q]
                                \/ threads'[q] = threads[q] \cup {new}
        BY <3>2 DEF TypeOK
      <3> QED
        BY <3>1, <3>3
    <2>2. \A d \in Clients :
             \/ client'[d] = client[d]
             \/ client[d].pc = "registered" /\ client'[d].pc = "told"
      BY <1>5 DEF StartEncode, TypeOK, ClientState
    <2> QED
      BY <1>5, <2>1, <2>2 DEF StartEncode, Aside
  <1>6. CASE CommitObject(c)
    <2>1. UNCHANGED proxy
      BY <1>6 DEF CommitObject
    <2> QED
      BY <1>6, <2>1, CommitClient DEF Aside, Others, Idle, proxy
  <1>7. CASE ClientDies(c)
    BY <1>7 DEF ClientDies, Aside, TypeOK, Idle, proxy
  <1>8. CASE Deliver(c)
    BY <1>8 DEF Deliver, Aside, TypeOK, Idle, proxy
  <1>9. ASSUME NEW k \in Keys, NEW p \in Proxies, AskForData(c, k, p)
        PROVE  Aside
    BY <1>9 DEF AskForData, Aside, TypeOK, proxy
  <1> QED
    BY <1>1, <1>2, <1>3, <1>4, <1>5, <1>6, <1>7, <1>8, <1>9

\* The same after the step, of a backlog that may itself be the next one.
ConnectedAfter(c, p) == client'[c].pc = "connected" /\ client'[c].proxy = p

LEMMA NextConnectionsOK ==
    ASSUME IInv, [Next]_vars
    PROVE  ConnectionsOK'
  <1> USE DEF IInv
  <1>1. ASSUME Aside
        PROVE  ConnectionsOK'
    BY <1>1, BacklogClients DEF Aside, ConnectionsOK, ThreadsOK, BacklogOK, ConnectedTo, ConnectedAfter
  <1>2. ASSUME NEW c \in Clients, Connect(c)
        PROVE  ConnectionsOK'
    <2>1. CASE backlog' = backlog /\ client'[c] = Idle
      <3>1. Aside
        BY <1>2, <2>1, ConnectClient DEF Aside, Others, Idle
      <3> QED
        BY <1>1, <3>1
    <2>2. CASE ~(backlog' = backlog /\ client'[c] = Idle)
      <3>0. PICK q \in Proxies : q = client[c].proxy
        BY <1>2, ConnectClient DEF ClientsOK
      <3>1. q \in Proxies /\ client[c].pc = "told"
        BY <1>2, ConnectClient
      <3>2. /\ backlog' = [backlog EXCEPT ![q] = Append(@, c)]
            /\ ConnectedAfter(c, q)
            /\ threads' = threads
            /\ Others(c)
        BY <1>2, <2>2, <3>0, ConnectClient DEF ConnectedAfter
      <3>3. \A p \in Proxies : \A t \in threads[p] : t.pc # "accept" =>
               /\ t.peer \in Clients
               /\ t.peer # c
               /\ ConnectedAfter(t.peer, p)
        BY <3>1, <3>2 DEF ConnectionsOK, ThreadsOK, BacklogOK, ConnectedTo, ConnectedAfter, Others
      <3>4. \A p \in Proxies : \A i \in 1 .. Len(backlog[p]) :
               /\ backlog[p][i] # c
               /\ ConnectedAfter(backlog[p][i], p)
        BY <3>1, <3>2, BacklogClients DEF ConnectionsOK, ThreadsOK, BacklogOK, ConnectedTo, ConnectedAfter, Others
      <3>5. ASSUME NEW p \in Proxies, p # q
            PROVE  backlog'[p] = backlog[p]
        BY <3>2, <3>5 DEF TypeOK
      <3>6. backlog'[q] = Append(backlog[q], c)
        BY <3>1, <3>2 DEF TypeOK
      <3>7. /\ Len(backlog[q]) \in Nat
            /\ Len(backlog'[q]) = Len(backlog[q]) + 1
            /\ \A i \in 1 .. Len(backlog[q]) : backlog'[q][i] = backlog[q][i]
            /\ backlog'[q][Len(backlog[q]) + 1] = c
        BY <3>1, <3>6, BacklogAppend
      <3>8. \A i \in 1 .. Len(backlog'[q]) :
               \/ i \in 1 .. Len(backlog[q])
               \/ i = Len(backlog[q]) + 1
        BY <3>7
      <3>9. ASSUME NEW i \in 1 .. Len(backlog'[q]),
                   NEW j \in 1 .. Len(backlog'[q]),
                   backlog'[q][i] = backlog'[q][j]
            PROVE  i = j
        <4>1. \A m, n \in 1 .. Len(backlog[q]) :
                 backlog[q][m] = backlog[q][n] => m = n
          BY <3>1 DEF ConnectionsOK, BacklogOK
        <4>2. \A m \in 1 .. Len(backlog[q]) : backlog[q][m] # c
          BY <3>1, <3>4
        <4> QED
          BY <3>7, <3>8, <3>9, <4>1, <4>2
      <3>10. ASSUME NEW i \in 1 .. Len(backlog'[q])
             PROVE  /\ ConnectedAfter(backlog'[q][i], q)
                    /\ \A t \in threads[q] : t.pc # "accept" => t.peer # backlog'[q][i]
        <4>1. CASE i \in 1 .. Len(backlog[q])
          <5>1. backlog'[q][i] = backlog[q][i] /\ ConnectedAfter(backlog[q][i], q)
            BY <3>1, <3>4, <3>7, <4>1
          <5>2. \A t \in threads[q] : t.pc # "accept" => t.peer # backlog[q][i]
            BY <3>1, <4>1 DEF ConnectionsOK, BacklogOK
          <5> QED
            BY <5>1, <5>2 DEF ConnectedTo, ConnectedAfter
        <4>2. CASE i = Len(backlog[q]) + 1
          BY <3>1, <3>2, <3>3, <3>7, <4>2 DEF ConnectedTo, ConnectedAfter
        <4> QED
          BY <3>8, <4>1, <4>2
      <3>11. BacklogOK(q)'
        BY <3>2, <3>9, <3>10 DEF BacklogOK, ConnectedTo, ConnectedAfter
      <3>12. ASSUME NEW p \in Proxies, p # q
             PROVE  BacklogOK(p)'
        <4>1. backlog'[p] = backlog[p] /\ BacklogOK(p)
          BY <3>5, <3>12 DEF ConnectionsOK
        <4>2. threads'[p] = threads[p]
          BY <3>2
        <4>3. \A i \in 1 .. Len(backlog[p]) : ConnectedAfter(backlog[p][i], p)
          BY <3>4
        <4> QED
          BY <4>1, <4>2, <4>3 DEF BacklogOK, ConnectedAfter, ConnectedTo
      <3>13. ASSUME NEW p \in Proxies
             PROVE  ThreadsOK(p)'
        BY <3>2, <3>3 DEF ConnectionsOK, ThreadsOK, ConnectedTo, ConnectedAfter
      <3> QED
        BY <3>11, <3>12, <3>13 DEF ConnectionsOK
    <2> QED
      BY <2>1, <2>2
  <1>3. ASSUME NEW q \in Proxies, NEW t \in threads[q], Accept(q, t)
        PROVE  ConnectionsOK'
    <2> DEFINE new == [t EXCEPT !.pc = "read", !.peer = Head(backlog[q])]
    <2>1. /\ t \in Thread
          /\ t.pc = "accept"
          /\ backlog[q] # <<>>
          /\ client' = client
      BY <1>3 DEF Accept, TypeOK
    <2>2. new.pc = "read" /\ new.peer = backlog[q][1]
      BY <2>1, BacklogTail DEF Thread
    <2>3. /\ threads'[q] = (threads[q] \ {t}) \cup {new}
          /\ backlog'[q] = Tail(backlog[q])
          /\ \A p \in Proxies \ {q} : threads'[p] = threads[p] /\ backlog'[p] = backlog[p]
      BY <1>3 DEF Accept, Advance, TypeOK
    <2> HIDE DEF new
    <2>4. /\ Len(backlog[q]) \in Nat \ {0}
          /\ Len(backlog'[q]) = Len(backlog[q]) - 1
          /\ \A i \in 1 .. Len(backlog'[q]) : backlog'[q][i] = backlog[q][i + 1]
      BY <2>1, <2>3, BacklogTail
    <2>5. 1 \in 1 .. Len(backlog[q]) /\ backlog[q][1] \in Clients
      BY <2>4, BacklogClients
    <2>6. \A i \in 1 .. Len(backlog'[q]) :
             i + 1 \in 1 .. Len(backlog[q]) /\ i + 1 # 1
      BY <2>4
    <2>7. ThreadsOK(q) /\ BacklogOK(q)
      BY DEF ConnectionsOK
    <2>8. ThreadsOK(q)'
      BY <2>1, <2>2, <2>3, <2>5, <2>7 DEF ThreadsOK, BacklogOK, ConnectedTo, ConnectedAfter
    <2>9. BacklogOK(q)'
      <3>1. ASSUME NEW i \in 1 .. Len(backlog'[q])
            PROVE  /\ ConnectedAfter(backlog'[q][i], q)
                   /\ \A u \in threads'[q] : u.pc # "accept" => u.peer # backlog'[q][i]
        <4>1. backlog'[q][i] = backlog[q][i + 1]
          BY <2>4
        <4>2. i + 1 \in 1 .. Len(backlog[q]) /\ i + 1 # 1
          BY <2>6
        <4>3. /\ ConnectedTo(backlog[q][i + 1], q)
              /\ backlog[q][i + 1] # backlog[q][1]
              /\ \A u \in threads[q] : u.pc # "accept" => u.peer # backlog[q][i + 1]
          BY <2>5, <2>7, <4>2 DEF BacklogOK
        <4> QED
          BY <2>1, <2>2, <2>3, <4>1, <4>3 DEF ConnectedTo, ConnectedAfter
      <3>2. ASSUME NEW i \in 1 .. Len(backlog'[q]), NEW j \in 1 .. Len(backlog'[q]),
                   backlog'[q][i] = backlog'[q][j]
            PROVE  i = j
        <4>1. backlog[q][i + 1] = backlog[q][j + 1]
          BY <2>4, <3>2
        <4>2. i + 1 = j + 1
          BY <2>6, <2>7, <4>1 DEF BacklogOK
        <4> QED
          BY <2>4, <4>2
      <3> QED
        BY <3>1, <3>2 DEF BacklogOK, ConnectedTo, ConnectedAfter
    <2>10. ASSUME NEW p \in Proxies, p # q
           PROVE  ThreadsOK(p)' /\ BacklogOK(p)'
      BY <2>1, <2>3, <2>10 DEF ConnectionsOK, ThreadsOK, BacklogOK, ConnectedTo, ConnectedAfter
    <2> QED
      BY <2>8, <2>9, <2>10 DEF ConnectionsOK
  <1>4. ASSUME NEW q \in Proxies, NEW t \in threads[q], StoreBlocks(q, t)
        PROVE  ConnectionsOK'
    <2> DEFINE new == [t EXCEPT !.pc = "stored"]
    <2>1. t \in Thread /\ t.pc = "read"
      BY <1>4 DEF StoreBlocks, TypeOK
    <2>2. new.pc = "stored" /\ new.peer = t.peer
      BY <2>1 DEF Thread
    <2>3. /\ threads'[q] = (threads[q] \ {t}) \cup {new}
          /\ \A p \in Proxies \ {q} : threads'[p] = threads[p]
          /\ UNCHANGED <<client, backlog>>
      BY <1>4 DEF StoreBlocks, Advance, TypeOK
    <2> HIDE DEF new
    <2> QED
      BY <2>1, <2>2, <2>3 DEF ConnectionsOK, ThreadsOK, BacklogOK, ConnectedTo, ConnectedAfter
  <1>5. ASSUME NEW q \in Proxies, NEW t \in threads[q], SendFinish(q, t)
        PROVE  ConnectionsOK'
    <2>1. /\ t.pc = "stored"
          /\ t.peer \in Clients
          /\ ConnectedTo(t.peer, q)
      BY <1>5 DEF SendFinish, ConnectionsOK, ThreadsOK
    <2>2. /\ threads'[q] = threads[q] \ {t}
          /\ \A p \in Proxies \ {q} : threads'[p] = threads[p]
          /\ backlog' = backlog
          /\ Others(t.peer)
      BY <1>5, <2>1 DEF SendFinish, TypeOK, Others
    <2>3. \A p \in Proxies : \A u \in threads'[p] :
             u.pc # "accept" => u.peer # t.peer
      BY <2>1, <2>2 DEF ConnectionsOK, ThreadsOK, BacklogOK, ConnectedTo, ConnectedAfter
    <2>4. \A p \in Proxies : \A i \in 1 .. Len(backlog[p]) :
             backlog[p][i] # t.peer
      BY <2>1 DEF ConnectionsOK, ThreadsOK, BacklogOK, ConnectedTo, ConnectedAfter
    <2> QED
      BY <2>1, <2>2, <2>3, <2>4, BacklogClients DEF ConnectionsOK, ThreadsOK, BacklogOK, ConnectedTo, ConnectedAfter, Others
  <1>6. ASSUME NEW c \in Clients, ReadFails(c) \/ DeliverAndFail(c)
        PROVE  ConnectionsOK'
    <2>0. PICK q \in Proxies : q = client[c].proxy
      BY <1>6, ProxyEndsClients
    <2>1. /\ ProxyEnds(q)
          /\ \A d \in Clients, p \in Proxies \ {q} :
                ConnectedTo(d, p) => client'[d] = client[d]
      BY <1>6, <2>0, ProxyEndsClients DEF ConnectedTo
    <2>2. /\ threads'[q] = {}
          /\ backlog'[q] = <<>>
          /\ \A p \in Proxies \ {q} : threads'[p] = threads[p] /\ backlog'[p] = backlog[p]
      BY <2>1 DEF ProxyEnds, TypeOK
    <2>3. Len(backlog'[q]) = 0
      BY <2>2
    <2> QED
      BY <2>1, <2>2, <2>3, BacklogClients DEF ConnectionsOK, ThreadsOK, BacklogOK, ConnectedTo, ConnectedAfter
  <1>7. CASE UNCHANGED vars
    BY <1>7 DEF vars, proxy, ConnectionsOK, ThreadsOK, BacklogOK, ConnectedTo, ConnectedAfter
  <1> QED
    BY <1>1, <1>2, <1>3, <1>4, <1>5, <1>6, <1>7, AsideSteps
    DEF Next, HandlerStep, ClientStep, ThreadStep, Finished

-----------------------------------------------------------------------------
\* What is stored.

LEMMA ClientsStoredStep ==
    ASSUME IInv, UNCHANGED stored, \A d \in Clients : tried[d] \subseteq tried'[d],
           \A d \in Clients :
              \/ client'[d] = client[d]
              \/ client'[d].pc \notin Setting \ {"connected"}
              \/ /\ client[d].pc \in Setting \ {"connected", "acked"}
                 /\ client'[d].pc # "acked"
                 /\ client'[d].key = client[d].key
              \/ /\ client'[d].pc = "checked"
                 /\ client'[d].key \in Keys \ tried[d]
              \/ \E s \in StripeIds : <<d, client'[d].key>> \in stored[s]
                    /\ client'[d].pc = "acked"
    PROVE  ClientsStored'
  <1>1. \A v : Unstored(v)' <=> Unstored(v)
    BY DEF Unstored
  <1> QED
    BY <1>1 DEF IInv, StoredOK, ClientsStored, Setting

LEMMA HandlersStored ==
    ASSUME IInv, NEW c \in Clients,
           \/ \E k \in Keys : CheckKey(c, k)
           \/ LoadStripeId(c)
           \/ StoreStripeId(c)
           \/ RegisterObject(c)
           \/ \E p \in Proxies : StartEncode(c, p)
    PROVE  ClientsStored'
  <1> USE DEF IInv
  <1>1. ASSUME NEW k \in Keys, CheckKey(c, k)
        PROVE  ClientsStored'
    <2>1. UNCHANGED stored /\ \A d \in Clients : tried[d] \subseteq tried'[d]
      BY <1>1 DEF CheckKey, proxy, TypeOK
    <2> QED
      BY <1>1, <2>1, CheckKeyClient, ClientsStoredStep DEF Others
  <1>2. CASE LoadStripeId(c)
    BY <1>2, ClientsStoredStep DEF LoadStripeId, proxy, TypeOK, ClientState, Setting
  <1>3. CASE StoreStripeId(c)
    BY <1>3, ClientsStoredStep DEF StoreStripeId, proxy, TypeOK, ClientState, Setting
  <1>4. CASE RegisterObject(c)
    BY <1>4, ClientsStoredStep DEF RegisterObject, proxy, TypeOK, ClientState, Setting
  <1>5. ASSUME NEW p \in Proxies, StartEncode(c, p)
        PROVE  ClientsStored'
    <2>1. /\ UNCHANGED <<stored, tried>>
          /\ client[c].pc = "registered"
          /\ client' = [client EXCEPT ![c].pc = "told", ![c].proxy = p]
      BY <1>5 DEF StartEncode
    <2> QED
      BY <2>1, ClientsStoredStep DEF TypeOK, ClientState, Setting
  <1> QED
    BY <1>1, <1>2, <1>3, <1>4, <1>5

LEMMA ClientStepsStored ==
    ASSUME IInv, NEW c \in Clients,
           \/ Connect(c)
           \/ CommitObject(c)
           \/ ClientDies(c)
           \/ \E k \in Keys, p \in Proxies : AskForData(c, k, p)
           \/ Deliver(c)
           \/ ReadFails(c)
           \/ DeliverAndFail(c)
    PROVE  ClientsStored'
  <1> USE DEF IInv
  <1>1. CASE Connect(c)
    BY <1>1, ConnectClient, ClientsStoredStep DEF Others, Idle, Setting
  <1>2. CASE CommitObject(c)
    <2>1. UNCHANGED stored
      BY <1>2 DEF CommitObject, proxy
    <2> QED
      BY <1>2, <2>1, CommitClient, ClientsStoredStep DEF Others, Idle, Setting
  <1>3. CASE ClientDies(c)
    BY <1>3, ClientsStoredStep DEF ClientDies, TypeOK, Idle, Setting, proxy
  <1>4. ASSUME NEW k \in Keys, NEW p \in Proxies, AskForData(c, k, p)
        PROVE  ClientsStored'
    BY <1>4, ClientsStoredStep DEF AskForData, TypeOK, Setting, proxy
  <1>5. CASE Deliver(c)
    BY <1>5, ClientsStoredStep DEF Deliver, TypeOK, Idle, Setting, proxy
  <1>6. CASE ReadFails(c) \/ DeliverAndFail(c)
    BY <1>6, ProxyEndsClients, ClientsStoredStep DEF Setting
  <1> QED
    BY <1>1, <1>2, <1>3, <1>4, <1>5, <1>6

\* What waits at the proxies after a step that stores nothing.
LEMMA ThreadsStoredStep ==
    ASSUME IInv, UNCHANGED stored,
           \A p \in Proxies : \A i \in 1 .. Len(backlog'[p]) :
              /\ client'[backlog'[p][i]].key = client[backlog'[p][i]].key
              /\ \/ \E j \in 1 .. Len(backlog[p]) : backlog'[p][i] = backlog[p][j]
                 \/ /\ backlog'[p][i] \in Clients
                    /\ client[backlog'[p][i]].pc = "told",
           \A p \in Proxies : \A t \in threads'[p] : t.pc # "accept" =>
              /\ client'[t.peer].key = client[t.peer].key
              /\ \/ t \in threads[p]
                 \/ /\ t.pc = "read"
                    /\ \E j \in 1 .. Len(backlog[p]) : t.peer = backlog[p][j]
    PROVE  ThreadsStored'
  <1>1. ClientsStored /\ ThreadsStored
    BY DEF IInv, StoredOK
  <1>2. ASSUME NEW p \in Proxies, NEW i \in 1 .. Len(backlog'[p])
        PROVE  Unstored(<<backlog'[p][i], client'[backlog'[p][i]].key>>)
    <2>1. CASE \E j \in 1 .. Len(backlog[p]) : backlog'[p][i] = backlog[p][j]
      <3>1. PICK j \in 1 .. Len(backlog[p]) : backlog'[p][i] = backlog[p][j]
        BY <2>1
      <3>2. Unstored(<<backlog[p][j], client[backlog[p][j]].key>>)
        BY <1>1 DEF ThreadsStored
      <3>3. client'[backlog'[p][i]].key = client[backlog[p][j]].key
        BY <1>2, <3>1
      <3> QED
        BY <3>1, <3>2, <3>3
    <2>2. CASE backlog'[p][i] \in Clients /\ client[backlog'[p][i]].pc = "told"
      BY <1>1, <1>2, <2>2 DEF ClientsStored, Setting
    <2> QED
      BY <1>2, <2>1, <2>2
  <1>3. ASSUME NEW p \in Proxies, NEW t \in threads'[p]
        PROVE  /\ t.pc = "read" => Unstored(<<t.peer, client'[t.peer].key>>)
               /\ t.pc = "stored" =>
                     <<t.peer, client'[t.peer].key>> \in stored'[t.stripe]
    <2>1. CASE t \in threads[p]
      BY <1>1, <1>3, <2>1 DEF ThreadsStored
    <2>2. CASE t.pc = "read" /\ \E j \in 1 .. Len(backlog[p]) : t.peer = backlog[p][j]
      BY <1>1, <1>3, <2>2 DEF ThreadsStored
    <2> QED
      BY <1>3, <2>1, <2>2
  <1> QED
    BY <1>2, <1>3 DEF ThreadsStored, Unstored

LEMMA BlocksStored ==
    ASSUME IInv, NEW q \in Proxies, NEW t \in threads[q], StoreBlocks(q, t)
    PROVE  StoredOK'
  <1> USE DEF IInv
  <1> DEFINE v == <<t.peer, client[t.peer].key>>
             new == [t EXCEPT !.pc = "stored"]
  <1>1. /\ t \in Thread
        /\ t.pc = "read"
        /\ t.peer \in Clients
        /\ ConnectedTo(t.peer, q)
    BY DEF StoreBlocks, TypeOK, ConnectionsOK, ThreadsOK
  <1>2. /\ t.stripe \in StripeIds
        /\ new.pc = "stored"
        /\ new.peer = t.peer
        /\ new.stripe = t.stripe
        /\ client[t.peer].key \in tried[t.peer]
    BY <1>1 DEF Thread, ClientsOK, ConnectedTo, Setting
  <1>3. /\ UNCHANGED <<client, tried, backlog>>
        /\ stored' = [stored EXCEPT ![t.stripe] = @ \cup {v}]
        /\ threads'[q] = (threads[q] \ {t}) \cup {new}
        /\ \A p \in Proxies \ {q} : threads'[p] = threads[p]
    BY DEF StoreBlocks, Advance, TypeOK
  <1>4. Unstored(v)
    BY <1>1 DEF StoredOK, ThreadsStored
  <1> HIDE DEF new
  <1>5. /\ \A w : w # v => (Unstored(w)' <=> Unstored(w))
        /\ \A s \in StripeIds : stored[s] \subseteq stored'[s]
        /\ v \in stored'[t.stripe]
        /\ \A s \in StripeIds : v \in stored'[s] => s = t.stripe
    BY <1>2, <1>3, <1>4 DEF Unstored, TypeOK
  <1>6. ClientsStored'
    BY <1>1, <1>2, <1>3, <1>5 DEF StoredOK, ClientsStored, ConnectedTo, Setting
  <1>7. ThreadsStored'
    <2>1. ASSUME NEW p \in Proxies, NEW i \in 1 .. Len(backlog[p])
          PROVE  Unstored(<<backlog[p][i], client[backlog[p][i]].key>>)'
      <3>1. backlog[p][i] # t.peer
        BY <1>1, <2>1 DEF ConnectionsOK, BacklogOK, ConnectedTo
      <3> QED
        BY <1>3, <1>5, <3>1 DEF StoredOK, ThreadsStored
    <2>2. ASSUME NEW p \in Proxies, NEW u \in threads'[p], u # new, u.pc # "accept"
          PROVE  u.peer # t.peer /\ u \in threads[p] /\ u.stripe \in StripeIds
      <3>1. u \in threads[p] /\ (p = q => u # t)
        BY <1>3, <2>2
      <3> QED
        BY <1>1, <2>2, <3>1 DEF ConnectionsOK, ThreadsOK, ConnectedTo, TypeOK, Thread
    <2>3. ASSUME NEW p \in Proxies, NEW u \in threads'[p]
          PROVE  /\ u.pc = "read" => Unstored(<<u.peer, client[u.peer].key>>)'
                 /\ u.pc = "stored" =>
                       <<u.peer, client[u.peer].key>> \in stored'[u.stripe]
      <3>1. CASE u = new
        BY <1>2, <1>5, <3>1
      <3>2. CASE u # new /\ u.pc # "accept"
        <4>1. u \in threads[p] /\ <<u.peer, client[u.peer].key>> # v
          BY <2>2, <2>3, <3>2
        <4>2. /\ u.pc = "read" => Unstored(<<u.peer, client[u.peer].key>>)
              /\ u.pc = "stored" =>
                    <<u.peer, client[u.peer].key>> \in stored[u.stripe]
          BY <4>1 DEF StoredOK, ThreadsStored
        <4> QED
          BY <1>3, <1>5, <2>2, <2>3, <3>2, <4>1, <4>2
      <3>3. CASE u # new /\ u.pc = "accept"
        BY <3>3
      <3> QED
        BY <3>1, <3>2, <3>3
    <2> QED
      BY <1>3, <2>1, <2>3 DEF ThreadsStored
  <1>8. StoredApart'
    <2>1. \A s \in StripeIds : \A w \in stored'[s] : w # v => w \in stored[s]
      BY <1>2, <1>3 DEF TypeOK
    <2> QED
      BY <1>5, <2>1 DEF StoredOK, StoredApart
  <1> QED
    BY <1>6, <1>7, <1>8 DEF StoredOK

LEMMA NextStoredOK ==
    ASSUME IInv, [Next]_vars
    PROVE  StoredOK'
  <1> USE DEF IInv
  <1>1. ASSUME UNCHANGED stored
        PROVE  StoredApart'
    BY <1>1 DEF StoredOK, StoredApart
  <1>2. ASSUME Aside
        PROVE  ThreadsStored' /\ StoredApart'
    <2>1. \A p \in Proxies : \A i \in 1 .. Len(backlog'[p]) :
             /\ client'[backlog'[p][i]].key = client[backlog'[p][i]].key
             /\ \E j \in 1 .. Len(backlog[p]) : backlog'[p][i] = backlog[p][j]
      BY <1>2, BacklogClients DEF Aside, ConnectionsOK, BacklogOK, ConnectedTo
    <2>2. \A p \in Proxies : \A t \in threads'[p] : t.pc # "accept" =>
             /\ client'[t.peer].key = client[t.peer].key
             /\ t \in threads[p]
      BY <1>2 DEF Aside, ConnectionsOK, ThreadsOK, ConnectedTo
    <2> QED
      BY <1>1, <1>2, <2>1, <2>2, ThreadsStoredStep DEF Aside
  <1>3. ASSUME NEW c \in Clients, Connect(c)
        PROVE  ThreadsStored' /\ StoredApart'
    <2>1. CASE client'[c] = Idle /\ backlog' = backlog
      BY <1>2, <1>3, <2>1, ConnectClient DEF Aside, Others, Idle
    <2>2. CASE ~(client'[c] = Idle /\ backlog' = backlog)
      <3>1. PICK q \in Proxies : q = client[c].proxy
        BY <1>3, ConnectClient DEF ClientsOK
      <3>2. /\ UNCHANGED <<threads, stored>>
            /\ client[c].pc = "told"
            /\ Others(c)
            /\ \A d \in Clients : client'[d].key = client[d].key
            /\ backlog' = [backlog EXCEPT ![q] = Append(@, c)]
        BY <1>3, <2>2, <3>1, ConnectClient DEF Others
      <3>3. ASSUME NEW p \in Proxies, NEW i \in 1 .. Len(backlog'[p])
            PROVE  \/ \E j \in 1 .. Len(backlog[p]) : backlog'[p][i] = backlog[p][j]
                   \/ backlog'[p][i] = c
        <4>1. CASE p = q
          <5>1. backlog'[q] = Append(backlog[q], c)
            BY <3>2 DEF TypeOK
          <5> QED
            BY <3>3, <4>1, <5>1, BacklogAppend
        <4>2. CASE p # q
          BY <3>2, <3>3, <4>2 DEF TypeOK
        <4> QED
          BY <4>1, <4>2
      <3>4. \A p \in Proxies : \A i \in 1 .. Len(backlog'[p]) :
               /\ client'[backlog'[p][i]].key = client[backlog'[p][i]].key
               /\ \/ \E j \in 1 .. Len(backlog[p]) : backlog'[p][i] = backlog[p][j]
                  \/ /\ backlog'[p][i] \in Clients
                     /\ client[backlog'[p][i]].pc = "told"
        BY <3>2, <3>3, BacklogClients
      <3>5. \A p \in Proxies : \A t \in threads'[p] : t.pc # "accept" =>
               /\ client'[t.peer].key = client[t.peer].key
               /\ t \in threads[p]
        BY <3>2 DEF ConnectionsOK, ThreadsOK
      <3> QED
        BY <1>1, <3>2, <3>4, <3>5, ThreadsStoredStep
    <2> QED
      BY <2>1, <2>2
  <1>4. ASSUME NEW q \in Proxies, NEW t \in threads[q], Accept(q, t)
        PROVE  StoredOK'
    <2> DEFINE new == [t EXCEPT !.pc = "read", !.peer = Head(backlog[q])]
    <2>1. /\ t \in Thread
          /\ backlog[q] # <<>>
          /\ UNCHANGED <<client, tried, stored>>
          /\ threads' = [threads EXCEPT ![q] = (@ \ {t}) \cup {new}]
          /\ backlog' = [backlog EXCEPT ![q] = Tail(@)]
      BY <1>4 DEF Accept, Advance, TypeOK
    <2>2. new.pc = "read" /\ new.peer = backlog[q][1] /\ 1 \in 1 .. Len(backlog[q])
      BY <2>1, BacklogTail DEF Thread
    <2> HIDE DEF new
    <2>3. \A p \in Proxies : \A u \in threads'[p] : u.pc # "accept" =>
             \/ u \in threads[p]
             \/ u.pc = "read" /\ \E j \in 1 .. Len(backlog[p]) : u.peer = backlog[p][j]
      BY <2>1, <2>2 DEF TypeOK
    <2>4. ASSUME NEW p \in Proxies, NEW i \in 1 .. Len(backlog'[p])
          PROVE  \E j \in 1 .. Len(backlog[p]) : backlog'[p][i] = backlog[p][j]
      <3>1. CASE p = q
        <4>1. backlog'[q] = Tail(backlog[q])
          BY <2>1 DEF TypeOK
        <4>2. /\ Len(backlog[q]) \in Nat
              /\ Len(backlog'[q]) = Len(backlog[q]) - 1
              /\ \A m \in 1 .. Len(backlog'[q]) : backlog'[q][m] = backlog[q][m + 1]
          BY <2>1, <4>1, BacklogTail
        <4>3. /\ i + 1 \in 1 .. Len(backlog[q])
              /\ backlog'[q][i] = backlog[q][i + 1]
          BY <2>4, <3>1, <4>2
        <4> QED
          BY <3>1, <4>3
      <3>2. CASE p # q
        BY <2>1, <2>4, <3>2 DEF TypeOK
      <3> QED
        BY <3>1, <3>2
    <2>5. ThreadsStored'
      BY <2>1, <2>3, <2>4, ThreadsStoredStep
    <2>6. ClientsStored'
      BY <2>1, ClientsStoredStep
    <2> QED
      BY <1>1, <2>1, <2>5, <2>6 DEF StoredOK
  <1>5. ASSUME NEW q \in Proxies, NEW t \in threads[q], SendFinish(q, t)
        PROVE  StoredOK'
    <2>1. /\ t.pc = "stored"
          /\ t \in Thread
          /\ t.peer \in Clients
          /\ UNCHANGED <<tried, backlog, stored>>
          /\ threads' = [threads EXCEPT ![q] = @ \ {t}]
          /\ client' = [client EXCEPT ![t.peer].pc = "acked"]
      BY <1>5 DEF SendFinish, ConnectionsOK, ThreadsOK, TypeOK
    <2>2. /\ \A d \in Clients : client'[d].key = client[d].key
          /\ client'[t.peer].pc = "acked"
          /\ Others(t.peer)
      BY <2>1 DEF TypeOK, ClientState, Others
    <2>3. \A p \in Proxies : \A u \in threads'[p] : u.pc # "accept" =>
             u \in threads[p] /\ u.peer \in Clients
      BY <2>1 DEF TypeOK, ConnectionsOK, ThreadsOK
    <2>4. ThreadsStored'
      BY <2>1, <2>2, <2>3, BacklogClients, ThreadsStoredStep
    <2>5. \E s \in StripeIds : <<t.peer, client'[t.peer].key>> \in stored[s]
      BY <2>1, <2>2 DEF Thread, StoredOK, ThreadsStored
    <2>6. ClientsStored'
      BY <2>1, <2>2, <2>5, ClientsStoredStep DEF Others
    <2> QED
      BY <1>1, <2>1, <2>4, <2>6 DEF StoredOK
  <1>6. ASSUME NEW c \in Clients, ReadFails(c) \/ DeliverAndFail(c)
        PROVE  ThreadsStored' /\ StoredApart'
    <2>1. PICK q \in Proxies : q = client[c].proxy
      BY <1>6, ProxyEndsClients
    <2>2. /\ ProxyEnds(q)
          /\ UNCHANGED stored
          /\ \A d \in Clients, p \in Proxies \ {q} :
                ConnectedTo(d, p) => client'[d] = client[d]
      BY <1>6, <2>1, ProxyEndsClients DEF ConnectedTo
    <2>3. /\ threads'[q] = {}
          /\ backlog'[q] = <<>>
          /\ Len(backlog'[q]) = 0
          /\ \A p \in Proxies \ {q} : threads'[p] = threads[p] /\ backlog'[p] = backlog[p]
      BY <2>2 DEF ProxyEnds, TypeOK
    <2>4. \A p \in Proxies : \A i \in 1 .. Len(backlog'[p]) :
             /\ p # q
             /\ i \in 1 .. Len(backlog[p])
             /\ backlog'[p][i] = backlog[p][i]
      BY <2>3
    <2>5. \A p \in Proxies \ {q} : \A i \in 1 .. Len(backlog[p]) :
             client'[backlog[p][i]] = client[backlog[p][i]]
      BY <2>2, BacklogClients DEF ConnectionsOK, BacklogOK
    <2>6. \A p \in Proxies : \A t \in threads'[p] : t.pc # "accept" =>
             t \in threads[p] /\ client'[t.peer] = client[t.peer]
      BY <2>2, <2>3 DEF ConnectionsOK, ThreadsOK
    <2>7. ThreadsStored'
      BY <2>2, <2>4, <2>5, <2>6, ThreadsStoredStep
    <2> QED
      BY <1>1, <2>2, <2>7
  <1>7. CASE UNCHANGED vars
    <2>1. UNCHANGED <<client, tried, backlog, threads, stored>>
      BY <1>7 DEF vars, proxy
    <2>2. ClientsStored'
      BY <2>1, ClientsStoredStep
    <2>3. ThreadsStored'
      BY <2>1 DEF StoredOK, ThreadsStored, Unstored
    <2> QED
      BY <1>1, <2>1, <2>2, <2>3 DEF StoredOK
  <1>8. ASSUME NEW c \in Clients,
               \/ \E k \in Keys : CheckKey(c, k)
               \/ \E k \in Keys, p \in Proxies : AskForData(c, k, p)
               \/ HandlerStep(c)
               \/ ClientStep(c)
               \/ ClientDies(c)
        PROVE  StoredOK'
    <2>1. ClientsStored'
      BY <1>8, HandlersStored, ClientStepsStored DEF HandlerStep, ClientStep
    <2>2. ThreadsStored' /\ StoredApart'
      BY <1>2, <1>3, <1>6, <1>8, AsideSteps DEF HandlerStep, ClientStep
    <2> QED
      BY <2>1, <2>2 DEF StoredOK
  <1> QED
    BY <1>4, <1>5, <1>7, <1>8, BlocksStored DEF Next, ThreadStep, Finished

-----------------------------------------------------------------------------
LEMMA InitIInv == Init => IInv
  <1> SUFFICES ASSUME Init
               PROVE  IInv
    OBVIOUS
  <1>1. TypeOK
    <2>1. Idle \in ClientState /\ 0 \in 0 .. NumSets /\ 0 \in 0 .. MaxCrashes
      BY SetsAreFinite, StoreAssumption DEF ClientState, Idle
    <2>2. /\ commited \in [Keys -> StripeIds \cup {None}]
          /\ waiting \in [Keys -> StripeIds \cup {None}]
          /\ got \in [Clients -> (Keys \X SUBSET Values) \cup {None}]
      BY DEF Init
    <2>3. /\ backlog \in [Proxies -> Seq(Clients)]
          /\ threads \in [Proxies -> SUBSET Thread]
          /\ stored \in [StripeIds -> SUBSET Values]
      BY DEF Init
    <2>4. /\ client \in [Clients -> ClientState]
          /\ tried \in [Clients -> SUBSET Keys]
          /\ mine \in [Clients -> SUBSET Keys]
          /\ dead \subseteq Proxies
          /\ down \in BOOLEAN
      BY <2>1 DEF Init
    <2>5. next_stripe_id \in 0 .. NumSets /\ crashes \in 0 .. MaxCrashes
      BY <2>1 DEF Init
    <2> QED
      BY <2>2, <2>3, <2>4, <2>5 DEF TypeOK
  <1>2. ClientsOK
    BY DEF Init, ClientsOK, Setting, Idle
  <1>3. IdsOK
    BY <1>1, <1>2, NumberedIsFinite DEF Init, IdsOK, Idle
  <1>4. ConnectionsOK
    BY DEF Init, ConnectionsOK, ThreadsOK, BacklogOK
  <1>5. StoredOK
    BY DEF Init, StoredOK, ClientsStored, ThreadsStored, StoredApart, Unstored,
           Setting, Idle
  <1> QED
    BY <1>1, <1>2, <1>3, <1>4, <1>5 DEF IInv

LEMMA Invariance == Spec => []IInv
  <1>1. IInv /\ [Next]_vars => IInv'
    BY NextTypeOK, NextClientsOK, NextIdsOK, NextConnectionsOK, NextStoredOK
    DEF IInv
  <1> QED
    BY InitIInv, <1>1, PTL DEF Spec

\* ObjectStore's state has its types: ids stay below the number of sets however
\* the RPC threads' loads and stores of next_stripe_id_ interleave.
THEOREM StoreTypes == Spec => []TypeOK
  <1>1. IInv => TypeOK
    BY DEF IInv
  <1> QED
    BY Invariance, <1>1, PTL

\* A value whose set was acknowledged is on the datanodes under some stripe,
\* whichever thread of start_encode_and_store_object accepted its connection.
THEOREM AcknowledgedAreStored == Spec => []AckedIsStored
  <1>1. IInv => AckedIsStored
    BY DEF IInv, StoredOK, ClientsStored, AckedIsStored
  <1> QED
    BY Invariance, <1>1, PTL

\* Threads that take each other's connections swap the values of two sets, and
\* never store one under two stripes.
THEOREM ValuesAreStoredOnce == Spec => []StoredOnce
  <1>1. ASSUME IInv
        PROVE  StoredOnce
    <2> SUFFICES ASSUME NEW v \in Values
                 PROVE  Cardinality({s \in StripeIds : v \in stored[s]}) <= 1
      BY DEF StoredOnce
    <2> DEFINE S == {s \in StripeIds : v \in stored[s]}
    <2>1. \A r, s \in S : r = s
      BY <1>1 DEF IInv, StoredOK, StoredApart
    <2>2. S = {} \/ \E s \in S : S = {s}
      BY <2>1
    <2> HIDE DEF S
    <2>3. Cardinality(S) <= 1
      <3>1. CASE S = {}
        BY <3>1, FS_EmptySet
      <3>2. ASSUME NEW s \in S, S = {s}
            PROVE  Cardinality(S) <= 1
        <4>1. Cardinality({s}) = 1
          BY FS_Singleton
        <4> QED
          BY <3>2, <4>1
      <3> QED
        BY <2>2, <3>1, <3>2
    <2> QED
      BY <2>3 DEF S
  <1> QED
    BY Invariance, <1>1, PTL

-----------------------------------------------------------------------------
\* The assertion of commit_object.

LEMMA NextCommitsOK ==
    ASSUME OwnKeys, IInv, CommitsOK, [Next]_vars
    PROVE  CommitsOK'
  <1> USE DEF IInv
  <1>1. ASSUME UNCHANGED <<commited, waiting>>,
               \A d \in Clients :
                  \/ client'[d].pc \notin Setting
                  \/ /\ client[d].pc \in Setting
                     /\ client'[d].key = client[d].key
                     /\ client'[d].pc \in {"registered", "told", "connected", "acked"} =>
                           client[d].pc \in {"registered", "told", "connected", "acked"}
                  \/ client'[d].pc = "checked" /\ commited[client'[d].key] = None
        PROVE  CommitsOK'
    BY <1>1 DEF CommitsOK, Setting
  <1>2. ASSUME NEW c \in Clients, NEW k \in Keys, CheckKey(c, k)
        PROVE  CommitsOK'
    <2>1. UNCHANGED <<commited, waiting>>
      BY <1>2 DEF CheckKey
    <2> QED
      BY <1>1, <1>2, <2>1, CheckKeyClient DEF Others, Setting
  <1>3. ASSUME NEW c \in Clients,
               LoadStripeId(c) \/ StoreStripeId(c) \/ \E p \in Proxies : StartEncode(c, p)
        PROVE  CommitsOK'
    <2>1. UNCHANGED <<commited, waiting>>
      BY <1>3 DEF LoadStripeId, StoreStripeId, StartEncode, coordinator
    <2>2. \A d \in Clients :
             \/ client'[d] = client[d]
             \/ /\ client'[d].key = client[d].key
                /\ client[d].pc \in Setting
                /\ client'[d].pc \in {"registered", "told", "connected", "acked"} =>
                      client[d].pc = "registered"
      BY <1>3 DEF LoadStripeId, StoreStripeId, StartEncode, TypeOK, ClientState, Setting
    <2> QED
      BY <1>1, <2>1, <2>2
  <1>4. ASSUME NEW c \in Clients, RegisterObject(c)
        PROVE  CommitsOK'
    <2>1. /\ client[c].pc = "planned"
          /\ client[c].key \in Keys
          /\ client[c].stripe \in StripeIds
          /\ client[c].stripe # None
      BY <1>4, StoreAssumption DEF RegisterObject, ClientsOK, Setting, TypeOK
    <2>2. /\ commited' = commited
          /\ waiting' = [waiting EXCEPT ![client[c].key] = client[c].stripe]
          /\ client'[c].key = client[c].key
          /\ Others(c)
      BY <1>4 DEF RegisterObject, TypeOK, ClientState, Others
    <2>3. \A k \in Keys : waiting[k] # None => waiting'[k] # None
      BY <2>1, <2>2 DEF TypeOK
    <2>4. waiting'[client[c].key] # None
      BY <2>1, <2>2 DEF TypeOK
    <2>5. \A d \in Clients : client[d].pc \in Setting => client[d].key \in Keys
      BY DEF ClientsOK, TypeOK
    <2> QED
      BY <2>1, <2>2, <2>3, <2>4, <2>5 DEF CommitsOK, Others, Setting
  <1>5. ASSUME NEW c \in Clients, CommitObject(c)
        PROVE  CommitsOK'
    <2>1. CASE UNCHANGED <<client, commited, waiting>>
      BY <1>1, <2>1
    <2>2. CASE ~UNCHANGED <<client, commited, waiting>>
      <3>1. /\ client'[c] = Idle
            /\ commited' = [commited EXCEPT ![client[c].key] = waiting[client[c].key]]
            /\ waiting' = [waiting EXCEPT ![client[c].key] = None]
            /\ client[c].pc = "acked"
            /\ Others(c)
        BY <1>5, <2>2, CommitClient
      <3>2. client[c].key \in MaySet[c]
        BY <3>1 DEF ClientsOK, Setting
      <3>3. \A d \in Clients \ {c} : client[d].pc \in Setting =>
               /\ client[d].key \in Keys
               /\ client[d].key # client[c].key
        BY <3>2 DEF OwnKeys, ClientsOK, TypeOK
      <3>4. \A d \in Clients \ {c} : client[d].pc \in Setting =>
               /\ commited'[client[d].key] = commited[client[d].key]
               /\ waiting'[client[d].key] = waiting[client[d].key]
        BY <3>1, <3>3 DEF TypeOK
      <3> QED
        BY <3>1, <3>4 DEF CommitsOK, Others, Idle, Setting
    <2> QED
      BY <2>1, <2>2
  <1>6. ASSUME NEW c \in Clients, Connect(c)
        PROVE  CommitsOK'
    BY <1>1, <1>6, ConnectClient DEF Others, Idle, Setting, coordinator
  <1>7. ASSUME NEW c \in Clients,
               ClientDies(c) \/ Deliver(c) \/ \E k \in Keys, p \in Proxies : AskForData(c, k, p)
        PROVE  CommitsOK'
    <2>1. UNCHANGED <<commited, waiting>>
      BY <1>7 DEF ClientDies, Deliver, AskForData, coordinator
    <2>2. \A d \in Clients : client'[d] = client[d] \/ client'[d].pc \notin Setting
      BY <1>7 DEF ClientDies, Deliver, AskForData, TypeOK, Idle, Setting
    <2> QED
      BY <1>1, <2>1, <2>2
  <1>8. ASSUME NEW c \in Clients, ReadFails(c) \/ DeliverAndFail(c)
        PROVE  CommitsOK'
    BY <1>1, <1>8, ProxyEndsClients DEF Setting, coordinator
  <1>9. ASSUME NEW p \in Proxies, NEW t \in threads[p], SendFinish(p, t)
        PROVE  CommitsOK'
    <2>1. t.peer \in Clients /\ client[t.peer].pc = "connected"
      BY <1>9 DEF SendFinish, ConnectionsOK, ThreadsOK, ConnectedTo
    <2> QED
      BY <1>1, <1>9, <2>1 DEF SendFinish, TypeOK, ClientState, coordinator, Setting
  <1>10. ASSUME UNCHANGED <<client, commited, waiting>>
         PROVE  CommitsOK'
    BY <1>1, <1>10
  <1> QED
    BY <1>2, <1>3, <1>4, <1>5, <1>6, <1>7, <1>8, <1>9, <1>10
    DEF Next, HandlerStep, ClientStep, ThreadStep, Finished, Accept, StoreBlocks,
        vars, coordinator

\* commit_object's assertions never fail while no two clients set the same key.
THEOREM CommitAssertsHold ==
    ASSUME OwnKeys
    PROVE  Spec => []CommitAssertHolds
  <1>1. Init => CommitsOK
    BY DEF Init, CommitsOK, Setting, Idle
  <1>2. IInv /\ CommitsOK /\ [Next]_vars => CommitsOK'
    BY NextCommitsOK
  <1>3. CommitsOK => CommitAssertHolds
    BY DEF CommitsOK, CommitAssertHolds, Setting
  <1> QED
    BY Invariance, <1>1, <1>2, <1>3, PTL DEF Spec

-----------------------------------------------------------------------------
\* Sets that do not overlap, any number of gets beside them, and no client that
\* is cut short: a set's thread then accepts its own client, and ids are new.

OneSet ==
    \A c, d \in Clients : client[c].pc \in Setting /\ client[d].pc \in Setting => c = d

\* A proxy has a thread for the set in progress, or none.
ThreadOfSet ==
    \A p \in Proxies :
        /\ \A t, u \in threads[p] : t = u
        /\ \A t \in threads[p] :
              /\ p \notin dead
              /\ client[t.for].pc \in {"told", "connected"}
              /\ client[t.for].proxy = p
              /\ client[t.for].stripe = t.stripe

\* A committed stripe has the one value that was set, and ids not taken have none.
StripesOK ==
    /\ \A s \in StripeIds : s >= next_stripe_id => stored[s] = {}
    /\ \A k \in Keys : commited[k] # None =>
          /\ commited[k] < next_stripe_id
          /\ \E c \in Clients : stored[commited[k]] = {<<c, k>>}
    /\ \A c \in Clients : \A k \in mine[c] :
          commited[k] # None /\ stored[commited[k]] = {<<c, k>>}

\* The stripe of a set is no committed one, and waits for the commit.
OwnStripe(c) ==
    /\ client[c].pc \in Setting => commited[client[c].key] = None
    /\ client[c].pc = "taking" => client[c].stripe = next_stripe_id
    /\ client[c].pc \in {"planned", "registered", "told", "connected", "acked"} =>
          /\ client[c].stripe < next_stripe_id
          /\ \A k \in Keys : commited[k] # client[c].stripe
    /\ client[c].pc \in {"registered", "told", "connected", "acked"} =>
          waiting[client[c].key] = client[c].stripe
    /\ client[c].pc = "getting" =>
          /\ client[c].key \in mine[c]
          /\ commited[client[c].key] = client[c].stripe

\* It has nothing until its thread writes the value of the set.
OwnValue(c) ==
    /\ client[c].pc \in {"planned", "registered", "told"} =>
          stored[client[c].stripe] = {}
    /\ client[c].pc = "connected" =>
          stored[client[c].stripe] \subseteq {<<c, client[c].key>>}
    /\ client[c].pc = "acked" =>
          stored[client[c].stripe] = {<<c, client[c].key>>}

SetOK(c) == OwnStripe(c) /\ OwnValue(c)

SetsInv == ThreadOfSet /\ StripesOK /\ \A c \in Clients : SetOK(c)

\* What KVStore sees.
Map == [k \in Keys |-> IF commited[k] = None THEN None ELSE stored[commited[k]]]

MapStep == KV!Next \/ UNCHANGED <<Map, got>>

LEMMA MapStays ==
    ASSUME UNCHANGED <<commited, got>>,
           \A k \in Keys : commited[k] # None =>
               stored'[commited[k]] = stored[commited[k]]
    PROVE  MapStep
  BY DEF MapStep, Map

LEMMA MapPut ==
    ASSUME NEW c \in Clients, NEW k \in Keys,
           Map[k] = None, Map' = [Map EXCEPT ![k] = {<<c, k>>}], got' = got
    PROVE  MapStep
  <1>1. KV!Put(c, k)
    BY DEF KV!Put, KV!Value, Map
  <1> QED
    BY <1>1 DEF MapStep, KV!Next

LEMMA MapRead ==
    ASSUME NEW c \in Clients, NEW k \in Keys,
           Map[k] # None, Map' = Map, got' = [got EXCEPT ![c] = <<k, Map[k]>>]
    PROVE  MapStep
  <1>1. KV!Read(c, k)
    BY DEF KV!Read, Map
  <1> QED
    BY <1>1 DEF MapStep, KV!Next

LEMMA ClientFacts ==
    ASSUME IInv, NEW c \in Clients
    PROVE  /\ client \in [Clients -> ClientState]
           /\ client[c] \in ClientState
           /\ next_stripe_id \in Nat
           /\ None \notin StripeIds
           /\ commited \in [Keys -> StripeIds \cup {None}]
           /\ waiting \in [Keys -> StripeIds \cup {None}]
           /\ client[c].pc \in Setting \cup {"getting"} => client[c].key \in Keys
           /\ client[c].pc \in (Setting \ {"checked"}) \cup {"getting"} =>
                 client[c].stripe \in StripeIds
           /\ client[c].pc \in {"told", "connected", "acked", "getting"} =>
                 client[c].proxy \in Proxies
           /\ mine[c] \subseteq Keys
           /\ StripeIds \subseteq Nat
  <1>1. next_stripe_id \in Nat /\ StripeIds \subseteq Nat
    BY SetsAreFinite DEF IInv, TypeOK, StripeIds
  <1>2. client[c].pc \in Setting => client[c].key \in Keys
    BY DEF IInv, TypeOK, ClientsOK
  <1> QED
    BY <1>1, <1>2, StoreAssumption DEF IInv, TypeOK, ClientsOK, Setting

\* The clients that a step leaves where they are.
LEMMA ReaderStays ==
    ASSUME SetsInv, NEW d \in Clients, client'[d] = client[d], mine'[d] = mine[d],
           client[d].pc \notin Setting,
           \A k \in mine[d] : commited'[k] = commited[k]
    PROVE  SetOK(d)'
  BY DEF SetsInv, SetOK, OwnStripe, OwnValue, Setting

LEMMA ClientStays ==
    ASSUME SetsInv, NEW d \in Clients,
           UNCHANGED <<commited, waiting, next_stripe_id, stored, mine>>,
           client'[d] = client[d] \/ client'[d].pc \in {"idle", "hung"}
    PROVE  SetOK(d)'
  BY DEF SetsInv, SetOK, OwnStripe, OwnValue, Setting

LEMMA StripesStay ==
    ASSUME SetsInv, UNCHANGED <<commited, next_stripe_id, stored, mine>>
    PROVE  StripesOK'
  BY DEF SetsInv, StripesOK

LEMMA ThreadsAreForSets ==
    ASSUME IInv, SetsInv, NEW p \in Proxies, NEW t \in threads[p]
    PROVE  /\ t \in Thread
           /\ t.for \in Clients
           /\ client[t.for].pc \in {"told", "connected"}
           /\ client[t.for].proxy = p
  <1>1. t \in Thread
    BY DEF IInv, TypeOK
  <1>2. t.for \in Clients
    BY <1>1 DEF Thread
  <1> QED
    BY <1>1, <1>2 DEF SetsInv, ThreadOfSet

\* While a client sets, the others do not, and all threads are its own.
LEMMA OthersDoNotSet ==
    ASSUME IInv, SetsInv, OneSet, NEW c \in Clients, client[c].pc \in Setting
    PROVE  /\ \A d \in Clients \ {c} : client[d].pc \notin Setting
           /\ \A p \in Proxies : \A t \in threads[p] :
                 /\ t.for = c
                 /\ client[c].pc \in {"told", "connected"}
                 /\ client[c].proxy = p
  <1>1. \A p \in Proxies : \A t \in threads[p] : t.for \in Clients
    BY DEF IInv, TypeOK, Thread
  <1> QED
    BY <1>1 DEF SetsInv, ThreadOfSet, OneSet, Setting

-----------------------------------------------------------------------------
\* The steps of a set.

\* The handler until the proxy is called.
LEMMA HandlerIsQuiet ==
    ASSUME IInv, SetsInv, OneSet, OneSet', NEW c \in Clients,
           \/ \E k \in Keys : CheckKey(c, k)
           \/ LoadStripeId(c)
           \/ StoreStripeId(c)
           \/ RegisterObject(c)
    PROVE  SetsInv' /\ MapStep
  <1> USE ClientFacts
  <1>1. /\ UNCHANGED <<commited, threads, dead, stored, got, mine>>
        /\ Others(c)
        /\ client[c].pc \notin {"told", "connected", "acked", "getting"}
        /\ \/ client'[c] = client[c] /\ UNCHANGED <<waiting, next_stripe_id>>
           \/ /\ client'[c].pc \in {"checked", "taking", "planned", "registered"}
              /\ client'[c].pc # client[c].pc
    <2>1. CASE \E k \in Keys : CheckKey(c, k)
      <3>1. PICK k \in Keys : CheckKey(c, k)
        BY <2>1
      <3>2. UNCHANGED <<threads, dead, stored, got, mine, waiting, next_stripe_id>>
        BY <3>1 DEF CheckKey, proxy
      <3>3. /\ commited' = commited
            /\ Others(c)
            /\ client[c].pc = "idle"
            /\ client'[c] = client[c] \/ client'[c].pc = "checked"
        BY <3>1, CheckKeyClient DEF IInv
      <3> QED
        BY <3>2, <3>3
    <2>2. CASE LoadStripeId(c)
      BY <2>2 DEF LoadStripeId, ClientState, proxy, coordinator, Others
    <2>3. CASE StoreStripeId(c)
      BY <2>3 DEF StoreStripeId, ClientState, proxy, coordinator, Others
    <2>4. CASE RegisterObject(c)
      BY <2>4 DEF RegisterObject, ClientState, proxy, coordinator, Others
    <2> QED
      BY <2>1, <2>2, <2>3, <2>4
  <1>2. MapStep
    BY <1>1, MapStays
  <1>3. ThreadOfSet'
    <2>1. \A p \in Proxies : \A t \in threads[p] :
             t.for \in Clients \ {c}
      BY <1>1, ThreadsAreForSets
    <2> QED
      BY <1>1, <2>1 DEF Others, SetsInv, ThreadOfSet
  <1>4. CASE client'[c] = client[c] /\ UNCHANGED <<waiting, next_stripe_id>>
    <2>1. \A d \in Clients : client'[d] = client[d]
      BY <1>1, <1>4 DEF Others
    <2>2. \A d \in Clients : SetOK(d)'
      BY <1>1, <1>4, <2>1, ClientStays
    <2> QED
      BY <1>1, <1>2, <1>3, <1>4, <2>2, StripesStay DEF SetsInv
  <1>5. CASE /\ client'[c].pc \in {"checked", "taking", "planned", "registered"}
             /\ client'[c].pc # client[c].pc
    <2>1. \A d \in Clients \ {c} : client[d].pc \notin Setting
      BY <1>1, <1>5 DEF OneSet, Others, Setting
    <2>2. \A d \in Clients \ {c} : SetOK(d)'
      BY <1>1, <2>1, ReaderStays DEF Others
    <2>3. SetOK(c)' /\ StripesOK'
      <3>1. ASSUME NEW k \in Keys, CheckKey(c, k)
            PROVE  SetOK(c)' /\ StripesOK'
        <4>1. /\ client'[c].pc = "checked"
              /\ client'[c].key = k
              /\ commited[k] = None
              /\ next_stripe_id' = next_stripe_id
          BY <1>5, <3>1, CheckKeyClient DEF IInv
        <4>2. StripesOK'
          BY <1>1, <4>1, StripesStay
        <4> QED
          BY <1>1, <4>1, <4>2 DEF SetOK, OwnStripe, OwnValue
      <3>2. CASE LoadStripeId(c)
        <4>1. /\ client[c].pc = "checked"
              /\ client'[c].pc = "taking"
              /\ client'[c].key = client[c].key
              /\ client'[c].stripe = next_stripe_id
              /\ next_stripe_id' = next_stripe_id
          BY <3>2 DEF LoadStripeId, ClientState, coordinator
        <4>2. StripesOK'
          BY <1>1, <4>1, StripesStay
        <4> QED
          BY <1>1, <4>1, <4>2 DEF SetsInv, SetOK, OwnStripe, OwnValue, Setting
      <3>3. CASE StoreStripeId(c)
        <4>1. /\ client[c].pc = "taking"
              /\ client'[c].pc = "planned"
              /\ client'[c].key = client[c].key
              /\ client'[c].stripe = client[c].stripe
              /\ next_stripe_id' = client[c].stripe + 1
          BY <3>3 DEF StoreStripeId, ClientState
        <4>2. /\ client[c].stripe = next_stripe_id
              /\ client[c].stripe \in StripeIds
              /\ commited[client[c].key] = None
          BY <4>1 DEF SetsInv, SetOK, OwnStripe, Setting
        <4>3. \A k \in Keys : commited[k] # None =>
                 commited[k] \in Nat /\ commited[k] < next_stripe_id
          BY DEF SetsInv, StripesOK
        <4>4. OwnStripe(c)'
          BY <1>1, <4>1, <4>2, <4>3 DEF OwnStripe, Setting
        <4>5. stored[client[c].stripe] = {}
          BY <4>2 DEF SetsInv, StripesOK
        <4>6. OwnValue(c)'
          BY <1>1, <4>1, <4>5 DEF OwnValue
        <4>7. StripesOK'
          <5>1. \A k \in Keys : commited[k] # None => commited[k] < next_stripe_id'
            BY <4>1, <4>2, <4>3
          <5>2. \A s \in StripeIds : s >= next_stripe_id' => stored[s] = {}
            BY <4>1, <4>2 DEF SetsInv, StripesOK
          <5> QED
            BY <1>1, <5>1, <5>2 DEF SetsInv, StripesOK
        <4> QED
          BY <4>4, <4>6, <4>7 DEF SetOK
      <3>4. CASE RegisterObject(c)
        <4>1. /\ client[c].pc = "planned"
              /\ client'[c].pc = "registered"
              /\ client'[c].stripe = client[c].stripe
              /\ client'[c].key = client[c].key
              /\ waiting' = [waiting EXCEPT ![client[c].key] = client[c].stripe]
              /\ next_stripe_id' = next_stripe_id
          BY <3>4 DEF RegisterObject, ClientState
        <4>2. waiting'[client[c].key] = client[c].stripe
          BY <4>1 DEF Setting
        <4>3. StripesOK'
          BY <1>1, <4>1, StripesStay
        <4> QED
          BY <1>1, <4>1, <4>2, <4>3 DEF SetsInv, SetOK, OwnStripe, OwnValue, Setting
      <3> QED
        BY <3>1, <3>2, <3>3, <3>4
    <2> QED
      BY <1>2, <1>3, <2>2, <2>3 DEF SetsInv
  <1> QED
    BY <1>1, <1>4, <1>5

LEMMA StartEncodeIsQuiet ==
    ASSUME IInv, SetsInv, OneSet, NEW c \in Clients, NEW p \in Proxies,
           StartEncode(c, p)
    PROVE  SetsInv' /\ MapStep
  <1> USE ClientFacts
  <1> DEFINE new == [for |-> c, key |-> client[c].key, stripe |-> client[c].stripe,
                     peer |-> None, pc |-> "accept"]
  <1>1. /\ client[c].pc = "registered"
        /\ client'[c].pc = "told"
        /\ client'[c].stripe = client[c].stripe
        /\ client'[c].key = client[c].key
        /\ client'[c].proxy = p
        /\ Others(c)
        /\ UNCHANGED <<commited, waiting, next_stripe_id, dead, stored, got, mine>>
        /\ threads' = IF p \in dead THEN threads
                      ELSE [threads EXCEPT ![p] = @ \cup {new}]
    BY DEF StartEncode, ClientState, coordinator, Others
  <1>2. /\ \A q \in Proxies : threads[q] = {}
        /\ \A d \in Clients \ {c} : client[d].pc \notin Setting
    BY <1>1, OthersDoNotSet DEF Setting
  <1>3. \A q \in Proxies : \A t \in threads'[q] : q = p /\ p \notin dead /\ t = new
    BY <1>1, <1>2 DEF IInv, TypeOK
  <1>4. ThreadOfSet'
    BY <1>1, <1>3 DEF ThreadOfSet
  <1>5. SetOK(c)'
    BY <1>1 DEF SetsInv, SetOK, OwnStripe, OwnValue, Setting
  <1>6. \A d \in Clients \ {c} : SetOK(d)'
    BY <1>1, ClientStays DEF Others
  <1> QED
    BY <1>1, <1>4, <1>5, <1>6, MapStays, StripesStay DEF SetsInv

LEMMA ConnectIsQuiet ==
    ASSUME IInv, SetsInv, OneSet, NEW c \in Clients, Connect(c)
    PROVE  SetsInv' /\ MapStep
  <1> USE ClientFacts
  <1>1. /\ client[c].pc = "told"
        /\ UNCHANGED <<commited, waiting, next_stripe_id, threads, dead, stored, got, mine>>
        /\ Others(c)
        /\ \/ client'[c] = Idle /\ client[c].proxy \in dead
           \/ /\ client'[c].pc = "connected"
              /\ client'[c].key = client[c].key
              /\ client'[c].stripe = client[c].stripe
              /\ client'[c].proxy = client[c].proxy
    BY DEF Connect, ClientState, coordinator, Others
  <1>2. \A p \in Proxies : \A t \in threads[p] :
           t.for = c /\ client[c].proxy = p /\ p \notin dead
    BY <1>1, OthersDoNotSet DEF SetsInv, ThreadOfSet, Setting
  <1>3. ThreadOfSet'
    BY <1>1, <1>2 DEF SetsInv, ThreadOfSet
  <1>4. SetOK(c)'
    <2>1. CASE client'[c] = Idle
      BY <1>1, <2>1, ClientStays DEF Idle
    <2>2. CASE client'[c] # Idle
      BY <1>1, <2>2 DEF SetsInv, SetOK, OwnStripe, OwnValue, Setting
    <2> QED
      BY <2>1, <2>2
  <1>5. \A d \in Clients \ {c} : SetOK(d)'
    BY <1>1, ClientStays DEF Others
  <1> QED
    BY <1>1, <1>3, <1>4, <1>5, MapStays, StripesStay DEF SetsInv

\* The commit is the Put, and its assertion does not fail.
LEMMA CommitIsPut ==
    ASSUME IInv, SetsInv, OneSet, NEW c \in Clients, CommitObject(c)
    PROVE  SetsInv' /\ MapStep
  <1> USE ClientFacts
  <1>1. PICK k \in Keys : k = client[c].key
    BY DEF CommitObject, Setting
  <1>2. PICK s \in StripeIds : s = client[c].stripe
    BY DEF CommitObject, Setting
  <1>3. /\ client[c].pc = "acked"
        /\ UNCHANGED <<next_stripe_id, threads, dead, stored, got>>
        /\ Others(c)
    BY CommitClient DEF CommitObject, proxy, IInv
  <1>4. /\ commited[k] = None
        /\ waiting[k] = s
        /\ s < next_stripe_id
        /\ stored[s] = {<<c, k>>}
    BY <1>1, <1>2, <1>3 DEF SetsInv, SetOK, OwnStripe, OwnValue, Setting
  <1>5. /\ client'[c] = Idle
        /\ commited' = [commited EXCEPT ![k] = s]
        /\ waiting' = [waiting EXCEPT ![k] = None]
        /\ mine' = [mine EXCEPT ![c] = @ \cup {k}]
    BY <1>1, <1>4 DEF CommitObject
  <1>6. /\ commited'[k] = s
        /\ \A other \in Keys \ {k} : commited'[other] = commited[other]
        /\ mine'[c] = mine[c] \cup {k}
        /\ \A d \in Clients \ {c} : mine'[d] = mine[d]
    BY <1>5 DEF IInv, TypeOK
  <1>7. ThreadOfSet'
    BY <1>3, OthersDoNotSet DEF ThreadOfSet, Setting
  <1>8. StripesOK'
    BY <1>3, <1>4, <1>6 DEF SetsInv, StripesOK
  <1>9. SetOK(c)'
    BY <1>5 DEF SetOK, OwnStripe, OwnValue, Idle, Setting
  <1>10. ASSUME NEW d \in Clients \ {c}
         PROVE  SetOK(d)'
    <2>1. client[d].pc \notin Setting /\ client'[d] = client[d]
      BY <1>3, OthersDoNotSet DEF Others, Setting
    <2>2. \A other \in mine[d] : commited'[other] = commited[other]
      BY <1>4, <1>6 DEF SetsInv, StripesOK
    <2> QED
      BY <1>6, <2>1, <2>2, ReaderStays
  <1>11. MapStep
    <2>1. \A other \in Keys :
             Map'[other] = IF other = k THEN {<<c, k>>} ELSE Map[other]
      <3>1. s # None
        BY StoreAssumption
      <3> QED
        BY <1>3, <1>4, <1>6, <3>1 DEF Map
    <2>2. Map[k] = None /\ Map' = [Map EXCEPT ![k] = {<<c, k>>}]
      BY <1>4, <2>1 DEF Map
    <2> QED
      BY <1>3, <2>2, MapPut
  <1> QED
    BY <1>7, <1>8, <1>9, <1>10, <1>11 DEF SetsInv

-----------------------------------------------------------------------------
\* The steps of its thread.

LEMMA ThreadIsOfSet ==
    ASSUME IInv, SetsInv, OneSet, NEW p \in Proxies, NEW t \in threads[p]
    PROVE  /\ threads \in [Proxies -> SUBSET Thread]
           /\ t \in Thread
           /\ t.for \in Clients
           /\ threads[p] = {t}
           /\ p \notin dead
           /\ client[t.for].pc \in {"told", "connected"}
           /\ client[t.for].proxy = p
           /\ client[t.for].stripe = t.stripe
           /\ \A q \in Proxies \ {p} : threads[q] = {}
           /\ t.pc # "accept" =>
                 t.peer = t.for /\ client[t.for].pc = "connected"
           /\ t.pc = "stored" =>
                 <<t.for, client[t.for].key>> \in stored[t.stripe]
  <1>1. /\ threads \in [Proxies -> SUBSET Thread]
        /\ t \in Thread
        /\ t.for \in Clients
    BY DEF IInv, TypeOK, Thread
  <1>2. /\ threads[p] = {t}
        /\ p \notin dead
        /\ client[t.for].pc \in {"told", "connected"}
        /\ client[t.for].proxy = p
        /\ client[t.for].stripe = t.stripe
    BY DEF SetsInv, ThreadOfSet
  <1>3. \A q \in Proxies \ {p} : threads[q] = {}
    BY <1>1, <1>2, OthersDoNotSet DEF Setting
  <1>4. t.pc # "accept" => t.peer \in Clients /\ client[t.peer].pc = "connected"
    BY DEF IInv, ConnectionsOK, ThreadsOK, ConnectedTo
  <1>5. t.pc # "accept" => t.peer = t.for
    BY <1>1, <1>2, <1>4 DEF OneSet, Setting
  <1>6. t.pc = "stored" => <<t.peer, client[t.peer].key>> \in stored[t.stripe]
    BY DEF IInv, StoredOK, ThreadsStored
  <1> QED
    BY <1>1, <1>2, <1>3, <1>4, <1>5, <1>6

LEMMA AcceptIsQuiet ==
    ASSUME IInv, SetsInv, OneSet, NEW p \in Proxies, NEW t \in threads[p],
           Accept(p, t)
    PROVE  SetsInv' /\ MapStep
  <1> DEFINE new == [t EXCEPT !.pc = "read", !.peer = Head(backlog[p])]
  <1>1. /\ UNCHANGED <<commited, waiting, next_stripe_id, client, dead, stored,
                       got, mine>>
        /\ threads' = [threads EXCEPT ![p] = (@ \ {t}) \cup {new}]
    BY DEF Accept, Advance, coordinator
  <1>2. /\ threads \in [Proxies -> SUBSET Thread]
        /\ t \in Thread
        /\ threads[p] = {t}
        /\ \A q \in Proxies \ {p} : threads[q] = {}
    BY ThreadIsOfSet
  <1>3. /\ p \notin dead
        /\ client[t.for].pc \in {"told", "connected"}
        /\ client[t.for].proxy = p
        /\ client[t.for].stripe = t.stripe
    BY ThreadIsOfSet
  <1>4. ThreadOfSet'
    <2>1. new.stripe = t.stripe /\ new.for = t.for
      BY <1>2 DEF Thread
    <2>2. \A q \in Proxies : threads'[q] = IF q = p THEN {new} ELSE {}
      BY <1>1, <1>2
    <2> HIDE DEF new
    <2>3. \A q \in Proxies : \A u \in threads'[q] : q = p /\ u = new
      BY <2>2
    <2> QED
      BY <1>1, <1>3, <2>1, <2>3 DEF ThreadOfSet
  <1>5. \A d \in Clients : SetOK(d)'
    BY <1>1, ClientStays
  <1> QED
    BY <1>1, <1>4, <1>5, MapStays, StripesStay DEF SetsInv

LEMMA StoreBlocksIsQuiet ==
    ASSUME IInv, SetsInv, OneSet, NEW p \in Proxies, NEW t \in threads[p],
           StoreBlocks(p, t)
    PROVE  SetsInv' /\ MapStep
  <1>1. PICK c \in Clients : c = t.for
    BY ThreadIsOfSet
  <1>2. PICK s : s = client[c].stripe
    OBVIOUS
  <1>3. PICK v : v = <<c, client[c].key>>
    OBVIOUS
  <1> DEFINE new == [t EXCEPT !.pc = "stored"]
  <1>4. t.peer = c /\ client[c].pc = "connected" /\ t.stripe = s
    BY <1>1, <1>2, ThreadIsOfSet DEF StoreBlocks
  <1>5. /\ UNCHANGED <<commited, waiting, next_stripe_id, client, dead, got, mine>>
        /\ threads' = [threads EXCEPT ![p] = (@ \ {t}) \cup {new}]
        /\ stored' = [stored EXCEPT ![s] = @ \cup {v}]
    BY <1>3, <1>4 DEF StoreBlocks, Advance, coordinator
  <1>6. /\ threads \in [Proxies -> SUBSET Thread]
        /\ t \in Thread
        /\ threads[p] = {t}
        /\ \A q \in Proxies \ {p} : threads[q] = {}
    BY ThreadIsOfSet
  <1>7. /\ p \notin dead
        /\ client[t.for].proxy = p
        /\ client[t.for].stripe = t.stripe
    BY ThreadIsOfSet
  <1>8. ThreadOfSet'
    <2>1. new.stripe = t.stripe /\ new.for = t.for
      BY <1>6 DEF Thread
    <2>2. \A q \in Proxies : threads'[q] = IF q = p THEN {new} ELSE {}
      BY <1>5, <1>6
    <2> HIDE DEF new
    <2>3. \A q \in Proxies : \A u \in threads'[q] : q = p /\ u = new
      BY <2>2
    <2> QED
      BY <1>1, <1>4, <1>5, <1>7, <2>1, <2>3 DEF ThreadOfSet
  <1>9. /\ s \in StripeIds
        /\ s < next_stripe_id
        /\ stored[s] \subseteq {v}
        /\ \A k \in Keys : commited[k] # s
    BY <1>2, <1>3, <1>4, ClientFacts DEF SetsInv, SetOK, OwnStripe, OwnValue, Setting
  <1>10. /\ stored'[s] = {v}
         /\ \A r \in StripeIds \ {s} : stored'[r] = stored[r]
    BY <1>5, <1>9 DEF IInv, TypeOK
  <1>11. \A k \in Keys : commited[k] # None => commited[k] \in StripeIds \ {s}
    BY <1>9 DEF IInv, TypeOK
  <1>12. StripesOK'
    <2>1. \A r \in StripeIds : r >= next_stripe_id => r # s
      BY <1>9, ClientFacts
    <2>2. \A d \in Clients : mine[d] \subseteq Keys
      BY ClientFacts
    <2> QED
      BY <1>5, <1>10, <1>11, <2>1, <2>2 DEF SetsInv, StripesOK
  <1>13. SetOK(c)'
    BY <1>2, <1>3, <1>4, <1>5, <1>10 DEF SetsInv, SetOK, OwnStripe, OwnValue, Setting
  <1>14. \A d \in Clients \ {c} : SetOK(d)'
    <2>1. \A d \in Clients \ {c} : client[d].pc \notin Setting
      BY <1>4, OthersDoNotSet DEF Setting
    <2> QED
      BY <1>5, <2>1, ReaderStays
  <1>15. MapStep
    BY <1>5, <1>10, <1>11, MapStays
  <1> QED
    BY <1>8, <1>12, <1>13, <1>14, <1>15 DEF SetsInv

LEMMA SendFinishIsQuiet ==
    ASSUME IInv, SetsInv, OneSet, NEW p \in Proxies, NEW t \in threads[p],
           SendFinish(p, t)
    PROVE  SetsInv' /\ MapStep
  <1>1. PICK c \in Clients : c = t.for
    BY ThreadIsOfSet
  <1>2. /\ t.peer = c
        /\ client[c].pc = "connected"
        /\ client[c].stripe = t.stripe
        /\ <<c, client[c].key>> \in stored[client[c].stripe]
    BY <1>1, ThreadIsOfSet DEF SendFinish
  <1>3. /\ UNCHANGED <<commited, waiting, next_stripe_id, dead, stored, got, mine>>
        /\ client' = [client EXCEPT ![c].pc = "acked"]
        /\ threads' = [threads EXCEPT ![p] = @ \ {t}]
    BY <1>2 DEF SendFinish, coordinator
  <1>4. /\ client'[c].pc = "acked"
        /\ client'[c].key = client[c].key
        /\ client'[c].stripe = client[c].stripe
        /\ \A d \in Clients \ {c} : client'[d] = client[d]
    BY <1>3, ClientFacts DEF ClientState
  <1>5. \A q \in Proxies : threads'[q] = {}
    <2>1. /\ threads[p] = {t}
          /\ \A q \in Proxies \ {p} : threads[q] = {}
          /\ threads \in [Proxies -> SUBSET Thread]
      BY ThreadIsOfSet
    <2> QED
      BY <1>3, <2>1
  <1>6. ThreadOfSet'
    BY <1>5 DEF ThreadOfSet
  <1>7. stored[client[c].stripe] = {<<c, client[c].key>>}
    BY <1>2 DEF SetsInv, SetOK, OwnValue
  <1>8. SetOK(c)'
    BY <1>2, <1>3, <1>4, <1>7 DEF SetsInv, SetOK, OwnStripe, OwnValue, Setting
  <1>9. \A d \in Clients \ {c} : SetOK(d)'
    BY <1>3, <1>4, ClientStays
  <1> QED
    BY <1>3, <1>6, <1>8, <1>9, MapStays, StripesStay DEF SetsInv

-----------------------------------------------------------------------------
\* The steps of a get, which may run beside a set.

LEMMA AskForDataIsQuiet ==
    ASSUME IInv, SetsInv, NEW c \in Clients, NEW k \in Keys, NEW p \in Proxies,
           AskForData(c, k, p)
    PROVE  SetsInv' /\ MapStep
  <1>1. /\ client[c].pc = "idle"
        /\ k \in mine[c]
        /\ client'[c].pc \in {"hung", "getting"}
        /\ client'[c].key = k
        /\ client'[c].stripe = commited[k]
        /\ Others(c)
        /\ UNCHANGED <<commited, waiting, next_stripe_id, threads, dead, stored,
                       got, mine>>
    BY ClientFacts DEF AskForData, coordinator, proxy, Others
  <1>2. ThreadOfSet'
    <2>1. \A q \in Proxies : \A t \in threads[q] : t.for \in Clients \ {c}
      BY <1>1, ThreadsAreForSets
    <2> QED
      BY <1>1, <2>1 DEF Others, SetsInv, ThreadOfSet
  <1>3. SetOK(c)'
    BY <1>1 DEF SetOK, OwnStripe, OwnValue, Setting
  <1>4. \A d \in Clients \ {c} : SetOK(d)'
    BY <1>1, ClientStays DEF Others
  <1> QED
    BY <1>1, <1>2, <1>3, <1>4, MapStays, StripesStay DEF SetsInv

\* The delivery is the Read, whether or not the proxy outlives it; a read of a
\* stripe with no blocks does not happen.
LEMMA DeliverIsRead ==
    ASSUME IInv, SetsInv, NEW c \in Clients,
           Deliver(c) \/ DeliverAndFail(c) \/ ReadFails(c)
    PROVE  SetsInv' /\ MapStep
  <1>1. PICK k \in Keys : k = client[c].key
    BY ClientFacts DEF Deliver, DeliverAndFail, ReadFails
  <1>2. /\ client[c].pc = "getting"
        /\ client[c].stripe \in StripeIds
        /\ client[c].proxy \in Proxies
    BY ClientFacts DEF Deliver, DeliverAndFail, ReadFails
  <1>3. /\ commited[k] = client[c].stripe
        /\ commited[k] # None
        /\ stored[commited[k]] = {<<c, k>>}
    BY <1>1, <1>2 DEF SetsInv, SetOK, OwnStripe, StripesOK
  <1>4. Deliver(c) \/ DeliverAndFail(c)
    BY <1>3 DEF ReadFails
  <1>5. /\ UNCHANGED <<commited, waiting, next_stripe_id, stored, mine>>
        /\ got' = [got EXCEPT ![c] = <<k, stored[commited[k]]>>]
    BY <1>1, <1>3, <1>4 DEF Deliver, DeliverAndFail, proxy, coordinator
  <1>6. /\ \A d \in Clients :
              client'[d] = client[d] \/ client'[d].pc \in {"idle", "hung"}
        /\ ThreadOfSet'
    <2>1. CASE Deliver(c)
      <3>1. Others(c) /\ client'[c] = Idle /\ UNCHANGED <<threads, dead>>
        BY <2>1 DEF Deliver, Others, proxy, IInv, TypeOK
      <3>2. \A q \in Proxies : \A t \in threads[q] : t.for \in Clients \ {c}
        BY <1>2, ThreadsAreForSets
      <3> QED
        BY <3>1, <3>2 DEF Others, SetsInv, ThreadOfSet, Idle
    <2>2. CASE DeliverAndFail(c)
      <3>1. PICK p \in Proxies : p = client[c].proxy
        BY <1>2
      <3>2. /\ ProxyEnds(p)
            /\ \A d \in Clients :
                  \/ client'[d] = client[d]
                  \/ client[d].proxy = p /\ client'[d].pc \in {"idle", "hung"}
        BY <2>2, <3>1, ProxyEndsClients DEF IInv
      <3>3. /\ dead' = dead \cup {p}
            /\ threads'[p] = {}
            /\ \A q \in Proxies \ {p} : threads'[q] = threads[q]
        BY <3>2 DEF ProxyEnds, IInv, TypeOK
      <3>4. \A q \in Proxies \ {p} : \A t \in threads[q] :
               t.for \in Clients /\ client'[t.for] = client[t.for]
        BY <3>2, ThreadsAreForSets
      <3>5. ThreadOfSet'
        BY <3>3, <3>4 DEF SetsInv, ThreadOfSet
      <3> QED
        BY <3>2, <3>5
    <2> QED
      BY <1>4, <2>1, <2>2
  <1>7. \A d \in Clients : SetOK(d)'
    BY <1>5, <1>6, ClientStays
  <1>8. MapStep
    <2>1. Map[k] = stored[commited[k]] /\ Map' = Map
      BY <1>3, <1>5 DEF Map
    <2>2. Map[k] # None
      BY <1>3, <2>1, StoreAssumption DEF Values
    <2> QED
      BY <1>5, <2>1, <2>2, MapRead
  <1> QED
    BY <1>5, <1>6, <1>7, <1>8, StripesStay DEF SetsInv

-----------------------------------------------------------------------------
LEMMA NextSetsInv ==
    ASSUME IInv, SetsInv, OneSet, OneSet', MaxCrashes = 0, [Next]_vars
    PROVE  SetsInv' /\ MapStep
  <1>1. ASSUME NEW c \in Clients, \E k \in Keys : CheckKey(c, k)
        PROVE  SetsInv' /\ MapStep
    BY <1>1, HandlerIsQuiet
  <1>2. ASSUME NEW c \in Clients, \E k \in Keys, p \in Proxies : AskForData(c, k, p)
        PROVE  SetsInv' /\ MapStep
    BY <1>2, AskForDataIsQuiet
  <1>3. ASSUME NEW c \in Clients, HandlerStep(c)
        PROVE  SetsInv' /\ MapStep
    BY <1>3, HandlerIsQuiet, StartEncodeIsQuiet DEF HandlerStep
  <1>4. ASSUME NEW c \in Clients, ClientStep(c)
        PROVE  SetsInv' /\ MapStep
    BY <1>4, ConnectIsQuiet, CommitIsPut, DeliverIsRead DEF ClientStep
  <1>5. ASSUME NEW c \in Clients, ClientDies(c)
        PROVE  FALSE
    BY <1>5 DEF ClientDies, IInv, TypeOK
  <1>6. CASE \E p \in Proxies : ThreadStep(p)
    BY <1>6, AcceptIsQuiet, StoreBlocksIsQuiet, SendFinishIsQuiet DEF ThreadStep
  <1>7. CASE Finished \/ UNCHANGED vars
    <2>1. UNCHANGED <<commited, waiting, next_stripe_id, stored, mine, got, client,
                      threads, dead>>
      BY <1>7 DEF Finished, vars, coordinator, proxy
    <2>2. ThreadOfSet' /\ \A d \in Clients : SetOK(d)'
      BY <2>1, ClientStays DEF SetsInv, ThreadOfSet
    <2> QED
      BY <2>1, <2>2, MapStays, StripesStay DEF SetsInv
  <1> QED
    BY <1>1, <1>2, <1>3, <1>4, <1>5, <1>6, <1>7 DEF Next

LEMMA InitSetsInv == Init => SetsInv
  BY SetsAreFinite, StoreAssumption
  DEF Init, SetsInv, ThreadOfSet, StripesOK, SetOK, OwnStripe, OwnValue, Setting,
      Idle, StripeIds

\* If sets do not overlap and no client dies in one, every set and get is a put
\* and a read of the write-once map, at its commit and at its delivery,
\* whatever keys the clients share and whichever proxies end.
THEOREM SeparateSetsHaveAMap ==
    ASSUME MaxCrashes = 0
    PROVE  Spec /\ []OneSet => WriteOnceMap
  <1>1. Init => SetsInv /\ KV!Init
    BY InitSetsInv DEF Init, KV!Init
  <1>2. IInv /\ SetsInv /\ OneSet /\ OneSet' /\ [Next]_vars => SetsInv' /\ MapStep
    BY NextSetsInv
  <1>3. MapStep =>
           [KV!Next]_<<[k \in Keys |-> IF commited[k] = None THEN None
                                       ELSE stored[commited[k]]], got>>
    BY DEF MapStep, Map
  <1> QED
    BY Invariance, <1>1, <1>2, <1>3, PTL DEF Spec, WriteOnceMap, KV!Spec

\* In particular with one client, as run_client.cpp is.
THEOREM OneClientHasAMap ==
    ASSUME NEW c \in Clients, Clients = {c}, MaxCrashes = 0
    PROVE  Spec => WriteOnceMap
  <1>1. OneSet
    BY DEF OneSet
  <1> QED
    BY <1>1, SeparateSetsHaveAMap, PTL

\* Then a client gets what it has set (run_client.cpp's assertion), and
\* commit_object's assertion holds although clients may share keys.
THEOREM SeparateSetsReadBack ==
    ASSUME MaxCrashes = 0
    PROVE  Spec /\ []OneSet => [](GetReturnsSet /\ CommitAssertHolds)
  <1>1. Init => SetsInv /\ GetReturnsSet
    BY InitSetsInv DEF Init, GetReturnsSet
  <1>2. IInv /\ SetsInv /\ OneSet /\ OneSet' /\ [Next]_vars => SetsInv'
    BY NextSetsInv
  <1>3. ASSUME IInv, SetsInv, GetReturnsSet, [Next]_vars
        PROVE  GetReturnsSet'
    <2>1. CASE got' = got
      BY <1>3, <2>1 DEF GetReturnsSet
    <2>2. ASSUME NEW c \in Clients, Deliver(c) \/ DeliverAndFail(c)
          PROVE  GetReturnsSet'
      <3>1. got' = [got EXCEPT ![c] = <<client[c].key, {<<c, client[c].key>>}>>]
        BY <1>3, <2>2 DEF Deliver, DeliverAndFail, SetsInv, SetOK, OwnStripe, StripesOK
      <3> QED
        BY <1>3, <3>1 DEF GetReturnsSet, IInv, TypeOK
    <2>3. \/ got' = got
          \/ \E c \in Clients : Deliver(c) \/ DeliverAndFail(c)
      BY <1>3
      DEF Next, HandlerStep, ClientStep, ThreadStep, Finished, vars, CheckKey,
          AskForData, LoadStripeId, StoreStripeId, RegisterObject, StartEncode,
          Connect, CommitObject, ReadFails, ClientDies, Accept, StoreBlocks,
          SendFinish
    <2> QED
      BY <2>1, <2>2, <2>3
  <1>4. IInv /\ SetsInv => CommitAssertHolds
    BY ClientFacts DEF SetsInv, SetOK, OwnStripe, CommitAssertHolds, Setting
  <1> QED
    BY Invariance, <1>1, <1>2, <1>3, <1>4, PTL DEF Spec
=============================================================================
