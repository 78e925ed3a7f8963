-------------------------------- MODULE Repair --------------------------------
(***************************************************************************)
(* Repair of a node: ask_for_repair goes through the stripes with a block  *)
(* on it and calls, for each, the proxy of the block's cluster and those   *)
(* of the clusters that help.  A proxy has one RPC thread; the main proxy  *)
(* accepts its helpers on the acceptor it uses for everything else.        *)
(***************************************************************************)
EXTENDS RepairPlan, Sequences

CONSTANTS
    Handlers,     \* RPC threads of the coordinator that run ask_for_repair
    NumClusters,
    NumStripes,
    Placements,   \* the clusters the blocks of the stripes may be in
    NodeBlocks,   \* the sets of blocks that a node asked for may hold
    MaxAsks,      \* bound: nodes asked to be repaired
    BlocksLost,   \* whether a node asked to be repaired has lost its blocks
    None

Clusters == 0 .. NumClusters - 1
Stripes  == 1 .. NumStripes

\* Placement's bound on the blocks of a stripe in one cluster.
Placed(w) ==
    \A c \in Clusters :
        LET here == {i \in Blocks : w[i] = c}
        IN  Cardinality(here) <= G + Cardinality(GroupsOf(here))

ASSUME RepairAssumption ==
    /\ NumClusters \in Nat \ {0}
    /\ NumStripes \in Nat \ {0}
    /\ Placements \subseteq [Stripes -> [Blocks -> Clusters]]
    /\ \A p \in Placements, s \in Stripes : Placed(p[s])
    /\ NodeBlocks \subseteq SUBSET (Stripes \X Blocks)
    /\ MaxAsks \in Nat
    /\ BlocksLost \in BOOLEAN
    /\ None \notin Stripes \X Blocks

VARIABLES
    where,     \* per stripe, the cluster of each block
    disk,      \* per stripe, what the datanode of each block holds
    handler,   \* per handler, the repairs it still has to do and does now
    rpc,       \* per proxy, the handlers whose calls wait for its RPC thread
    proxy,     \* per proxy, what its RPC thread does
    backlog,   \* per proxy, the helpers not accepted yet, with what they send
    asks       \* nodes asked to be repaired

vars == <<where, disk, handler, rpc, proxy, backlog, asks>>

\* Read blocks are known by their ids; Wrong stands for wrong bytes.
Wrong == <<0, 0>>

Content == SUBSET ((Stripes \X Blocks) \cup {Wrong})

Help == [from : Clusters, content : Content]

IdleHandler ==
    [todo |-> {}, job |-> None, reads |-> {}, to_call |-> {}, waiting |-> {}]

IdleProxy == [pc |-> "idle", to_accept |-> 0, accepting |-> FALSE,
              received |-> {}, blocks |-> [c \in Clusters |-> {}]]

TypeOK ==
    /\ where \in [Stripes -> [Blocks -> Clusters]]
    /\ disk \in [Stripes -> [Blocks -> {"right", "lost", "wrong"}]]
    /\ handler \in [Handlers ->
          [todo : SUBSET (Stripes \X Blocks),
           job : (Stripes \X Blocks) \cup {None}, reads : SUBSET Blocks,
           to_call : SUBSET Clusters, waiting : SUBSET Clusters]]
    /\ rpc \in [Clusters -> Seq(Handlers)]
    /\ proxy \in [Clusters ->
          [pc : {"idle", "outer", "inner", "connect", "write"},
           to_accept : 0 .. NumClusters - 1, accepting : BOOLEAN,
           received : SUBSET Help, blocks : [Clusters -> Content]]]
    /\ backlog \in [Clusters -> Seq(Help)]
    /\ asks \in 0 .. MaxAsks

Init ==
    /\ where \in Placements
    /\ disk = [s \in Stripes |-> [i \in Blocks |-> "right"]]
    /\ handler = [h \in Handlers |-> IdleHandler]
    /\ rpc = [c \in Clusters |-> <<>>]
    /\ proxy = [c \in Clusters |-> IdleProxy]
    /\ backlog = [c \in Clusters |-> <<>>]
    /\ asks = 0

-----------------------------------------------------------------------------
\* The coordinator.

Idle(h) == handler[h] = IdleHandler

\* A node has at most one block of each stripe and is in one cluster.
OnOneNode(failed) ==
    \A x, y \in failed : /\ where[x[1]][x[2]] = where[y[1]][y[2]]
                         /\ x[1] = y[1] => x = y

\* ask_for_repair collects the stripes with a block on the node.
AskForRepair(h, failed) ==
    /\ Idle(h)
    /\ asks < MaxAsks
    /\ failed # {}
    /\ OnOneNode(failed)
    /\ asks' = asks + 1
    /\ handler' = [handler EXCEPT ![h].todo = failed]
    /\ disk' = IF BlocksLost
               THEN [s \in Stripes |-> [i \in Blocks |->
                        IF <<s, i>> \in failed THEN "lost" ELSE disk[s][i]]]
               ELSE disk
    /\ UNCHANGED <<where, rpc, proxy, backlog>>

\* do_repair_CACHED of the next stripe: the plan, and a thread per cluster.
PlanRepair(h, job, reads) ==
    LET w == where[job[1]]
    IN  /\ handler[h].job = None
        /\ job \in handler[h].todo
        /\ reads \in Plans(w, job[2])
        /\ handler' = [handler EXCEPT ![h] =
              [todo |-> @.todo \ {job}, job |-> job, reads |-> reads,
               to_call |-> Span(w, job[2], reads),
               waiting |-> Span(w, job[2], reads)]]
        /\ UNCHANGED <<where, disk, rpc, proxy, backlog, asks>>

\* One of these threads calls its proxy.
CallProxy(h, c) ==
    /\ c \in handler[h].to_call
    /\ handler' = [handler EXCEPT ![h].to_call = @ \ {c}]
    /\ rpc' = [rpc EXCEPT ![c] = Append(@, h)]
    /\ UNCHANGED <<where, disk, proxy, backlog, asks>>

\* The handler after the call of proxy c has returned; when all have, the
\* threads are joined and the next stripe is taken, if there is one.
Returned(h, c) ==
    IF handler[h].waiting = {c}
    THEN [IdleHandler EXCEPT !.todo = handler[h].todo]
    ELSE [handler[h] EXCEPT !.waiting = @ \ {c}]

-----------------------------------------------------------------------------
\* The RPC thread of proxy c, and the threads it starts and joins.

Caller(c) == Head(rpc[c])
Stripe(h) == handler[h].job[1]
Failed(h) == handler[h].job[2]
MainCluster(h) == where[Stripe(h)][Failed(h)]

\* Mutant: the main cluster is counted among those that help.
HelpersAndMain(h) == Span(where[Stripe(h)], Failed(h), handler[h].reads)

Helpers(h) == Span(where[Stripe(h)], Failed(h), handler[h].reads) \ {MainCluster(h)}

\* Mutant: one helper is not waited for.
BeginCallOneLess(c) ==
    /\ proxy[c].pc = "idle"
    /\ rpc[c] # <<>>
    /\ ~IsCached(Failed(Caller(c)))
    /\ proxy' = [proxy EXCEPT ![c] =
          IF c = MainCluster(Caller(c)) /\ Helpers(Caller(c)) # {}
          THEN [@ EXCEPT !.pc = "outer",
                         !.to_accept = Cardinality(Helpers(Caller(c))) - 1]
          ELSE [@ EXCEPT !.pc = "inner"]]
    /\ UNCHANGED <<where, disk, handler, rpc, backlog, asks>>

\* cache_repair: the copy is read and written back.
CacheRepair(c) ==
    LET h == Caller(c)
    IN  /\ proxy[c].pc = "idle"
        /\ rpc[c] # <<>>
        /\ IsCached(Failed(h))
        /\ disk' = [disk EXCEPT ![Stripe(h)][Failed(h)] =
              IF Determines(handler[h].reads, Failed(h))
              THEN "right" ELSE "wrong"]
        /\ rpc' = [rpc EXCEPT ![c] = Tail(@)]
        /\ handler' = [handler EXCEPT ![h] = Returned(h, c)]
        /\ UNCHANGED <<where, proxy, backlog, asks>>

\* main_repair reads from its helpers first.
BeginCall(c) ==
    /\ proxy[c].pc = "idle"
    /\ rpc[c] # <<>>
    /\ ~IsCached(Failed(Caller(c)))
    /\ proxy' = [proxy EXCEPT ![c] =
          IF c = MainCluster(Caller(c))
          THEN [@ EXCEPT !.pc = "outer",
                         !.to_accept = Cardinality(Helpers(Caller(c)))]
          ELSE [@ EXCEPT !.pc = "inner"]]
    /\ UNCHANGED <<where, disk, handler, rpc, backlog, asks>>

\* A thread of main_repair takes mutex_ and keeps it while it accepts.
EnterAccept(c) ==
    /\ proxy[c].to_accept > 0
    /\ ~proxy[c].accepting
    /\ proxy' = [proxy EXCEPT ![c].to_accept = @ - 1, ![c].accepting = TRUE]
    /\ UNCHANGED <<where, disk, handler, rpc, backlog, asks>>

\* The first helper is accepted and read: its cluster id, not its stripe.
AcceptHelp(c) ==
    /\ proxy[c].accepting
    /\ backlog[c] # <<>>
    /\ proxy' = [proxy EXCEPT ![c].accepting = FALSE,
                              ![c].received = @ \cup {Head(backlog[c])}]
    /\ backlog' = [backlog EXCEPT ![c] = Tail(@)]
    /\ UNCHANGED <<where, disk, handler, rpc, asks>>

\* Under mutex_ again, what came is kept by the cluster it came from.
StoreHelp(c, help) ==
    /\ help \in proxy[c].received
    /\ ~proxy[c].accepting
    /\ proxy' = [proxy EXCEPT ![c].received = @ \ {help},
                              ![c].blocks[help.from] = help.content]
    /\ UNCHANGED <<where, disk, handler, rpc, backlog, asks>>

JoinOuter(c) ==
    /\ proxy[c].pc = "outer"
    /\ proxy[c].to_accept = 0
    /\ ~proxy[c].accepting
    /\ proxy[c].received = {}
    /\ proxy' = [proxy EXCEPT ![c].pc = "inner"]
    /\ UNCHANGED <<where, disk, handler, rpc, backlog, asks>>

\* A block with a copy is read from its cache node, which is never lost.
BlockRead(s, i) ==
    IF IsCached(i) \/ disk[s][i] = "right" THEN <<s, i>> ELSE Wrong

\* The blocks of the plan in the proxy's own cluster are read in parallel.
ReadInner(c) ==
    LET h == Caller(c)
        s == Stripe(h)
    IN  /\ proxy[c].pc = "inner"
        /\ proxy' = [proxy EXCEPT
              ![c].pc = IF c = MainCluster(h) THEN "write" ELSE "connect",
              ![c].blocks[c] = {BlockRead(s, i) :
                  i \in {j \in handler[h].reads : where[s][j] = c}}]
        /\ UNCHANGED <<where, disk, handler, rpc, backlog, asks>>

\* help_repair combines what it has read and sends it to the main proxy.
ConnectToMain(c) ==
    LET h == Caller(c)
    IN  /\ proxy[c].pc = "connect"
        /\ backlog' = [backlog EXCEPT ![MainCluster(h)] =
              Append(@, [from |-> c, content |-> proxy[c].blocks[c]])]
        /\ proxy' = [proxy EXCEPT ![c] = IdleProxy]
        /\ rpc' = [rpc EXCEPT ![c] = Tail(@)]
        /\ handler' = [handler EXCEPT ![h] = Returned(h, c)]
        /\ UNCHANGED <<where, disk, asks>>

\* The combination is the block if it is made of the blocks of the plan.
WriteRepaired(c) ==
    LET h == Caller(c)
        s == Stripe(h)
        f == Failed(h)
        combined == UNION {proxy[c].blocks[d] : d \in Clusters}
        right == /\ combined = {s} \X handler[h].reads
                 /\ Determines(handler[h].reads, f)
    IN  /\ proxy[c].pc = "write"
        /\ disk' = [disk EXCEPT ![s][f] = IF right THEN "right" ELSE "wrong"]
        /\ proxy' = [proxy EXCEPT ![c] = IdleProxy]
        /\ rpc' = [rpc EXCEPT ![c] = Tail(@)]
        /\ handler' = [handler EXCEPT ![h] = Returned(h, c)]
        /\ UNCHANGED <<where, backlog, asks>>

-----------------------------------------------------------------------------
Finished ==
    /\ asks = MaxAsks
    /\ \A h \in Handlers : Idle(h)
    /\ UNCHANGED vars

HandlerStep(h) ==
    \/ \E job \in handler[h].todo :
          \E reads \in Plans(where[job[1]], job[2]) : PlanRepair(h, job, reads)
    \/ \E c \in Clusters : CallProxy(h, c)

ProxyStep(c) ==
    \/ CacheRepair(c)
    \/ BeginCall(c)
    \/ EnterAccept(c)
    \/ AcceptHelp(c)
    \/ \E help \in proxy[c].received : StoreHelp(c, help)
    \/ JoinOuter(c)
    \/ ReadInner(c)
    \/ ConnectToMain(c)
    \/ WriteRepaired(c)

Next ==
    \/ \E h \in Handlers :
          \/ \E failed \in NodeBlocks : AskForRepair(h, failed)
          \/ HandlerStep(h)
    \/ \E c \in Clusters : ProxyStep(c)
    \/ Finished

\* The coordinator's threads and the proxies' threads keep running.
Fairness ==
    /\ \A h \in Handlers : WF_vars(HandlerStep(h))
    /\ \A c \in Clusters : WF_vars(ProxyStep(c))

Spec == Init /\ [][Next]_vars

FairSpec == Spec /\ Fairness

-----------------------------------------------------------------------------
\* "The repaired block is put back in its place" (generate_repair_plan_CACHED):
\* what main_repair and cache_repair write is the block that was there, and
\* when the repairs are over no block is missing.
RepairedRight ==
    \A s \in Stripes, i \in Blocks :
        /\ disk[s][i] # "wrong"
        /\ disk[s][i] = "lost" => \E h \in Handlers : ~Idle(h)

\* When ask_for_repair returns nothing is left behind that the next repair
\* could take for its own: no connection, no call, no thread in accept.
NothingLeftBehind ==
    (\A h \in Handlers : handler[h].job = None) =>
        \A c \in Clusters : /\ backlog[c] = <<>>
                            /\ rpc[c] = <<>>
                            /\ proxy[c] = IdleProxy

\* Reading first in the failed block's cluster and then where most live blocks
\* are involves as few other clusters as any k of the live blocks would.
FewestClusters ==
    \A h \in Handlers : handler[h].job # None =>
        LET w == where[Stripe(h)]
            f == Failed(h)
        IN  ~IsCached(f) /\ f >= K =>
                \A other \in {S \in SUBSET LiveBlocks(f) : Cardinality(S) = K} :
                    Cardinality(Helpers(h)) <=
                        Cardinality(Span(w, f, other)) - 1

\* Every call of a proxy is served: main_repair gets as many helpers as it
\* waits for, and the thread that keeps mutex_ in accept keeps none of them
\* away.  So every repair asked for ends.
CallsAreServed == \A c \in Clusters : rpc[c] # <<>> ~> rpc[c] = <<>>
=============================================================================
