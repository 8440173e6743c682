---------------------------- MODULE GraphCompile ----------------------------
(***************************************************************************)
(* graph/graph_compile.cpp: the order in which the nodes of a patch are    *)
(* evaluated. A depth-first search colours the nodes; an edge into a node  *)
(* on the search's path closes a cycle and becomes a delayed edge, which   *)
(* carries the block before. The reverse of the order in which nodes are   *)
(* finished is the schedule.                                               *)
(*                                                                         *)
(* compile_graph is one call: its loop is modelled a turn at a time, so    *)
(* that the invariant of the search can be stated. Nodes are their indices *)
(* in the workspace, edges theirs in the list of cables.                   *)
(***************************************************************************)
EXTENDS Integers, Sequences, FiniteSets, SequencesExt

CONSTANTS NodeCount,  \* nodes are 1..NodeCount
          MaxEdges    \* bound: cables of a patch

ASSUME CompileAssumption == NodeCount \in Nat /\ MaxEdges \in Nat

VARIABLES edges,     \* schedule.edges: each cable whose ends resolved
          delayed,   \* the edges marked delayed
          looked,    \* the edges behind a cursor
          colour,    \* "white", "grey" or "black"
          path,      \* the nodes of the explicit stack
          postorder,
          root       \* the next node the search may start from

compileVars == <<edges, delayed, looked, colour, path, postorder, root>>

Index == 1..NodeCount
Edge == [src : Index, dst : Index]

\* adjacency: the edges of a node not yet looked at, in declaration order.
Unseen(n) == {e \in DOMAIN edges \ looked : edges[e].src = n}

CompileInit ==
    /\ edges \in UNION {[1..k -> Edge] : k \in 0..MaxEdges}
    /\ delayed = {} /\ looked = {} /\ path = <<>> /\ postorder = <<>>
    /\ colour = [n \in Index |-> "white"] /\ root = 1

\* The loop over the nodes: a white one is the start of a search.
VisitRoot ==
    /\ path = <<>> /\ root \in Index
    /\ root' = root + 1
    /\ IF colour[root] = "white"
       THEN path' = <<root>> /\ colour' = [colour EXCEPT ![root] = "grey"]
       ELSE UNCHANGED <<path, colour>>
    /\ UNCHANGED <<edges, delayed, looked, postorder>>

\* A node found on the path closes a cycle.
ClosesCycleNever(c) == FALSE
ClosesCycle(c) == c = "grey"

\* A turn of the search with an edge left: into a white node it descends.
LookAt(e) ==
    LET next == edges[e].dst
    IN  /\ looked' = looked \cup {e}
        /\ IF colour[next] = "white"
           THEN path' = Append(path, next) /\ colour' = [colour EXCEPT ![next] = "grey"]
           ELSE UNCHANGED <<path, colour>>
        /\ delayed' = IF ClosesCycle(colour[next]) THEN delayed \cup {e} ELSE delayed
        /\ UNCHANGED <<edges, postorder, root>>

Look ==
    /\ path # <<>>
    /\ \E e \in Unseen(Last(path)) : (\A f \in Unseen(Last(path)) : e <= f) /\ LookAt(e)

\* A turn with none left: the node is finished.
Finish ==
    /\ path # <<>> /\ Unseen(Last(path)) = {}
    /\ colour' = [colour EXCEPT ![Last(path)] = "black"]
    /\ postorder' = Append(postorder, Last(path))
    /\ path' = Front(path)
    /\ UNCHANGED <<edges, delayed, looked, root>>

CompileNext == VisitRoot \/ Look \/ Finish

CompileSpec == CompileInit /\ [][CompileNext]_compileVars

Compiled == path = <<>> /\ root > NodeCount

----------------------------------------------------------------------------
(* Properties.                                                             *)

CompileTypeOK ==
    /\ edges \in Seq(Edge) /\ delayed \subseteq looked /\ looked \subseteq DOMAIN edges
    /\ colour \in [Index -> {"white", "grey", "black"}]
    /\ path \in Seq(Index) /\ postorder \in Seq(Index) /\ root \in 1..(NodeCount + 1)

Precedes(a, b, order) == \E i, j \in DOMAIN order : i < j /\ order[i] = a /\ order[j] = b

\* A node leads to another when no set that has the one, and with a node all it feeds,
\* is without the other.
Feeds(set) == \A e \in looked \ delayed : edges[e].src \in set => edges[e].dst \in set
Leads(a, b) == \A set \in SUBSET Index : (a \in set /\ Feeds(set)) => b \in set

\* The schedule orders every cable that is not delayed: a node is evaluated after
\* all that feed it in the same block, and every node is evaluated once.
ScheduleOrders ==
    Compiled =>
        /\ Len(postorder) = NodeCount /\ Range(postorder) = Index
        /\ \A e \in DOMAIN edges \ delayed : Precedes(edges[e].dst, edges[e].src, postorder)

\* Only a cable that closes a cycle is delayed: its destination leads back to its
\* source over cables that are not, so that no signal is a block late for nothing.
DelayedClosesCycle == \A e \in delayed : Leads(edges[e].dst, edges[e].src)

\* The schedule of a graph with cycles is an order of its nodes once the cables that close
\* a cycle, and no others, are a block late.
ScheduleSound == ScheduleOrders /\ DelayedClosesCycle
=============================================================================
