----------------------------- MODULE GraphProofs -----------------------------
(***************************************************************************)
(* Proofs about the graph: the schedule its compiler makes, for every      *)
(* number of nodes and every list of cables, and the patchbay it is edited *)
(* in, for every set of plugins, whatever is in the files it loads.        *)
(*                                                                         *)
(* The compiler's invariant is the one of a depth-first search: what is    *)
(* grey is what is on the path, what is black is what is finished, and an  *)
(* edge that was looked at and not delayed leads to a node finished before *)
(* its source, or further down the path.                                   *)
(*                                                                         *)
(* The patchbay's is WorkspaceInv: ids tell the nodes and the cables apart,*)
(* cables fit the nodes there are, the nodes of plugins are those that     *)
(* have one, and the entries of the history lead, scene by scene, up to    *)
(* the graph. What the program does to its lists, in a loop over a file or *)
(* over the edits of an entry, is a fold; what each fold keeps is shown by *)
(* an instance of FoldLemmas, and what undoing does by HistoryLemmas.      *)
(***************************************************************************)
EXTENDS GraphCompile, Workspace, FiniteSetTheorems, SequenceTheorems, TLAPS

----------------------------------------------------------------------------
(* The schedule.                                                           *)

Kept == looked \ delayed

\* The colours say where a node is, and no node is twice on the path or in the order.
Coloured ==
    /\ \A n \in Index : colour[n] = "grey" <=> \E i \in DOMAIN path : path[i] = n
    /\ \A n \in Index : colour[n] = "black" <=> \E i \in DOMAIN postorder : postorder[i] = n
    /\ \A i, j \in DOMAIN path : path[i] = path[j] => i = j
    /\ \A i, j \in DOMAIN postorder : postorder[i] = postorder[j] => i = j

\* The search has begun at every node before root, and has left no edge of a black node.
Searched ==
    /\ \A n \in Index : n < root => colour[n] # "white"
    /\ \A e \in looked : colour[edges[e].src] # "white"
    /\ \A e \in DOMAIN edges : colour[edges[e].src] = "black" => e \in looked

\* An edge that was looked at and kept leads to what was finished before its source, or
\* further down the path.
Down(a, b) == \E i, j \in DOMAIN path : i < j /\ path[i] = a /\ path[j] = b
Placed(a, b) ==
    \/ Precedes(b, a, postorder)
    \/ colour[a] = "grey" /\ colour[b] = "black"
    \/ Down(a, b)
Ordered == \A e \in Kept : Placed(edges[e].src, edges[e].dst)

\* Down the path every node leads to the later ones, over kept edges.
PathLeads == \A i, j \in DOMAIN path : i <= j => Leads(path[i], path[j])

CompileInv == CompileTypeOK /\ Coloured /\ Searched /\ Ordered /\ PathLeads /\ DelayedClosesCycle

----------------------------------------------------------------------------

\* More kept edges lead further.
LEMMA LeadsOn ==
    ASSUME CompileTypeOK, NEW a, NEW b, Leads(a, b), UNCHANGED edges, Kept \subseteq Kept'
    PROVE  Leads(a, b)'
<1>1. \A e \in Kept : e \in Kept' /\ edges' = edges
    OBVIOUS
<1>2. ASSUME NEW set \in SUBSET Index, (a \in set /\ Feeds(set))' PROVE b \in set
    <2>1. Feeds(set)
        BY <1>1, <1>2 DEF Feeds, Kept
    <2> QED BY <2>1, <1>2 DEF Leads
<1> QED BY <1>2 DEF Leads

\* A node leads to itself, and on over a kept edge.
LEMMA LeadsToSelf == \A a : Leads(a, a)
BY DEF Leads

\* Where the nodes of edges, paths and orders are from.
LEMMA EdgeTypes ==
    ASSUME CompileTypeOK, NEW e \in DOMAIN edges
    PROVE  edges[e].src \in Index /\ edges[e].dst \in Index
<1>1. edges \in Seq(Edge)
    BY DEF CompileTypeOK
<1>2. edges[e] \in Edge
    BY <1>1
<1> QED BY <1>2 DEF Edge

\* The path and the postorder are sequences of nodes, and every node has a colour.
LEMMA NodeTypes ==
    ASSUME CompileTypeOK
    PROVE  /\ Len(path) \in Nat /\ DOMAIN path = 1..Len(path) /\ \A i \in DOMAIN path : path[i] \in Index
           /\ Len(postorder) \in Nat /\ DOMAIN postorder = 1..Len(postorder)
           /\ \A i \in DOMAIN postorder : postorder[i] \in Index
           /\ \A n \in Index : colour[n] \in {"white", "grey", "black"}
<1>1. path \in Seq(Index) /\ postorder \in Seq(Index) /\ colour \in [Index -> {"white", "grey", "black"}]
    BY DEF CompileTypeOK
<1> QED BY <1>1

\* The invariant holds before the search begins.
LEMMA InitInv == CompileInit => CompileInv
<1> SUFFICES ASSUME CompileInit PROVE CompileInv
    OBVIOUS
<1>1. edges \in Seq(Edge)
    <2>1. PICK k \in 0..MaxEdges : edges \in [1..k -> Edge]
        BY DEF CompileInit
    <2> QED BY <2>1, CompileAssumption
<1>2. CompileTypeOK
    BY <1>1, CompileAssumption DEF CompileInit, CompileTypeOK, Index
<1>3. DOMAIN path = {} /\ DOMAIN postorder = {} /\ \A n \in Index : colour[n] = "white"
    BY DEF CompileInit
<1>4. Coloured
    BY <1>3 DEF Coloured
<1>5. Searched
    BY <1>2, <1>3, EdgeTypes DEF CompileInit, Searched, Index
<1>6. Ordered /\ PathLeads /\ DelayedClosesCycle
    BY DEF CompileInit, Ordered, Kept, PathLeads, DelayedClosesCycle
<1> QED BY <1>2, <1>4, <1>5, <1>6 DEF CompileInv

\* The next node to begin at is either finished or starts a path of its own.
LEMMA RootInv == CompileInv /\ VisitRoot => CompileInv'
<1> SUFFICES ASSUME CompileInv, VisitRoot PROVE CompileInv'
    OBVIOUS
<1> USE DEF CompileInv
<1>0. Kept' = Kept
    BY DEF VisitRoot, Kept
<1>a. root \in Index /\ root \in 1..(NodeCount + 1) /\ root' = root + 1
    BY DEF VisitRoot, CompileTypeOK
<1>b. \A n \in Index : colour[n] # "grey"
    BY DEF VisitRoot, Coloured
<1>c. \A n \in Index : colour'[n] = IF n = root /\ colour[root] = "white" THEN "grey" ELSE colour[n]
    BY <1>a DEF VisitRoot, CompileTypeOK
<1>d. \A n \in Index : (\E i \in DOMAIN path' : path'[i] = n) <=> n = root /\ colour[root] = "white"
    <2>1. CASE colour[root] = "white"
        <3>1. path' = <<root>>
            BY <2>1 DEF VisitRoot
        <3>2. DOMAIN path' = {1} /\ path'[1] = root
            BY <3>1
        <3> QED BY <2>1, <3>2
    <2>2. CASE colour[root] # "white"
        BY <2>2 DEF VisitRoot
    <2> QED BY <2>1, <2>2
<1>1. CompileTypeOK'
    <2>1. path' \in Seq(Index)
        <3>1. <<root>> \in Seq(Index) /\ path \in Seq(Index)
            BY <1>a DEF CompileTypeOK
        <3> QED BY <3>1 DEF VisitRoot
    <2>2. colour' \in [Index -> {"white", "grey", "black"}]
        BY <1>a DEF VisitRoot, CompileTypeOK
    <2>3. root' \in 1..(NodeCount + 1)
        BY <1>a, CompileAssumption DEF Index
    <2> QED BY <2>1, <2>2, <2>3 DEF VisitRoot, CompileTypeOK
<1>2. Coloured'
    <2>1. \A n \in Index : (colour[n] = "grey")' <=> \E i \in DOMAIN path' : path'[i] = n
        BY <1>b, <1>c, <1>d
    <2>2. \A n \in Index : (colour[n] = "black")' <=> colour[n] = "black"
        BY <1>c
    <2>3. \A i, j \in DOMAIN path' : path'[i] = path'[j] => i = j
        BY DEF VisitRoot
    <2> QED BY <2>1, <2>2, <2>3 DEF VisitRoot, Coloured
<1>3. Searched'
    <2>1. \A n \in Index : colour[n] # "white" => colour'[n] # "white"
        BY <1>c
    <2>2. \A n \in Index : n < root' => colour'[n] # "white"
        BY <1>a, <1>c, CompileAssumption DEF Index, Searched
    <2>3. \A e \in DOMAIN edges : edges[e].src \in Index
        BY EdgeTypes
    <2>4. \A e \in looked' : colour'[edges'[e].src] # "white"
        BY <2>1, <2>3 DEF VisitRoot, Searched, CompileTypeOK
    <2>5. \A e \in DOMAIN edges' : colour'[edges'[e].src] = "black" => e \in looked'
        BY <1>c, <2>3 DEF VisitRoot, Searched
    <2> QED BY <2>2, <2>4, <2>5 DEF Searched
<1>4. Ordered'
    <2> SUFFICES ASSUME NEW e \in Kept, NEW a, a = edges[e].src, NEW b, b = edges[e].dst PROVE Placed(a, b)'
        BY <1>0 DEF Ordered, VisitRoot
    <2>1. a \in Index /\ b \in Index /\ Placed(a, b)
        BY EdgeTypes DEF Kept, CompileTypeOK, Ordered
    <2>2. ~Down(a, b)
        BY DEF VisitRoot, Down
    <2>3. colour[a] # "grey"
        BY <2>1, <1>b
    <2> QED BY <2>1, <2>2, <2>3 DEF VisitRoot, Placed, Precedes
<1>5. PathLeads'
    <2>1. ASSUME NEW i \in DOMAIN path', NEW j \in DOMAIN path' PROVE path'[i] = path'[j]
        BY DEF VisitRoot
    <2> QED BY <2>1 DEF PathLeads, Leads
<1>6. DelayedClosesCycle'
    BY LeadsOn, <1>0 DEF VisitRoot, DelayedClosesCycle
<1> QED BY <1>1, <1>2, <1>3, <1>4, <1>5, <1>6

----------------------------------------------------------------------------

\* Where a turn of the search is.
LEMMA AtLast ==
    ASSUME CompileInv, path # <<>>
    PROVE  /\ Len(path) \in DOMAIN path /\ Last(path) = path[Len(path)] /\ Last(path) \in Index
           /\ colour[Last(path)] = "grey"
<1>1. Len(path) \in Nat \ {0} /\ path \in Seq(Index)
    BY DEF CompileInv, CompileTypeOK
<1>2. Len(path) \in DOMAIN path /\ path[Len(path)] \in Index /\ Last(path) = path[Len(path)]
    BY <1>1 DEF Last
<1> QED BY <1>2 DEF CompileInv, Coloured

\* An edge into a finished node: it is kept, and nothing else changes.
LEMMA LookBlack ==
    ASSUME CompileInv, path # <<>>, NEW e \in Unseen(Last(path)), LookAt(e), colour[edges[e].dst] = "black"
    PROVE  CompileInv'
<1> USE DEF CompileInv
<1> DEFINE n == Last(path)
           next == edges[e].dst
<1>0. e \in DOMAIN edges /\ e \notin looked /\ edges[e].src = n /\ n \in Index /\ colour[n] = "grey" /\ next \in Index
    BY AtLast, EdgeTypes DEF Unseen
<1>1. /\ looked' = looked \cup {e} /\ delayed' = delayed /\ UNCHANGED <<path, colour, edges, postorder, root>>
    BY DEF LookAt, ClosesCycle
<1>2. Kept' = Kept \cup {e}
    BY <1>0, <1>1 DEF Kept, CompileTypeOK
<1>3. CompileTypeOK'
    BY <1>0, <1>1 DEF CompileTypeOK
<1>4. Coloured'
    BY <1>1 DEF Coloured
<1>5. Searched'
    BY <1>0, <1>1 DEF Searched
<1>6. Ordered'
    BY <1>0, <1>1, <1>2 DEF Ordered, Placed, Down, Precedes
<1>7. PathLeads'
    BY LeadsOn, <1>1, <1>2 DEF PathLeads
<1>8. DelayedClosesCycle'
    BY LeadsOn, <1>1, <1>2 DEF DelayedClosesCycle
<1> QED BY <1>3, <1>4, <1>5, <1>6, <1>7, <1>8

\* An edge into a node on the path: it is delayed, and that node leads to its source.
LEMMA LookGrey ==
    ASSUME CompileInv, path # <<>>, NEW e \in Unseen(Last(path)), LookAt(e), colour[edges[e].dst] = "grey"
    PROVE  CompileInv'
<1> USE DEF CompileInv
<1> DEFINE n == Last(path)
           next == edges[e].dst
<1>0. e \in DOMAIN edges /\ e \notin looked /\ edges[e].src = n /\ n \in Index /\ colour[n] = "grey" /\ next \in Index
    BY AtLast, EdgeTypes DEF Unseen
<1>1. /\ looked' = looked \cup {e} /\ delayed' = delayed \cup {e} /\ UNCHANGED <<path, colour, edges, postorder, root>>
    BY DEF LookAt, ClosesCycle
<1>2. Kept' = Kept
    BY <1>0, <1>1 DEF Kept, CompileTypeOK
<1>3. CompileTypeOK'
    BY <1>0, <1>1 DEF CompileTypeOK
<1>4. Coloured'
    BY <1>1 DEF Coloured
<1>5. Searched'
    BY <1>0, <1>1 DEF Searched
<1>6. Ordered'
    BY <1>1, <1>2 DEF Ordered, Placed, Down, Precedes
<1>7. PathLeads'
    BY LeadsOn, <1>1, <1>2 DEF PathLeads
<1>8. DelayedClosesCycle'
    <2>1. PICK i \in DOMAIN path : path[i] = next
        BY <1>0 DEF Coloured
    <2>2. i <= Len(path) /\ Len(path) \in DOMAIN path /\ n = path[Len(path)]
        BY AtLast, NodeTypes
    <2>3. Leads(next, n)
        BY <2>1, <2>2 DEF PathLeads
    <2>4. Leads(next, n)'
        BY LeadsOn, <1>1, <1>2, <2>3
    <2>5. \A d \in delayed : Leads(edges[d].dst, edges[d].src)'
        BY LeadsOn, <1>1, <1>2 DEF DelayedClosesCycle
    <2> QED BY <1>0, <1>1, <2>4, <2>5 DEF DelayedClosesCycle
<1> QED BY <1>3, <1>4, <1>5, <1>6, <1>7, <1>8

\* An edge into a new node: it is kept, and the path goes on there.
LEMMA LookWhite ==
    ASSUME CompileInv, path # <<>>, NEW e \in Unseen(Last(path)), LookAt(e), colour[edges[e].dst] = "white"
    PROVE  CompileInv'
<1> USE DEF CompileInv
<1> PICK n : n = Last(path)
    OBVIOUS
<1> PICK next : next = edges[e].dst
    OBVIOUS
<1> PICK k : k = Len(path)
    OBVIOUS
<1>0. e \in DOMAIN edges /\ e \notin looked /\ edges[e].src = n /\ n \in Index /\ colour[n] = "grey" /\ next \in Index
    BY AtLast, EdgeTypes DEF Unseen
<1>1. /\ looked' = looked \cup {e} /\ delayed' = delayed /\ UNCHANGED <<edges, postorder, root>>
      /\ path' = Append(path, next) /\ colour' = [colour EXCEPT ![next] = "grey"]
    BY DEF LookAt, ClosesCycle
<1>2. Kept' = Kept \cup {e}
    BY <1>0, <1>1 DEF Kept, CompileTypeOK
<1>a. path \in Seq(Index) /\ k \in Nat /\ DOMAIN path = 1..k /\ k \in DOMAIN path /\ n = path[k]
    BY AtLast, NodeTypes DEF CompileTypeOK
<1>b. DOMAIN path' = 1..(k + 1) /\ path'[k + 1] = next /\ \A i \in DOMAIN path : path'[i] = path[i]
    BY <1>a, <1>1, <1>0
<1>c. \A m \in Index : colour'[m] = IF m = next THEN "grey" ELSE colour[m]
    BY <1>0, <1>1 DEF CompileTypeOK
<1>d. \A i \in DOMAIN path : path[i] # next
    BY <1>0 DEF Coloured
<1>e. DOMAIN path' = DOMAIN path \cup {k + 1} /\ k + 1 \notin DOMAIN path
    BY <1>a, <1>b
<1>3. CompileTypeOK'
    <2>1. path' \in Seq(Index)
        BY <1>0, <1>1, <1>a
    <2>2. colour' \in [Index -> {"white", "grey", "black"}]
        BY <1>1 DEF CompileTypeOK
    <2> QED BY <1>0, <1>1, <2>1, <2>2 DEF CompileTypeOK
<1>4. Coloured'
    <2>1. \A m \in Index : colour'[m] = "grey" <=> \E i \in DOMAIN path' : path'[i] = m
        BY <1>b, <1>c, <1>e DEF Coloured
    <2>2. \A m \in Index : colour'[m] = "black" <=> colour[m] = "black"
        BY <1>c, <1>0
    <2>3. \A i, j \in DOMAIN path' : path'[i] = path'[j] => i = j
        <3>1. \A i, j \in DOMAIN path : path'[i] = path'[j] => i = j
            BY <1>b DEF Coloured
        <3>2. \A i \in DOMAIN path : path'[i] # path'[k + 1]
            BY <1>b, <1>d
        <3> QED BY <3>1, <3>2, <1>e
    <2> QED BY <1>1, <2>1, <2>2, <2>3 DEF Coloured
<1>5. Searched'
    <2>1. \A m \in Index : colour[m] # "white" => colour'[m] # "white"
        BY <1>c
    <2>2. \A f \in DOMAIN edges : edges[f].src \in Index
        BY EdgeTypes
    <2>3. \A f \in looked' : colour'[edges'[f].src] # "white"
        BY <1>0, <1>1, <2>1, <2>2 DEF Searched, CompileTypeOK
    <2>4. \A f \in DOMAIN edges' : colour'[edges'[f].src] = "black" => f \in looked'
        BY <1>1, <1>c, <2>2 DEF Searched
    <2>5. \A m \in Index : m < root' => colour'[m] # "white"
        BY <1>1, <2>1 DEF Searched
    <2> QED BY <2>3, <2>4, <2>5 DEF Searched
<1>6. Ordered'
    <2>1. Down(n, next)'
        <3>1. k \in DOMAIN path' /\ k + 1 \in DOMAIN path' /\ k < k + 1 /\ path'[k] = n /\ path'[k + 1] = next
            BY <1>a, <1>b, <1>e
        <3> QED BY <3>1, <1>1 DEF Down
    <2>2. \A a, b : Down(a, b) => Down(a, b)'
        BY <1>b, <1>e DEF Down
    <2>3. ASSUME NEW f \in Kept, NEW a, a = edges[f].src, NEW b, b = edges[f].dst PROVE Placed(a, b)'
        <3>1. a \in Index /\ b \in Index /\ Placed(a, b)
            BY <2>3, EdgeTypes DEF Kept, CompileTypeOK, Ordered
        <3>2. colour[a] = "grey" /\ colour[b] = "black" => colour'[a] = "grey" /\ colour'[b] = "black"
            BY <3>1, <1>0, <1>c
        <3> QED BY <3>1, <3>2, <1>1, <2>2 DEF Placed, Precedes
    <2>4. Placed(n, next)'
        BY <2>1 DEF Placed
    <2> QED BY <1>0, <1>1, <1>2, <2>3, <2>4 DEF Ordered
<1>7. PathLeads'
    <2>1. \A a, b : Leads(a, b) => Leads(a, b)'
        BY LeadsOn, <1>1, <1>2
    <2>2. ASSUME NEW a, Leads(a, n) PROVE Leads(a, next)'
        <3>1. Leads(a, n)'
            BY <2>1, <2>2
        <3>2. e \in Kept' /\ edges'[e].src = n /\ edges'[e].dst = next
            BY <1>0, <1>1, <1>2
        <3>3. ASSUME NEW set \in SUBSET Index, a \in set, Feeds(set)' PROVE next \in set
            <4>1. n \in set
                BY <3>1, <3>3 DEF Leads
            <4> QED BY <4>1, <3>2, <3>3 DEF Feeds, Kept
        <3> QED BY <3>3 DEF Leads
    <2>3. Leads(next, next)'
        BY DEF Leads
    <2>4. ASSUME NEW i \in DOMAIN path', NEW j \in DOMAIN path', i <= j,
                 NEW a, a = path'[i], NEW b, b = path'[j]
          PROVE  Leads(a, b)'
        <3>1. CASE i \in DOMAIN path /\ j \in DOMAIN path
            <4>1. Leads(a, b)
                BY <3>1, <2>4, <1>b DEF PathLeads
            <4> QED BY <4>1, <2>1
        <3>2. CASE i \in DOMAIN path /\ j = k + 1
            <4>1. i <= k
                BY <3>2, <1>a
            <4>2. Leads(a, n)
                BY <3>2, <4>1, <2>4, <1>a, <1>b DEF PathLeads
            <4> QED BY <3>2, <4>2, <2>2, <2>4, <1>b
        <3>3. CASE i = k + 1
            <4>1. j = k + 1
                BY <3>3, <2>4, <1>a, <1>b
            <4> QED BY <3>3, <4>1, <2>3, <2>4, <1>b
        <3> QED BY <3>1, <3>2, <3>3, <1>e
    <2> QED BY <2>4 DEF PathLeads
<1>8. DelayedClosesCycle'
    BY LeadsOn, <1>1, <1>2 DEF DelayedClosesCycle
<1> QED BY <1>3, <1>4, <1>5, <1>6, <1>7, <1>8

\* Looking at an edge keeps the invariant, whatever the colour of its end.
LEMMA LookInv == CompileInv /\ Look => CompileInv'
<1> SUFFICES ASSUME CompileInv, Look PROVE CompileInv'
    OBVIOUS
<1>1. PICK e \in Unseen(Last(path)) : LookAt(e)
    BY DEF Look
<1>2. path # <<>> /\ edges[e].dst \in Index
    BY EdgeTypes DEF Look, Unseen, CompileInv
<1>3. colour[edges[e].dst] \in {"white", "grey", "black"}
    BY <1>2, NodeTypes DEF CompileInv
<1> QED BY <1>1, <1>2, <1>3, LookBlack, LookGrey, LookWhite

\* A node with no edge left: all it feeds is finished, but for what it closes cycles with.
LEMMA FinishInv == CompileInv /\ Finish => CompileInv'
<1> SUFFICES ASSUME CompileInv, Finish PROVE CompileInv'
    OBVIOUS
<1> USE DEF CompileInv
<1> PICK n : n = Last(path)
    OBVIOUS
<1> PICK k : k = Len(path)
    OBVIOUS
<1> PICK p : p = Len(postorder)
    OBVIOUS
<1>1. /\ colour' = [colour EXCEPT ![n] = "black"] /\ postorder' = Append(postorder, n) /\ path' = Front(path)
      /\ UNCHANGED <<edges, delayed, looked, root>> /\ Kept' = Kept
    BY DEF Finish, Kept
<1>a. path \in Seq(Index) /\ k \in Nat /\ DOMAIN path = 1..k /\ k \in DOMAIN path /\ n = path[k] /\ n \in Index /\ colour[n] = "grey"
    BY AtLast, NodeTypes DEF CompileTypeOK, Finish
<1>b. DOMAIN path' = 1..(k - 1) /\ DOMAIN path = DOMAIN path' \cup {k} /\ k \notin DOMAIN path' /\ \A i \in DOMAIN path' : path'[i] = path[i]
    BY <1>a, <1>1 DEF Front
<1>c. \A m \in Index : colour'[m] = IF m = n THEN "black" ELSE colour[m]
    BY <1>a, <1>1 DEF CompileTypeOK
<1>d. /\ postorder \in Seq(Index) /\ p \in Nat /\ DOMAIN postorder = 1..p
      /\ DOMAIN postorder' = DOMAIN postorder \cup {p + 1} /\ p + 1 \notin DOMAIN postorder
      /\ postorder'[p + 1] = n /\ \A i \in DOMAIN postorder : postorder'[i] = postorder[i] /\ i < p + 1
    BY <1>a, <1>1 DEF CompileTypeOK
<1>2. CompileTypeOK'
    <2>1. path' \in Seq(Index)
        BY <1>a, <1>1 DEF Front
    <2>2. postorder' \in Seq(Index)
        BY <1>a, <1>d, <1>1
    <2>3. colour' \in [Index -> {"white", "grey", "black"}]
        BY <1>1 DEF CompileTypeOK
    <2> QED BY <1>1, <2>1, <2>2, <2>3 DEF CompileTypeOK
<1>3. Coloured'
    <2>1. \A m \in Index : (\E i \in DOMAIN path' : path'[i] = m) <=> m # n /\ \E i \in DOMAIN path : path[i] = m
        BY <1>a, <1>b, SMTT(60) DEF Coloured
    <2>2. \A m \in Index : colour'[m] = "grey" <=> \E i \in DOMAIN path' : path'[i] = m
        BY <1>c, <2>1 DEF Coloured
    <2>3. \A m \in Index : colour'[m] = "black" <=> \E i \in DOMAIN postorder' : postorder'[i] = m
        BY <1>c, <1>d DEF Coloured
    <2>4. \A i, j \in DOMAIN path' : path'[i] = path'[j] => i = j
        BY <1>b DEF Coloured
    <2>5. \A i \in DOMAIN postorder : postorder[i] # n
        BY <1>a DEF Coloured
    <2>6. \A i, j \in DOMAIN postorder' : postorder'[i] = postorder'[j] => i = j
        BY <1>d, <2>5 DEF Coloured
    <2> QED BY <2>2, <2>3, <2>4, <2>6 DEF Coloured
<1>4. Searched'
    <2>1. \A f \in DOMAIN edges : edges[f].src \in Index
        BY EdgeTypes
    <2>2. \A f \in DOMAIN edges : edges[f].src = n => f \in looked
        <3>1. Unseen(n) = {}
            BY DEF Finish
        <3> QED BY <3>1 DEF Unseen
    <2>3. \A f \in looked' : colour'[edges'[f].src] # "white"
        BY <1>1, <1>c, <2>1 DEF Searched, CompileTypeOK
    <2>4. \A f \in DOMAIN edges' : colour'[edges'[f].src] = "black" => f \in looked'
        BY <1>1, <1>c, <2>1, <2>2 DEF Searched
    <2>5. \A m \in Index : m < root' => colour'[m] # "white"
        BY <1>1, <1>c DEF Searched
    <2> QED BY <2>3, <2>4, <2>5 DEF Searched
<1>5. Ordered'
    <2> SUFFICES ASSUME NEW f \in Kept, NEW a, a = edges[f].src, NEW b, b = edges[f].dst PROVE Placed(a, b)'
        BY <1>1 DEF Ordered
    <2>1. a \in Index /\ b \in Index /\ Placed(a, b)
        BY EdgeTypes DEF Kept, CompileTypeOK, Ordered
    <2>2. CASE Precedes(b, a, postorder)
        <3>1. Precedes(b, a, postorder)'
            BY <2>2, <1>d DEF Precedes
        <3> QED BY <3>1 DEF Placed
    <2>3. CASE colour[a] = "grey" /\ colour[b] = "black"
        <3>1. CASE a = n
            <4>1. PICK i \in DOMAIN postorder : postorder[i] = b
                BY <2>1, <2>3 DEF Coloured
            <4>2. Precedes(b, a, postorder)'
                BY <3>1, <4>1, <1>d DEF Precedes
            <4> QED BY <4>2 DEF Placed
        <3>2. CASE a # n
            BY <2>1, <2>3, <3>2, <1>c DEF Placed
        <3> QED BY <3>1, <3>2
    <2>4. CASE Down(a, b)
        <3>1. PICK i, j \in DOMAIN path : i < j /\ path[i] = a /\ path[j] = b
            BY <2>4 DEF Down
        <3>2. i \in DOMAIN path' /\ i # k
            BY <3>1, <1>a, <1>b
        <3>3. CASE j = k
            <4>1. a # n /\ b = n /\ colour[a] = "grey"
                BY <3>1, <3>2, <3>3, <1>a, <2>1 DEF Coloured
            <4> QED BY <2>1, <4>1, <1>c DEF Placed
        <3>4. CASE j # k
            <4>1. Down(a, b)'
                BY <3>1, <3>2, <3>4, <1>b DEF Down
            <4> QED BY <4>1 DEF Placed
        <3> QED BY <3>3, <3>4
    <2> QED BY <2>1, <2>2, <2>3, <2>4 DEF Placed
<1>6. PathLeads'
    <2>1. \A a, b : Leads(a, b) => Leads(a, b)'
        BY LeadsOn, <1>1
    <2>2. ASSUME NEW i \in DOMAIN path', NEW j \in DOMAIN path', i <= j,
                 NEW a, a = path'[i], NEW b, b = path'[j]
          PROVE  Leads(a, b)'
        <3>1. Leads(a, b)
            BY <2>2, <1>b DEF PathLeads
        <3> QED BY <3>1, <2>1
    <2> QED BY <2>2 DEF PathLeads
<1>7. DelayedClosesCycle'
    BY LeadsOn, <1>1 DEF DelayedClosesCycle
<1> QED BY <1>2, <1>3, <1>4, <1>5, <1>6, <1>7

----------------------------------------------------------------------------

\* So does every step of the search.
LEMMA StepInv == CompileInv /\ [CompileNext]_compileVars => CompileInv'
<1> SUFFICES ASSUME CompileInv, [CompileNext]_compileVars PROVE CompileInv'
    OBVIOUS
<1>1. CASE VisitRoot
    BY <1>1, RootInv
<1>2. CASE Look
    BY <1>2, LookInv
<1>3. CASE Finish
    BY <1>3, FinishInv
<1>4. CASE UNCHANGED compileVars
    BY <1>4, SMTT(30) DEF compileVars, CompileInv, CompileTypeOK, Coloured, Searched, Ordered, Placed, Down, Kept,
        PathLeads, Precedes, DelayedClosesCycle, Leads, Feeds
<1> QED BY <1>1, <1>2, <1>3, <1>4 DEF CompileNext

\* At the end nothing is white or grey, so every kept edge is in order, and every node
\* is in the order once.
LEMMA InvSound == CompileInv => ScheduleSound
<1> SUFFICES ASSUME CompileInv, Compiled PROVE ScheduleOrders
    BY DEF CompileInv, ScheduleSound, ScheduleOrders
<1> USE DEF CompileInv
<1>1. \A n \in Index : colour[n] = "black"
    <2>1. \A n \in Index : colour[n] # "grey"
        BY DEF Compiled, Coloured
    <2>2. \A n \in Index : colour[n] # "white"
        BY CompileAssumption DEF Compiled, CompileTypeOK, Searched, Index
    <2> QED BY <2>1, <2>2, NodeTypes
<1>2. Range(postorder) = Index
    BY <1>1, NodeTypes DEF Coloured, Range
<1>3. Len(postorder) = NodeCount
    <2>1. postorder \in Bijection(1..Len(postorder), Index)
        <3>1. postorder \in [1..Len(postorder) -> Index] /\ DOMAIN postorder = 1..Len(postorder)
            BY NodeTypes DEF CompileTypeOK
        <3>2. \A n \in Index : \E i \in 1..Len(postorder) : postorder[i] = n
            BY <1>1, NodeTypes DEF Coloured
        <3> QED BY <3>1, <3>2 DEF Coloured, Bijection, Injection, Surjection, IsInjective
    <2>2. ExistsBijection(1..Len(postorder), Index)
        BY <2>1 DEF ExistsBijection
    <2> PICK p : p = Len(postorder)
        OBVIOUS
    <2>0. p \in Nat
        BY NodeTypes
    <2>3. IsFiniteSet(1..p) /\ Cardinality(1..p) = IF 1 > p THEN 0 ELSE p - 1 + 1
        <3>1. 1 \in Int /\ p \in Int
            BY <2>0
        <3> QED BY <3>1, FS_Interval, Zenon
    <2>4. Cardinality(1..NodeCount) = IF 1 > NodeCount THEN 0 ELSE NodeCount - 1 + 1
        BY FS_Interval, CompileAssumption
    <2>5. Cardinality(Index) = Cardinality(1..Len(postorder))
        BY <2>2, <2>3, FS_Bijection
    <2> QED BY <2>0, <2>3, <2>4, <2>5, CompileAssumption DEF Index
<1>4. ASSUME NEW e \in DOMAIN edges \ delayed PROVE Precedes(edges[e].dst, edges[e].src, postorder)
    <2>1. edges[e].src \in Index /\ edges[e].dst \in Index
        BY EdgeTypes
    <2>2. e \in Kept
        BY <1>1, <2>1 DEF Searched, Kept
    <2>3. ~Down(edges[e].src, edges[e].dst) /\ colour[edges[e].src] # "grey"
        BY <1>1, <2>1 DEF Compiled, Down
    <2> QED BY <2>2, <2>3 DEF Ordered, Placed
<1> QED BY <1>2, <1>3, <1>4 DEF ScheduleOrders

\* graph/graph_compile.cpp, compile_graph: the schedule of every patch evaluates each node
\* once and after all that feeds it in the same block, and a cable is a block late only if
\* its destination leads back to its source.
THEOREM ScheduleSoundHolds == CompileSpec => []ScheduleSound
<1>1. CompileSpec => []CompileInv
    BY InitInv, StepInv, PTL DEF CompileSpec
<1> QED BY <1>1, InvSound, PTL

----------------------------------------------------------------------------
(* Lists whose elements have ids.                                          *)

Distinct(list) == \A i, j \in DOMAIN list : list[i].id = list[j].id => i = j

\* A sequence of any set is a list: its domain is an interval, and its elements are its range.
LEMMA ListFacts ==
    ASSUME NEW D, NEW list \in Seq(D)
    PROVE  /\ IsList(list) /\ Range(list) \subseteq D /\ Len(list) \in Nat /\ DOMAIN list = 1..Len(list)
           /\ Range(list) = {list[i] : i \in DOMAIN list}
<1>1. PICK n \in Nat : n = Len(list) /\ DOMAIN list = 1..n
  OBVIOUS
<1>2. Range(list) = {list[i] : i \in DOMAIN list}
  BY DEF Range
<1>3. list \in [1..n -> Range(list)]
  BY <1>1, <1>2
<1>4. list \in Seq(Range(list))
  BY <1>3, SeqDef, ZenonT(60)
<1>5. Range(list) \subseteq D
  BY <1>2
<1> QED
  BY <1>1, <1>2, <1>4, <1>5 DEF IsList

\* A function on an interval is a list.
LEMMA ListMade ==
    ASSUME NEW n \in Nat, NEW list, list = [i \in 1..n |-> list[i]]
    PROVE  IsList(list) /\ Len(list) = n /\ DOMAIN list = 1..n
<1>1. PICK D : D = {list[i] : i \in 1..n}
  OBVIOUS
<1>2. list \in [1..n -> D] /\ DOMAIN list = 1..n
  BY <1>1
<1>3. list \in Seq(D)
  BY <1>2, SeqDef, Zenon
<1>4. Len(list) = n
  BY <1>2, <1>3
<1>5. IsList(list)
  BY <1>3, ListFacts, Zenon
<1> QED
  BY <1>2, <1>4, <1>5

\* One more element.
LEMMA AppendFacts ==
    ASSUME NEW list, IsList(list), NEW x
    PROVE  /\ IsList(Append(list, x)) /\ Range(Append(list, x)) = Range(list) \cup {x}
           /\ Distinct(list) /\ (\A y \in Range(list) : y.id # x.id) => Distinct(Append(list, x))
           /\ Distinct(Append(list, x)) => Distinct(list) /\ \A y \in Range(list) : y.id # x.id
<1>1. PICK D : D = Range(list) \cup {x}
  OBVIOUS
<1>2. list \in Seq(Range(list))
  BY DEF IsList
<1>3. PICK n \in Nat : n = Len(list) /\ DOMAIN list = 1..n
  BY <1>2
<1>4. list \in [1..n -> D]
  BY <1>1, <1>2, <1>3
<1>5. list \in Seq(D)
  BY <1>4, SeqDef, Zenon
<1>6. PICK more : more = Append(list, x)
  OBVIOUS
<1>7. /\ more \in Seq(D) /\ Len(more) = n + 1 /\ DOMAIN more = 1..(n + 1)
      /\ more[n + 1] = x /\ \A i \in 1..n : more[i] = list[i]
  BY <1>1, <1>3, <1>5, <1>6
<1>8. \A y : y \in Range(list) <=> \E i \in 1..n : y = list[i]
  BY <1>3 DEF Range
<1>9. \A y : y \in Range(more) <=> \E i \in 1..(n + 1) : y = more[i]
  BY <1>7 DEF Range
<1>10. Range(more) = Range(list) \cup {x}
  <2>1. ASSUME NEW y \in Range(more) PROVE y \in Range(list) \cup {x}
    BY <1>7, <1>8, <1>9
  <2>2. ASSUME NEW y \in Range(list) PROVE y \in Range(more)
    BY <1>7, <1>8, <1>9
  <2>3. x \in Range(more)
    BY <1>7, <1>9
  <2> QED
    BY <2>1, <2>2, <2>3
<1>11. ASSUME Distinct(list), \A y \in Range(list) : y.id # x.id PROVE Distinct(more)
  <2>1. \A i, j \in 1..n : list[i].id = list[j].id => i = j
    BY <1>3, <1>11 DEF Distinct
  <2>2. \A i \in 1..n : list[i].id # x.id
    BY <1>8, <1>11
  <2> QED
    BY <1>7, <2>1, <2>2 DEF Distinct
<1>12. ASSUME Distinct(more) PROVE Distinct(list) /\ \A y \in Range(list) : y.id # x.id
  <2>1. \A i, j \in 1..(n + 1) : more[i].id = more[j].id => i = j
    BY <1>7, <1>12 DEF Distinct
  <2>2. \A i, j \in 1..n : list[i].id = list[j].id => i = j
    BY <1>7, <2>1
  <2>3. \A i \in 1..n : list[i].id # x.id
    BY <1>7, <2>1
  <2> QED
    BY <1>3, <1>8, <2>2, <2>3 DEF Distinct
<1> QED
  BY <1>6, <1>7, <1>10, <1>11, <1>12, ListFacts

\* What std::erase_if leaves is a list of what is in the set, in which no id is new.
PickStep(ctx, kept, x) == IF x \in ctx THEN Append(kept, x) ELSE kept
PickHolds(ctx, done, kept) ==
    IsList(done) => /\ IsList(kept) /\ Range(kept) = Range(done) \cap ctx
                    /\ Distinct(done) => Distinct(kept)
Picking == INSTANCE FoldLemmas WITH Step <- PickStep, Holds <- PickHolds

\* One element is looked at.
LEMMA PickOne ==
    ASSUME NEW ctx, NEW D, NEW done \in Seq(D), NEW x, NEW kept, PickHolds(ctx, done, kept)
    PROVE  PickHolds(ctx, Append(done, x), PickStep(ctx, kept, x))
<1>1. IsList(done) /\ IsList(kept) /\ Range(kept) = Range(done) \cap ctx /\ (Distinct(done) => Distinct(kept))
  BY ListFacts DEF PickHolds
<1>2. PICK more : more = Append(done, x)
  OBVIOUS
<1>3. /\ Range(more) = Range(done) \cup {x}
      /\ Distinct(more) => Distinct(done) /\ \A y \in Range(done) : y.id # x.id
  BY <1>1, <1>2, AppendFacts
<1>4. CASE x \in ctx
  <2>1. PICK longer : longer = Append(kept, x)
    OBVIOUS
  <2>2. /\ IsList(longer) /\ Range(longer) = Range(kept) \cup {x}
        /\ Distinct(kept) /\ (\A y \in Range(kept) : y.id # x.id) => Distinct(longer)
    BY <1>1, <2>1, AppendFacts
  <2>3. Range(longer) = Range(more) \cap ctx
    BY <1>1, <1>3, <1>4, <2>2
  <2>4. Distinct(more) => Distinct(longer)
    BY <1>1, <1>3, <2>2
  <2>5. PickStep(ctx, kept, x) = longer
    BY <1>4, <2>1 DEF PickStep
  <2> QED
    BY <1>2, <2>2, <2>3, <2>4, <2>5, Zenon DEF PickHolds
<1>5. CASE x \notin ctx
  <2>1. PickStep(ctx, kept, x) = kept
    BY <1>5 DEF PickStep
  <2>2. Range(kept) = Range(more) \cap ctx
    BY <1>1, <1>3, <1>5
  <2> QED
    BY <1>1, <1>2, <1>3, <2>1, <2>2, Zenon DEF PickHolds
<1> QED
  BY <1>4, <1>5

\* Erasing from a list leaves a list: of the elements that stay, each as often as it was.
LEMMA WithinFacts ==
    ASSUME NEW list, IsList(list), NEW set
    PROVE  /\ IsList(Within(list, set)) /\ Range(Within(list, set)) = Range(list) \cap set
           /\ Distinct(list) => Distinct(Within(list, set))
<1>1. list \in Seq(Range(list))
  BY DEF IsList
<1>2. PickHolds(set, <<>>, <<>>)
  BY DEF PickHolds, Range, IsList
<1>3. \A done \in Seq(Range(list)), x \in Range(list) : \A kept :
        PickHolds(set, done, kept) => PickHolds(set, Append(done, x), PickStep(set, kept, x))
  BY PickOne, Zenon
<1>4. PickHolds(set, list, Picking!Fold(set, <<>>, list))
  BY <1>1, <1>2, <1>3, Picking!FoldHolds, Zenon
<1>5. Within(list, set) = Picking!Fold(set, <<>>, list)
  BY ZenonT(60) DEF Within, Picking!Fold, PickStep, FoldLeft, MapThenFoldSet, Picking!FoldLeft,
     Picking!MapThenFoldSet,
                    Max, Picking!Max
<1> QED
  BY <1>4, <1>5, Zenon DEF PickHolds

\* Walking the keys of a map that has finitely many visits those keys.
LEMMA WalkFacts ==
    ASSUME NEW keys, IsFiniteSet(keys)
    PROVE  IsList(Walk(keys)) /\ Range(Walk(keys)) \subseteq keys /\ (keys # {} => Head(Walk(keys)) \in keys)
<1>1. PICK n \in Nat : n = Cardinality(keys)
  BY FS_CardinalityType
<1>2. IsFiniteSet(1..n) /\ Cardinality(1..n) = n
  <2>1. Cardinality(1..n) = IF 1 > n THEN 0 ELSE n - 1 + 1
    BY FS_Interval
  <2> QED
    BY <2>1, FS_Interval
<1>3. ExistsBijection(1..n, keys)
  BY <1>1, <1>2, FS_SameCardinalityBij
<1>4. \E f \in [1..n -> keys] : IsInjective(f)
  <2>1. PICK f \in Bijection(1..n, keys) : TRUE
    BY <1>3 DEF ExistsBijection
  <2>2. f \in [1..n -> keys] /\ \A a, b \in 1..n : f[a] = f[b] => a = b
    BY <2>1 DEF Bijection, Injection, IsInjective
  <2>3. IsInjective(f)
    BY <2>2 DEF IsInjective
  <2> QED
    BY <2>2, <2>3
<1>5. PICK walk : walk = Walk(keys)
  OBVIOUS
<1>6. walk \in [1..n -> keys]
  BY <1>1, <1>4, <1>5, Zenon DEF Walk, SetToSeq
<1>7. walk \in Seq(keys)
  BY <1>6, SeqDef, Zenon
<1>8. IsList(walk) /\ Range(walk) \subseteq keys
  BY <1>7, ListFacts
<1>9. ASSUME keys # {} PROVE Head(walk) \in keys
  <2>1. n # 0
    BY <1>1, <1>9, FS_EmptySet
  <2>2. Len(walk) = n
    BY <1>6, <1>7
  <2> QED
    BY <1>7, <2>1, <2>2
<1> QED
  BY <1>5, <1>8, <1>9

\* Two lists are one.
LEMMA JoinFacts ==
    ASSUME NEW a, IsList(a), NEW b, IsList(b)
    PROVE  IsList(a \o b) /\ Range(a \o b) = Range(a) \cup Range(b)
<1>1. PICK n \in Nat, m \in Nat : n = Len(a) /\ m = Len(b) /\ DOMAIN a = 1..n /\ DOMAIN b = 1..m
  BY DEF IsList
<1>2. PICK D : D = Range(a) \cup Range(b)
  OBVIOUS
<1>3. a \in [1..n -> D] /\ b \in [1..m -> D]
  BY <1>1, <1>2 DEF IsList
<1>4. a \in Seq(D) /\ b \in Seq(D)
  <2>1. \A k \in Nat : \A x \in [1..k -> D] : x \in Seq(D)
    BY SeqDef, Zenon
  <2> QED
    BY <1>3, <2>1
<1>5. PICK ab : ab = a \o b
  OBVIOUS
<1>6. /\ ab \in Seq(D) /\ Len(ab) = n + m /\ DOMAIN ab = 1..(n + m)
      /\ \A i \in 1..n : ab[i] = a[i]
      /\ \A j \in 1..m : ab[n + j] = b[j]
  <2>1. ab \in Seq(D) /\ Len(ab) = n + m
    BY <1>1, <1>4, <1>5
  <2>2. \A i \in 1..(n + m) : ab[i] = IF i <= n THEN a[i] ELSE b[i - n]
    BY <1>1, <1>4, <1>5
  <2> QED
    BY <2>1, <2>2
<1>7. Range(ab) = D
  <2>1. Range(ab) \subseteq D
    BY <1>6, ListFacts
  <2>2. ASSUME NEW x \in Range(a) PROVE x \in Range(ab)
    <3>1. PICK i \in 1..n : x = a[i]
      BY <1>1, <2>2 DEF Range
    <3>2. i \in DOMAIN ab /\ ab[i] = x
      BY <1>6, <3>1
    <3> QED
      BY <3>2 DEF Range
  <2>3. ASSUME NEW x \in Range(b) PROVE x \in Range(ab)
    <3>1. PICK j \in 1..m : x = b[j]
      BY <1>1, <2>3 DEF Range
    <3>2. n + j \in DOMAIN ab /\ ab[n + j] = x
      BY <1>6, <3>1
    <3> QED
      BY <3>2 DEF Range
  <2> QED
    BY <1>2, <2>1, <2>2, <2>3
<1> QED
  BY <1>2, <1>5, <1>6, <1>7, ListFacts

\* As many ids as elements.
LEMMA DistinctCount ==
    ASSUME NEW list, IsList(list), Distinct(list)
    PROVE  /\ Cardinality({list[i].id : i \in DOMAIN list}) = Len(list)
           /\ IsFiniteSet({list[i].id : i \in DOMAIN list})
<1>1. PICK n \in Nat : n = Len(list) /\ DOMAIN list = 1..n
  BY DEF IsList
<1>2. PICK ids : ids = {list[i].id : i \in DOMAIN list}
  OBVIOUS
<1>3. PICK f : f = [i \in 1..n |-> list[i].id]
  OBVIOUS
<1>4. f \in [1..n -> ids] /\ (\A a, b \in 1..n : f[a] = f[b] => a = b) /\ \A t \in ids : \E i \in 1..n : f[i] = t
  BY <1>1, <1>2, <1>3 DEF Distinct
<1>5. ExistsBijection(1..n, ids)
  <2>1. f \in Injection(1..n, ids)
    BY <1>4 DEF Injection, IsInjective
  <2>2. f \in Surjection(1..n, ids)
    BY <1>4 DEF Surjection
  <2> QED
    BY <2>1, <2>2 DEF ExistsBijection, Bijection
<1>6. IsFiniteSet(1..n) /\ Cardinality(1..n) = n
  <2>1. Cardinality(1..n) = IF 1 > n THEN 0 ELSE n - 1 + 1
    BY FS_Interval
  <2> QED
    BY <2>1, FS_Interval
<1> QED
  BY <1>1, <1>2, <1>5, <1>6, FS_Bijection

----------------------------------------------------------------------------
(* The graph. What a cable needs of it is a set: of the ids of the nodes,  *)
(* each with its plugin.                                                   *)

IsNode(n) == \E id, plugin, strip : n = [id |-> id, plugin |-> plugin, strip |-> strip]
IsCable(c) == \E id, src, dst, mode : c = [id |-> id, src |-> src, dst |-> dst, mode |-> mode]
AreNodes(ns) == IsList(ns) /\ (\A n \in Range(ns) : IsNode(n)) /\ Distinct(ns)
AreCables(cs) == IsList(cs) /\ (\A c \in Range(cs) : IsCable(c)) /\ Distinct(cs)

OutsAt(p) == Outs([plugin |-> p])
InsAt(p) == Ins([plugin |-> p])
Plugs(p, q, from, to) ==
    HasPort(OutsAt(p), from) /\ HasPort(InsAt(q), to) /\ Compatible(KindOf(OutsAt(p), from), KindOf(InsAt(q), to))
Fits(set, src, dst) ==
    \E p, q : <<src.node, p>> \in set /\ <<dst.node, q>> \in set /\ Plugs(p, q, src.port, dst.port)

Shapes(ns) == Range(Shape(ns))
GraphOK(ns, cs) == AreNodes(ns) /\ AreCables(cs) /\ \A c \in Range(cs) : Fits(Shapes(ns), c.src, c.dst)

\* The ports of a node are those of its plugin.
LEMMA PortsFacts == ASSUME NEW n PROVE Outs(n) = OutsAt(n.plugin) /\ Ins(n) = InsAt(n.plugin)
<1>1. PICK m : m = [plugin |-> n.plugin]
  OBVIOUS
<1>2. m.plugin = n.plugin
  BY <1>1
<1>3. Outs(n) = Outs(m)
  BY <1>2, Zenon DEF Outs
<1>4. Ins(n) = Ins(m)
  BY <1>2, Zenon DEF Ins
<1> QED
  BY <1>1, <1>3, <1>4, Zenon DEF OutsAt, InsAt

\* The set of a list of nodes.
LEMMA ShapesFacts ==
    ASSUME NEW ns, IsList(ns)
    PROVE  /\ \A x : x \in Shapes(ns) <=> \E i \in DOMAIN ns : x = <<ns[i].id, ns[i].plugin>>
           /\ \A x : x \in Shapes(ns) <=> \E n \in Range(ns) : x = <<n.id, n.plugin>>
           /\ \A id : HasNode(ns, id) <=> \E p : <<id, p>> \in Shapes(ns)
<1>1. PICK shape : shape = Shape(ns)
  OBVIOUS
<1>2. DOMAIN shape = DOMAIN ns /\ \A i \in DOMAIN ns : shape[i] = <<ns[i].id, ns[i].plugin>>
  BY <1>1 DEF Shape
<1>3. \A x : x \in Shapes(ns) <=> \E i \in DOMAIN ns : x = <<ns[i].id, ns[i].plugin>>
  BY <1>1, <1>2 DEF Shapes, Range
<1>4. \A x : x \in Shapes(ns) <=> \E n \in Range(ns) : x = <<n.id, n.plugin>>
  BY <1>3 DEF Range
<1>5. ASSUME NEW id PROVE HasNode(ns, id) <=> \E p : <<id, p>> \in Shapes(ns)
  <2>1. ASSUME NEW i \in DOMAIN ns, ns[i].id = id PROVE \E p : <<id, p>> \in Shapes(ns)
    <3>1. <<id, ns[i].plugin>> \in Shapes(ns)
      BY <1>3, <2>1
    <3> QED
      BY <3>1
  <2>2. ASSUME NEW p, <<id, p>> \in Shapes(ns) PROVE \E i \in DOMAIN ns : ns[i].id = id
    <3>1. PICK i \in DOMAIN ns : <<id, p>> = <<ns[i].id, ns[i].plugin>>
      BY <1>3, <2>2
    <3> QED
      BY <3>1
  <2> QED
    BY <2>1, <2>2, Zenon DEF HasNode
<1> QED
  BY <1>3, <1>4, <1>5

\* The node of an id, and its ports.
LEMMA NodeOfFacts ==
    ASSUME NEW ns, AreNodes(ns), NEW id, NEW p, <<id, p>> \in Shapes(ns)
    PROVE  NodeOf(ns, id).plugin = p /\ Outs(NodeOf(ns, id)) = OutsAt(p) /\ Ins(NodeOf(ns, id)) = InsAt(p)
<1>1. PICK i \in DOMAIN ns : <<id, p>> = <<ns[i].id, ns[i].plugin>>
  BY ShapesFacts DEF AreNodes
<1>2. ns[i].id = id /\ ns[i].plugin = p
  BY <1>1
<1>3. \A j \in DOMAIN ns : ns[j].id = id => j = i
  BY <1>2 DEF AreNodes, Distinct
<1>4. (CHOOSE j \in DOMAIN ns : ns[j].id = id) = i
  BY <1>2, <1>3
<1>5. NodeOf(ns, id) = ns[i]
  BY <1>4, Zenon DEF NodeOf
<1> QED
  BY <1>2, <1>5, PortsFacts

\* What connect checks is that the cable fits.
LEMMA ConnectsIfFits ==
    ASSUME NEW ns, AreNodes(ns), NEW cs, NEW src, NEW dst, NEW id
    PROVE  CanConnect(ns, cs, src, dst, id) <=> ~HasCable(cs, id) /\ Fits(Shapes(ns), src, dst)
<1>0. /\ \A x : HasNode(ns, x) <=> \E p : <<x, p>> \in Shapes(ns)
  BY ShapesFacts DEF AreNodes
<1>1. ASSUME CanConnect(ns, cs, src, dst, id) PROVE ~HasCable(cs, id) /\ Fits(Shapes(ns), src, dst)
  <2>1. PICK p, q : <<src.node, p>> \in Shapes(ns) /\ <<dst.node, q>> \in Shapes(ns)
    BY <1>0, <1>1 DEF CanConnect
  <2>2. Outs(NodeOf(ns, src.node)) = OutsAt(p) /\ Ins(NodeOf(ns, dst.node)) = InsAt(q)
    BY <2>1, NodeOfFacts
  <2>3. Plugs(p, q, src.port, dst.port)
    BY <1>1, <2>2, Zenon DEF CanConnect, CanConnectKinds, Plugs
  <2> QED
    BY <1>1, <2>1, <2>3, Zenon DEF CanConnect, Fits
<1>2. ASSUME ~HasCable(cs, id), Fits(Shapes(ns), src, dst) PROVE CanConnect(ns, cs, src, dst, id)
  <2>1. PICK p, q : <<src.node, p>> \in Shapes(ns) /\ <<dst.node, q>> \in Shapes(ns) /\ Plugs(p, q, src.port, dst.port)
    BY <1>2, Zenon DEF Fits
  <2>2. Outs(NodeOf(ns, src.node)) = OutsAt(p) /\ Ins(NodeOf(ns, dst.node)) = InsAt(q)
    BY <2>1, NodeOfFacts
  <2>3. HasNode(ns, src.node) /\ HasNode(ns, dst.node)
    BY <1>0, <2>1
  <2> QED
    BY <1>2, <2>1, <2>2, <2>3, Zenon DEF CanConnect, CanConnectKinds, Plugs
<1> QED
  BY <1>1, <1>2

\* A cable that fits, fits where there are more nodes.
LEMMA FitsMore ==
    ASSUME NEW small, NEW large, small \subseteq large, NEW src, NEW dst, Fits(small, src, dst)
    PROVE  Fits(large, src, dst)
BY DEF Fits

\* One more node, under an id no node has.
LEMMA NodeAdded ==
    ASSUME NEW ns, NEW cs, GraphOK(ns, cs), NEW n, IsNode(n), ~HasNode(ns, n.id)
    PROVE  GraphOK(Append(ns, n), cs) /\ Shapes(Append(ns, n)) = Shapes(ns) \cup {<<n.id, n.plugin>>}
<1>1. PICK more : more = Append(ns, n)
  OBVIOUS
<1>2. \A m \in Range(ns) : m.id # n.id
  BY DEF HasNode, Range
<1>3. IsList(more) /\ Range(more) = Range(ns) \cup {n} /\ Distinct(more)
  BY <1>1, <1>2, AppendFacts DEF GraphOK, AreNodes
<1>4. AreNodes(more)
  BY <1>3 DEF GraphOK, AreNodes
<1>5. /\ \A x : x \in Shapes(more) <=> \E m \in Range(more) : x = <<m.id, m.plugin>>
      /\ \A x : x \in Shapes(ns) <=> \E m \in Range(ns) : x = <<m.id, m.plugin>>
  BY <1>3, ShapesFacts DEF GraphOK, AreNodes
<1>6. Shapes(more) = Shapes(ns) \cup {<<n.id, n.plugin>>}
  BY <1>3, <1>5
<1>7. \A c \in Range(cs) : Fits(Shapes(more), c.src, c.dst)
  BY <1>6, FitsMore DEF GraphOK
<1> QED
  BY <1>1, <1>4, <1>6, <1>7 DEF GraphOK

\* Nodes that keep their ids and their plugins.
LEMMA NodesDressed ==
    ASSUME NEW ns, NEW cs, GraphOK(ns, cs), NEW now, now = [i \in DOMAIN ns |-> now[i]],
           \A i \in DOMAIN ns : IsNode(now[i]) /\ now[i].id = ns[i].id /\ now[i].plugin = ns[i].plugin
    PROVE  GraphOK(now, cs) /\ Shapes(now) = Shapes(ns) /\ Shape(now) = Shape(ns)
<1>1. PICK k \in Nat : k = Len(ns) /\ DOMAIN ns = 1..k
  BY DEF GraphOK, AreNodes, IsList
<1>2. IsList(now) /\ DOMAIN now = DOMAIN ns
  BY <1>1, ListMade
<1>3. Distinct(now)
  BY <1>2 DEF GraphOK, AreNodes, Distinct
<1>4. AreNodes(now)
  BY <1>2, <1>3 DEF AreNodes, Range
<1>5. Shape(now) = Shape(ns)
  BY <1>2 DEF Shape
<1>6. Shapes(now) = Shapes(ns)
  BY <1>5, Zenon DEF Shapes
<1> QED
  BY <1>4, <1>5, <1>6 DEF GraphOK

\* A node is taken out, with the cables at it.
LEMMA NodeRemoved ==
    ASSUME NEW ns, NEW cs, GraphOK(ns, cs), NEW id
    PROVE  /\ GraphOK(RemoveNode(ns, id), CablesWithout(cs, id))
           /\ Shapes(RemoveNode(ns, id)) = {x \in Shapes(ns) : x[1] # id}
           /\ Range(CablesWithout(cs, id)) = {c \in Range(cs) : c.src.node # id /\ c.dst.node # id}
<1>1. PICK left, kept : left = RemoveNode(ns, id) /\ kept = CablesWithout(cs, id)
  OBVIOUS
<1>2. IsList(left) /\ Range(left) = {n \in Range(ns) : n.id # id} /\ Distinct(left)
  <2>1. PICK set : set = {n \in Range(ns) : n.id # id}
    OBVIOUS
  <2>2. left = Within(ns, set)
    BY <1>1, <2>1, Zenon DEF RemoveNode
  <2> QED
    BY <2>1, <2>2, WithinFacts DEF GraphOK, AreNodes
<1>3. IsList(kept) /\ Range(kept) = {c \in Range(cs) : c.src.node # id /\ c.dst.node # id} /\ Distinct(kept)
  <2>1. PICK set : set = {c \in Range(cs) : c.src.node # id /\ c.dst.node # id}
    OBVIOUS
  <2>2. kept = Within(cs, set)
    BY <1>1, <2>1, Zenon DEF CablesWithout
  <2> QED
    BY <2>1, <2>2, WithinFacts DEF GraphOK, AreCables
<1>4. AreNodes(left) /\ AreCables(kept)
  BY <1>2, <1>3 DEF GraphOK, AreNodes, AreCables
<1>5. /\ \A x : x \in Shapes(left) <=> \E m \in Range(left) : x = <<m.id, m.plugin>>
      /\ \A x : x \in Shapes(ns) <=> \E m \in Range(ns) : x = <<m.id, m.plugin>>
  BY <1>2, ShapesFacts DEF GraphOK, AreNodes
<1>6. Shapes(left) = {x \in Shapes(ns) : x[1] # id}
  <2>1. ASSUME NEW x \in Shapes(left) PROVE x \in Shapes(ns) /\ x[1] # id
    BY <1>2, <1>5
  <2>2. ASSUME NEW x \in Shapes(ns), x[1] # id PROVE x \in Shapes(left)
    BY <1>2, <1>5, <2>2
  <2> QED
    BY <2>1, <2>2
<1>7. ASSUME NEW c \in Range(kept) PROVE Fits(Shapes(left), c.src, c.dst)
  <2>1. c.src.node # id /\ c.dst.node # id /\ Fits(Shapes(ns), c.src, c.dst)
    BY <1>3 DEF GraphOK
  <2>2. PICK p, q : /\ <<c.src.node, p>> \in Shapes(ns) /\ <<c.dst.node, q>> \in Shapes(ns)
                    /\ Plugs(p, q, c.src.port, c.dst.port)
    BY <2>1, Zenon DEF Fits
  <2>3. <<c.src.node, p>> \in Shapes(left) /\ <<c.dst.node, q>> \in Shapes(left)
    BY <1>6, <2>1, <2>2
  <2> QED
    BY <2>2, <2>3, Zenon DEF Fits
<1> QED
  BY <1>1, <1>3, <1>4, <1>6, <1>7 DEF GraphOK

\* A cable is connected: it joins the others exactly when it fits and its id is free.
LEMMA CableAdded ==
    ASSUME NEW ns, NEW cs, GraphOK(ns, cs), NEW c, IsCable(c)
    PROVE  /\ GraphOK(ns, Connect(ns, cs, c))
           /\ Fits(Shapes(ns), c.src, c.dst) /\ (\A d \in Range(cs) : d.id # c.id)
                => Range(Connect(ns, cs, c)) = Range(cs) \cup {c}
<1>1. HasCable(cs, c.id) <=> \E d \in Range(cs) : d.id = c.id
  BY DEF HasCable, Range
<1>2. CanConnect(ns, cs, c.src, c.dst, c.id) <=> ~HasCable(cs, c.id) /\ Fits(Shapes(ns), c.src, c.dst)
  BY ConnectsIfFits DEF GraphOK
<1>3. CASE CanConnect(ns, cs, c.src, c.dst, c.id)
  <2>1. PICK more : more = Append(cs, c)
    OBVIOUS
  <2>2. IsList(more) /\ Range(more) = Range(cs) \cup {c} /\ Distinct(more)
    BY <1>1, <1>2, <1>3, <2>1, AppendFacts DEF GraphOK, AreCables
  <2>3. GraphOK(ns, more)
    BY <1>2, <1>3, <2>2 DEF GraphOK, AreCables
  <2>4. Connect(ns, cs, c) = more
    BY <1>3, <2>1 DEF Connect
  <2> QED
    BY <2>2, <2>3, <2>4
<1>4. CASE ~CanConnect(ns, cs, c.src, c.dst, c.id)
  BY <1>1, <1>2, <1>4 DEF Connect
<1> QED
  BY <1>3, <1>4

\* A cable is taken out.
LEMMA CableRemoved ==
    ASSUME NEW ns, NEW cs, GraphOK(ns, cs), NEW id
    PROVE  GraphOK(ns, Disconnect(cs, id)) /\ Range(Disconnect(cs, id)) = {c \in Range(cs) : c.id # id}
<1>1. PICK set, left : set = {c \in Range(cs) : c.id # id} /\ left = Disconnect(cs, id)
  OBVIOUS
<1>2. left = Within(cs, set)
  BY <1>1, Zenon DEF Disconnect
<1>3. IsList(left) /\ Range(left) = set /\ Distinct(left)
  BY <1>1, <1>2, WithinFacts DEF GraphOK, AreCables
<1>4. GraphOK(ns, left)
  BY <1>1, <1>3 DEF GraphOK, AreCables
<1> QED
  BY <1>1, <1>3, <1>4

\* The mode of a cable is set.
Turned(c, id, mode) == IF c.id = id THEN [c EXCEPT !.mode = mode] ELSE c
\* Setting the mode of a cable changes nothing else of it, and can be taken back.
LEMMA TurnedFacts ==
    ASSUME NEW c, IsCable(c), NEW id, NEW mode
    PROVE  /\ IsCable(Turned(c, id, mode)) /\ Turned(c, id, mode).id = c.id
           /\ Turned(c, id, mode).src = c.src /\ Turned(c, id, mode).dst = c.dst
           /\ (c.id = id => c.mode = mode) => Turned(c, id, mode) = c
           /\ \A before : Turned(Turned(c, id, before), id, mode) = Turned(c, id, mode)
<1>1. PICK a, src, dst, m : c = [id |-> a, src |-> src, dst |-> dst, mode |-> m]
  BY DEF IsCable
<1>2. \A x : [c EXCEPT !.mode = x] = [id |-> a, src |-> src, dst |-> dst, mode |-> x]
  BY <1>1
<1>3. CASE c.id = id
  <2>1. \A x : Turned(c, id, x) = [id |-> a, src |-> src, dst |-> dst, mode |-> x]
    BY <1>2, <1>3 DEF Turned
  <2>2. ASSUME NEW before PROVE Turned(Turned(c, id, before), id, mode) = Turned(c, id, mode)
    <3>1. PICK d : d = Turned(c, id, before) /\ d = [id |-> a, src |-> src, dst |-> dst, mode |-> before]
      BY <2>1
    <3>2. Turned(d, id, mode) = [id |-> a, src |-> src, dst |-> dst, mode |-> mode]
      BY <1>1, <1>3, <3>1 DEF Turned
    <3> QED
      BY <2>1, <3>1, <3>2
  <2>3. PICK t : t = Turned(c, id, mode) /\ t = [id |-> a, src |-> src, dst |-> dst, mode |-> mode]
    BY <2>1
  <2>4. IsCable(t) /\ t.id = c.id /\ t.src = c.src /\ t.dst = c.dst
    <3>1. t.id = c.id /\ t.src = c.src /\ t.dst = c.dst
      BY <1>1, <2>3
    <3>2. IsCable(t)
      BY <2>3, Zenon DEF IsCable
    <3> QED
      BY <3>1, <3>2
  <2>5. c.mode = mode => t = c
    BY <1>1, <2>3
  <2> QED
    BY <1>3, <2>2, <2>3, <2>4, <2>5
<1>4. CASE c.id # id
  <2>1. \A x : Turned(c, id, x) = c
    BY <1>4 DEF Turned
  <2> QED
    BY <2>1
<1> QED
  BY <1>3, <1>4

\* Setting the mode in a list of cables keeps it a graph; its set is that of the cables turned.
LEMMA ModeSet ==
    ASSUME NEW ns, NEW cs, GraphOK(ns, cs), NEW id, NEW mode
    PROVE  /\ GraphOK(ns, SetMode(cs, id, mode))
           /\ Range(SetMode(cs, id, mode)) = {Turned(c, id, mode) : c \in Range(cs)}
<1>1. PICK k \in Nat : k = Len(cs) /\ DOMAIN cs = 1..k
  BY DEF GraphOK, AreCables, IsList
<1>2. PICK now : now = SetMode(cs, id, mode)
  OBVIOUS
<1>3. now = [i \in 1..k |-> Turned(cs[i], id, mode)]
  BY <1>1, <1>2, Zenon DEF SetMode, Turned
<1>4. IsList(now) /\ DOMAIN now = 1..k /\ \A i \in 1..k : now[i] = Turned(cs[i], id, mode)
  <2>1. DOMAIN now = 1..k /\ \A i \in 1..k : now[i] = Turned(cs[i], id, mode)
    BY <1>3
  <2>2. now = [i \in 1..k |-> now[i]]
    BY <1>3, <2>1
  <2> QED
    BY <2>1, <2>2, ListMade
<1>5. \A i \in 1..k : IsCable(cs[i]) /\ Fits(Shapes(ns), cs[i].src, cs[i].dst)
  BY <1>1 DEF GraphOK, AreCables, Range
<1>6. \A i \in 1..k : IsCable(now[i]) /\ now[i].id = cs[i].id /\ now[i].src = cs[i].src /\ now[i].dst = cs[i].dst
  BY <1>4, <1>5, TurnedFacts
<1>7. Distinct(now)
  BY <1>1, <1>4, <1>6 DEF GraphOK, AreCables, Distinct
<1>8. \A c \in Range(now) : IsCable(c) /\ Fits(Shapes(ns), c.src, c.dst)
  BY <1>4, <1>5, <1>6 DEF Range
<1>9. GraphOK(ns, now)
  BY <1>4, <1>7, <1>8 DEF GraphOK, AreCables
<1>10. Range(now) = {Turned(c, id, mode) : c \in Range(cs)}
  BY <1>1, <1>4 DEF Range
<1> QED
  BY <1>2, <1>9, <1>10

\* next_node_id finds an id no node has.
LEMMA NextIsFree == ASSUME NEW ns, IsList(ns), NEW prefix PROVE ~HasNode(ns, NextNode(ns, prefix))
<1>1. PICK k \in Nat : k = Len(ns) /\ DOMAIN ns = 1..k
  BY DEF IsList
<1>2. PICK free : free = {n \in 1..(k + 1) : ~HasNode(ns, <<prefix, n>>)}
  OBVIOUS
<1>3. free # {}
  <2>1. SUFFICES ASSUME free = {} PROVE FALSE
    OBVIOUS
  <2>2. PICK f : f = [n \in 1..(k + 1) |-> CHOOSE i \in 1..k : ns[i].id = <<prefix, n>>]
    OBVIOUS
  <2>3. \A n \in 1..(k + 1) : \E i \in 1..k : ns[i].id = <<prefix, n>>
    BY <1>1, <1>2, <2>1 DEF HasNode
  <2>4. \A n \in 1..(k + 1) : f[n] \in 1..k /\ ns[f[n]].id = <<prefix, n>>
    BY <2>2, <2>3
  <2>5. f \in [1..(k + 1) -> 1..k]
    BY <2>2, <2>4
  <2>6. IsFiniteSet(1..k) /\ IsFiniteSet(1..(k + 1)) /\ Cardinality(1..k) < Cardinality(1..(k + 1))
    <3>1. IsFiniteSet(1..k) /\ Cardinality(1..k) = IF 1 > k THEN 0 ELSE k - 1 + 1
      BY FS_Interval
    <3>2. IsFiniteSet(1..(k + 1)) /\ Cardinality(1..(k + 1)) = IF 1 > k + 1 THEN 0 ELSE k + 1 - 1 + 1
      BY FS_Interval
    <3> QED
      BY <3>1, <3>2
  <2>7. PICK x, y \in 1..(k + 1) : x # y /\ f[x] = f[y]
    BY <2>5, <2>6, FS_PigeonHole
  <2>8. <<prefix, x>> = <<prefix, y>>
    BY <2>4, <2>7
  <2> QED
    BY <2>7, <2>8
<1>4. PICK x \in free : \A y \in free : x <= y
  <2>1. free \subseteq Nat
    BY <1>2
  <2> QED
    BY <1>3, <2>1, Picking!LeastElement
<1>5. Min(free) \in free
  BY <1>4, Zenon DEF Min
<1>6. NextNode(ns, prefix) = <<prefix, Min(free)>>
  BY <1>1, <1>2, Zenon DEF NextNode
<1> QED
  BY <1>2, <1>5, <1>6

----------------------------------------------------------------------------
(* The history. A scene is what undoing changes: the nodes, less their     *)
(* windows, the cables, and the entry of the instrument table.             *)

IsGraph(g) == \E ns, cs, entry : g = [nodes |-> ns, cables |-> cs, slot |-> entry]
PatchShows(g, s) ==
    /\ IsGraph(g) /\ GraphOK(g.nodes, g.cables)
    /\ Shapes(g.nodes) = s.nodes /\ Range(g.cables) = s.cables /\ g.slot = s.slot

\* What an edit leads from and to.
Adds(c, s, t) ==
    /\ IsCable(c) /\ Fits(s.nodes, c.src, c.dst) /\ (\A d \in s.cables : d.id # c.id)
    /\ t.cables = s.cables \cup {c} /\ t.nodes = s.nodes /\ t.slot = s.slot
Turns(e, s, t) ==
    /\ \A c \in s.cables : IsCable(c) /\ (c.id = e.what => c.mode = e.before)
    /\ t.cables = {Turned(c, e.what, e.after) : c \in s.cables} /\ t.nodes = s.nodes /\ t.slot = s.slot
Places(id, s, t) ==
    /\ id[1] \in Utilities /\ (\A x \in s.nodes : x[1] # id)
    /\ \A c \in s.cables : c.src.node # id /\ c.dst.node # id
    /\ t.nodes = s.nodes \cup {<<id, id[1]>>} /\ t.cables = s.cables /\ t.slot = s.slot
Enters(e, s, t) == s.slot = e.before /\ t.slot = e.after /\ t.nodes = s.nodes /\ t.cables = s.cables
PatchLinks(e, s, t) ==
    \/ e.op = "connect" /\ Adds(e.what, s, t)
    \/ e.op = "disconnect" /\ Adds(e.what, t, s)
    \/ e.op = "mode" /\ Turns(e, s, t)
    \/ e.op = "utility" /\ Places(e.what, s, t)
    \/ e.op = "entry" /\ Enters(e, s, t)

Patch == INSTANCE HistoryLemmas WITH Links <- PatchLinks, Shows <- PatchShows, Back <- Restored, Forth <- Repeated

\* A graph with other cables, other nodes, another entry.
LEMMA OtherCables ==
    ASSUME NEW g, IsGraph(g), NEW cs, NEW now, now = [g EXCEPT !.cables = cs]
    PROVE  IsGraph(now) /\ now.nodes = g.nodes /\ now.cables = cs /\ now.slot = g.slot
<1>1. PICK a, b, c : g = [nodes |-> a, cables |-> b, slot |-> c]
  BY DEF IsGraph
<1>2. now = [nodes |-> a, cables |-> cs, slot |-> c]
  BY <1>1
<1>3. IsGraph(now)
  BY <1>2, Zenon DEF IsGraph
<1> QED
  BY <1>1, <1>2, <1>3

\* A graph with other nodes.
LEMMA OtherNodes ==
    ASSUME NEW g, IsGraph(g), NEW ns, NEW now, now = [g EXCEPT !.nodes = ns]
    PROVE  IsGraph(now) /\ now.nodes = ns /\ now.cables = g.cables /\ now.slot = g.slot
<1>1. PICK a, b, c : g = [nodes |-> a, cables |-> b, slot |-> c]
  BY DEF IsGraph
<1>2. now = [nodes |-> ns, cables |-> b, slot |-> c]
  BY <1>1
<1>3. IsGraph(now)
  BY <1>2, Zenon DEF IsGraph
<1> QED
  BY <1>1, <1>2, <1>3

\* A graph with another entry of the instrument table.
LEMMA OtherEntry ==
    ASSUME NEW g, IsGraph(g), NEW entry, NEW now, now = [g EXCEPT !.slot = entry]
    PROVE  IsGraph(now) /\ now.nodes = g.nodes /\ now.cables = g.cables /\ now.slot = entry
<1>1. PICK a, b, c : g = [nodes |-> a, cables |-> b, slot |-> c]
  BY DEF IsGraph
<1>2. now = [nodes |-> a, cables |-> b, slot |-> entry]
  BY <1>1
<1>3. IsGraph(now)
  BY <1>2, Zenon DEF IsGraph
<1> QED
  BY <1>1, <1>2, <1>3

WithBoth(g, ns, cs) == [g EXCEPT !.nodes = ns, !.cables = cs]
\* A graph with other nodes and other cables.
LEMMA OtherGraph ==
    ASSUME NEW g, IsGraph(g), NEW ns, NEW cs, NEW now, now = WithBoth(g, ns, cs)
    PROVE  IsGraph(now) /\ now.nodes = ns /\ now.cables = cs /\ now.slot = g.slot
<1>1. PICK a, b, c : g = [nodes |-> a, cables |-> b, slot |-> c]
  BY DEF IsGraph
<1>2. PICK mid : mid = [g EXCEPT !.nodes = ns]
  OBVIOUS
<1>3. mid = [nodes |-> ns, cables |-> b, slot |-> c]
  BY <1>1, <1>2
<1>6. now = [mid EXCEPT !.cables = cs]
  BY <1>2, Zenon DEF WithBoth
<1>4. now = [nodes |-> ns, cables |-> cs, slot |-> c]
  BY <1>3, <1>6
<1>5. IsGraph(now)
  BY <1>4, Zenon DEF IsGraph
<1> QED
  BY <1>1, <1>4, <1>5

\* A cable more, or less.
LEMMA PatchAdds ==
    ASSUME NEW g, NEW s, PatchShows(g, s), NEW t, NEW c
    PROVE  /\ Adds(c, s, t) => PatchShows([g EXCEPT !.cables = Connect(g.nodes, @, c)], t)
           /\ Adds(c, t, s) => PatchShows([g EXCEPT !.cables = Disconnect(@, c.id)], t)
<1>1. ASSUME Adds(c, s, t) PROVE PatchShows([g EXCEPT !.cables = Connect(g.nodes, @, c)], t)
  <2>1. PICK cs : cs = Connect(g.nodes, g.cables, c)
    OBVIOUS
  <2>2. GraphOK(g.nodes, cs) /\ Range(cs) = t.cables
    BY <1>1, <2>1, CableAdded DEF PatchShows, Adds
  <2>3. PICK now : now = [g EXCEPT !.cables = cs]
    OBVIOUS
  <2>4. IsGraph(now) /\ now.nodes = g.nodes /\ now.cables = cs /\ now.slot = g.slot
    BY <2>3, OtherCables DEF PatchShows
  <2>5. PatchShows(now, t)
    BY <1>1, <2>2, <2>4 DEF PatchShows, Adds
  <2> QED
    BY <2>1, <2>3, <2>5, Zenon
<1>2. ASSUME Adds(c, t, s) PROVE PatchShows([g EXCEPT !.cables = Disconnect(@, c.id)], t)
  <2>1. PICK cs : cs = Disconnect(g.cables, c.id)
    OBVIOUS
  <2>2. GraphOK(g.nodes, cs) /\ Range(cs) = {d \in Range(g.cables) : d.id # c.id}
    BY <2>1, CableRemoved DEF PatchShows
  <2>3. Range(cs) = t.cables
    BY <1>2, <2>2 DEF PatchShows, Adds
  <2>4. PICK now : now = [g EXCEPT !.cables = cs]
    OBVIOUS
  <2>5. IsGraph(now) /\ now.nodes = g.nodes /\ now.cables = cs /\ now.slot = g.slot
    BY <2>4, OtherCables DEF PatchShows
  <2>6. PatchShows(now, t)
    BY <1>2, <2>2, <2>3, <2>5 DEF PatchShows, Adds
  <2> QED
    BY <2>1, <2>4, <2>6, Zenon
<1> QED
  BY <1>1, <1>2

\* A mode set, or set back.
LEMMA PatchTurns ==
    ASSUME NEW g, NEW s, PatchShows(g, s), NEW t, NEW e
    PROVE  /\ Turns(e, s, t) => PatchShows([g EXCEPT !.cables = SetMode(@, e.what, e.after)], t)
           /\ Turns(e, t, s) => PatchShows([g EXCEPT !.cables = SetMode(@, e.what, e.before)], t)
<1>1. ASSUME NEW mode, t.nodes = s.nodes, t.slot = s.slot, t.cables = {Turned(c, e.what, mode) : c \in s.cables}
      PROVE  PatchShows([g EXCEPT !.cables = SetMode(@, e.what, mode)], t)
  <2>1. PICK cs : cs = SetMode(g.cables, e.what, mode)
    OBVIOUS
  <2>2. GraphOK(g.nodes, cs) /\ Range(cs) = t.cables
    BY <1>1, <2>1, ModeSet DEF PatchShows
  <2>3. PICK now : now = [g EXCEPT !.cables = cs]
    OBVIOUS
  <2>4. IsGraph(now) /\ now.nodes = g.nodes /\ now.cables = cs /\ now.slot = g.slot
    BY <2>3, OtherCables DEF PatchShows
  <2>5. PatchShows(now, t)
    BY <1>1, <2>2, <2>4 DEF PatchShows
  <2> QED
    BY <2>1, <2>3, <2>5, Zenon
<1>2. ASSUME Turns(e, t, s) PROVE t.cables = {Turned(c, e.what, e.before) : c \in s.cables}
  <2>1. \A c \in t.cables : Turned(Turned(c, e.what, e.after), e.what, e.before) = c
    <3>1. ASSUME NEW c \in t.cables PROVE Turned(Turned(c, e.what, e.after), e.what, e.before) = c
      <4>1. IsCable(c) /\ (c.id = e.what => c.mode = e.before)
        BY <1>2 DEF Turns
      <4>2. Turned(Turned(c, e.what, e.after), e.what, e.before) = Turned(c, e.what, e.before)
        BY <4>1, TurnedFacts
      <4>3. Turned(c, e.what, e.before) = c
        BY <4>1, TurnedFacts
      <4> QED
        BY <4>2, <4>3
    <3> QED
      BY <3>1
  <2>2. s.cables = {Turned(c, e.what, e.after) : c \in t.cables}
    BY <1>2 DEF Turns
  <2>3. ASSUME NEW c \in t.cables PROVE c \in {Turned(d, e.what, e.before) : d \in s.cables}
    <3>1. Turned(c, e.what, e.after) \in s.cables
      BY <2>2
    <3> QED
      BY <2>1, <3>1
  <2>4. ASSUME NEW d \in s.cables PROVE Turned(d, e.what, e.before) \in t.cables
    <3>1. PICK c \in t.cables : d = Turned(c, e.what, e.after)
      BY <2>2
    <3> QED
      BY <2>1, <3>1
  <2> QED
    BY <2>3, <2>4
<1> QED
  BY <1>1, <1>2 DEF Turns

\* A utility more, or less.
LEMMA PatchPlaces ==
    ASSUME NEW g, NEW s, PatchShows(g, s), NEW t, NEW id
    PROVE  /\ Places(id, s, t) => PatchShows([g EXCEPT !.nodes = Append(@, Node(id, id[1]))], t)
           /\ Places(id, t, s) => PatchShows([g EXCEPT !.nodes = RemoveNode(@, id), !.cables = CablesWithout(@, id)], t)
<1>1. ASSUME Places(id, s, t) PROVE PatchShows([g EXCEPT !.nodes = Append(@, Node(id, id[1]))], t)
  <2>1. PICK n : n = Node(id, id[1])
    OBVIOUS
  <2>2. IsNode(n) /\ n.id = id /\ n.plugin = id[1]
    BY <2>1 DEF Node, IsNode
  <2>3. ~HasNode(g.nodes, id)
    <3>1. \A p : <<id, p>> \notin s.nodes
      <4>1. ASSUME NEW p PROVE <<id, p>> \notin s.nodes
        <5>1. <<id, p>>[1] = id
          OBVIOUS
        <5> QED
          BY <1>1, <5>1 DEF Places
      <4> QED
        BY <4>1
    <3>2. IsList(g.nodes) /\ Shapes(g.nodes) = s.nodes
      BY DEF PatchShows, GraphOK, AreNodes
    <3>3. HasNode(g.nodes, id) => \E p : <<id, p>> \in Shapes(g.nodes)
      BY <3>2, ShapesFacts, Zenon
    <3> QED
      BY <3>1, <3>2, <3>3
  <2>4. PICK ns : ns = Append(g.nodes, n)
    OBVIOUS
  <2>5. GraphOK(ns, g.cables) /\ Shapes(ns) = t.nodes
    BY <1>1, <2>2, <2>3, <2>4, NodeAdded DEF PatchShows, Places
  <2>6. PICK now : now = [g EXCEPT !.nodes = ns]
    OBVIOUS
  <2>7. IsGraph(now) /\ now.nodes = ns /\ now.cables = g.cables /\ now.slot = g.slot
    BY <2>6, OtherNodes DEF PatchShows
  <2>8. PatchShows(now, t)
    BY <1>1, <2>5, <2>7 DEF PatchShows, Places
  <2> QED
    BY <2>1, <2>4, <2>6, <2>8, Zenon
<1>2. ASSUME Places(id, t, s)
      PROVE  PatchShows([g EXCEPT !.nodes = RemoveNode(@, id), !.cables = CablesWithout(@, id)], t)
  <2>1. PICK ns, cs : ns = RemoveNode(g.nodes, id) /\ cs = CablesWithout(g.cables, id)
    OBVIOUS
  <2>2. /\ GraphOK(ns, cs) /\ Shapes(ns) = {x \in s.nodes : x[1] # id}
        /\ Range(cs) = {c \in s.cables : c.src.node # id /\ c.dst.node # id}
    BY <2>1, NodeRemoved DEF PatchShows
  <2>3. Shapes(ns) = t.nodes /\ Range(cs) = t.cables
    <3>1. <<id, id[1]>>[1] = id
      OBVIOUS
    <3> QED
      BY <1>2, <2>2, <3>1 DEF Places
  <2>4. PICK now : now = WithBoth(g, ns, cs)
    OBVIOUS
  <2>5. IsGraph(now) /\ now.nodes = ns /\ now.cables = cs /\ now.slot = g.slot
    BY <2>4, OtherGraph DEF PatchShows
  <2>6. PatchShows(now, t)
    BY <1>2, <2>2, <2>3, <2>5 DEF PatchShows, Places
  <2> QED
    BY <2>1, <2>4, <2>6, Zenon DEF WithBoth
<1> QED
  BY <1>1, <1>2

\* An entry of the table.
LEMMA PatchEnters ==
    ASSUME NEW g, NEW s, PatchShows(g, s), NEW t, NEW e
    PROVE  /\ Enters(e, s, t) => PatchShows([g EXCEPT !.slot = e.after], t)
           /\ Enters(e, t, s) => PatchShows([g EXCEPT !.slot = e.before], t)
<1>1. ASSUME NEW entry, t.nodes = s.nodes, t.cables = s.cables, t.slot = entry PROVE PatchShows([g EXCEPT !.slot = entry], t)
  <2>1. PICK now : now = [g EXCEPT !.slot = entry]
    OBVIOUS
  <2>2. IsGraph(now) /\ now.nodes = g.nodes /\ now.cables = g.cables /\ now.slot = entry
    BY <2>1, OtherEntry DEF PatchShows
  <2> QED
    BY <1>1, <2>1, <2>2 DEF PatchShows
<1> QED
  BY <1>1 DEF Enters

\* Undoing an edit leads back.
LEMMA PatchBack == Patch!BackShows
<1> SUFFICES ASSUME NEW e, NEW s, NEW t, NEW g, PatchLinks(e, s, t), PatchShows(g, t) PROVE PatchShows(Restored(g, e), s)
  BY Zenon DEF Patch!BackShows
<1>1. CASE e.op = "connect" /\ Adds(e.what, s, t)
  <2>1. Restored(g, e) = [g EXCEPT !.cables = Disconnect(@, e.what.id)]
    BY <1>1 DEF Restored
  <2>2. PatchShows([g EXCEPT !.cables = Disconnect(@, e.what.id)], s)
    BY <1>1, PatchAdds
  <2> QED
    BY <2>1, <2>2, Zenon
<1>2. CASE e.op = "disconnect" /\ Adds(e.what, t, s)
  <2>1. Restored(g, e) = [g EXCEPT !.cables = Connect(g.nodes, @, e.what)]
    BY <1>2 DEF Restored
  <2>2. PatchShows([g EXCEPT !.cables = Connect(g.nodes, @, e.what)], s)
    BY <1>2, PatchAdds
  <2> QED
    BY <2>1, <2>2, Zenon
<1>3. CASE e.op = "mode" /\ Turns(e, s, t)
  <2>1. Restored(g, e) = [g EXCEPT !.cables = SetMode(@, e.what, e.before)]
    BY <1>3 DEF Restored
  <2>2. PatchShows([g EXCEPT !.cables = SetMode(@, e.what, e.before)], s)
    BY <1>3, PatchTurns
  <2> QED
    BY <2>1, <2>2, Zenon
<1>4. CASE e.op = "utility" /\ Places(e.what, s, t)
  <2>1. Restored(g, e) = [g EXCEPT !.nodes = RemoveNode(@, e.what), !.cables = CablesWithout(@, e.what)]
    BY <1>4 DEF Restored
  <2>2. PatchShows([g EXCEPT !.nodes = RemoveNode(@, e.what), !.cables = CablesWithout(@, e.what)], s)
    BY <1>4, PatchPlaces
  <2> QED
    BY <2>1, <2>2, Zenon
<1>5. CASE e.op = "entry" /\ Enters(e, s, t)
  <2>1. Restored(g, e) = [g EXCEPT !.slot = e.before]
    BY <1>5 DEF Restored
  <2>2. PatchShows([g EXCEPT !.slot = e.before], s)
    BY <1>5, PatchEnters
  <2> QED
    BY <2>1, <2>2, Zenon
<1> QED
  BY <1>1, <1>2, <1>3, <1>4, <1>5, Zenon DEF PatchLinks

\* Making it again leads forth.
LEMMA PatchForth == Patch!ForthShows
<1> SUFFICES ASSUME NEW e, NEW s, NEW t, NEW g, PatchLinks(e, s, t), PatchShows(g, s) PROVE PatchShows(Repeated(g, e), t)
  BY Zenon DEF Patch!ForthShows
<1>1. CASE e.op = "connect" /\ Adds(e.what, s, t)
  <2>1. Repeated(g, e) = [g EXCEPT !.cables = Connect(g.nodes, @, e.what)]
    BY <1>1 DEF Repeated
  <2>2. PatchShows([g EXCEPT !.cables = Connect(g.nodes, @, e.what)], t)
    BY <1>1, PatchAdds
  <2> QED
    BY <2>1, <2>2, Zenon
<1>2. CASE e.op = "disconnect" /\ Adds(e.what, t, s)
  <2>1. Repeated(g, e) = [g EXCEPT !.cables = Disconnect(@, e.what.id)]
    BY <1>2 DEF Repeated
  <2>2. PatchShows([g EXCEPT !.cables = Disconnect(@, e.what.id)], t)
    BY <1>2, PatchAdds
  <2> QED
    BY <2>1, <2>2, Zenon
<1>3. CASE e.op = "mode" /\ Turns(e, s, t)
  <2>1. Repeated(g, e) = [g EXCEPT !.cables = SetMode(@, e.what, e.after)]
    BY <1>3 DEF Repeated
  <2>2. PatchShows([g EXCEPT !.cables = SetMode(@, e.what, e.after)], t)
    BY <1>3, PatchTurns
  <2> QED
    BY <2>1, <2>2, Zenon
<1>4. CASE e.op = "utility" /\ Places(e.what, s, t)
  <2>1. Repeated(g, e) = [g EXCEPT !.nodes = Append(@, Node(e.what, e.what[1]))]
    BY <1>4 DEF Repeated
  <2>2. PatchShows([g EXCEPT !.nodes = Append(@, Node(e.what, e.what[1]))], t)
    BY <1>4, PatchPlaces
  <2> QED
    BY <2>1, <2>2, Zenon
<1>5. CASE e.op = "entry" /\ Enters(e, s, t)
  <2>1. Repeated(g, e) = [g EXCEPT !.slot = e.after]
    BY <1>5 DEF Repeated
  <2>2. PatchShows([g EXCEPT !.slot = e.after], t)
    BY <1>5, PatchEnters
  <2> QED
    BY <2>1, <2>2, Zenon
<1> QED
  BY <1>1, <1>2, <1>3, <1>4, <1>5, Zenon DEF PatchLinks

\* No edit of the history makes a plugin's node, or takes one.
HostedIn(s) == {x \in s.nodes : x[2] \in Plugins}
\* No edit of the history touches the nodes of plugins.
LEMMA LinksKeepHosted == ASSUME NEW e, NEW s, NEW t, PatchLinks(e, s, t) PROVE HostedIn(t) = HostedIn(s)
<1>1. CASE t.nodes = s.nodes
  BY <1>1 DEF HostedIn
<1>2. CASE Places(e.what, s, t)
  <2>1. PICK x : x = <<e.what, e.what[1]>>
    OBVIOUS
  <2>2. x[2] \notin Plugins
    <3>1. x[2] \in Utilities
      BY <1>2, <2>1 DEF Places
    <3> QED
      BY <3>1, WorkspaceAssumption
  <2> QED
    BY <1>2, <2>1, <2>2 DEF Places, HostedIn
<1> QED
  BY <1>1, <1>2 DEF PatchLinks, Adds, Turns, Enters

\* And so no list of edits does.
LEMMA PathKeepsHosted == ASSUME NEW list, NEW s, NEW t, Patch!Path(list, s, t) PROVE HostedIn(t) = HostedIn(s)
<1>1. PICK D, S : list \in Seq(D) /\ S[0] = s /\ S[Len(list)] = t /\ Patch!Trail(list, S)
  BY Zenon DEF Patch!Path
<1>2. PICK n \in Nat : n = Len(list)
  BY <1>1
<1>3. PICK T : T = {i \in Nat : i <= n /\ HostedIn(S[i]) # HostedIn(s)}
  OBVIOUS
<1>4. T = {}
  <2>1. SUFFICES ASSUME T # {} PROVE FALSE
    OBVIOUS
  <2>2. T \subseteq Nat
    BY <1>3
  <2>3. PICK i \in T : \A j \in T : i <= j
    BY <2>1, <2>2, Picking!LeastElement
  <2>4. i \in Nat /\ i <= n /\ i # 0 /\ i \in 1..n
    BY <1>1, <1>3, <2>3
  <2>5. PICK j \in Nat : j = i - 1 /\ j <= n /\ j \notin T
    BY <2>3, <2>4
  <2>6. HostedIn(S[j]) = HostedIn(s)
    BY <1>3, <2>5
  <2>7. PatchLinks(list[i], S[i - 1], S[i])
    BY <1>1, <1>2, <2>4, Zenon DEF Patch!Trail
  <2>8. HostedIn(S[i]) = HostedIn(S[i - 1])
    BY <2>7, LinksKeepHosted
  <2> QED
    BY <1>3, <2>3, <2>5, <2>6, <2>8
<1> QED
  BY <1>1, <1>2, <1>3, <1>4

\* What the history does, here and in the lemmas.
LEMMA PatchOperations ==
    /\ \A h, e : Patch!Push(h, e) = Push(h, e)
    /\ \A h : Patch!Undone(h) = Undone(h) /\ Patch!Redone(h) = Redone(h)
    /\ \A h : Patch!Clear(h) = Clear(h) /\ Patch!Reset(h) = Reset(h) /\ Patch!NoHistory = NoHistory
<1>1. \A h, e : Patch!Commit(h, e) = Commit(h, e)
  <2>1. \A list : Patch!SampleOps(list) = SampleOps(list)
    BY ZenonT(60) DEF Patch!SampleOps, SampleOps
  <2>2. \A list : Patch!Truncate(list) = Truncate(list)
    BY ZenonT(60) DEF Patch!Truncate, Truncate, Patch!SelectInSeq, SelectInSeq, Patch!Min, Min
  <2> QED
    BY <2>1, <2>2, ZenonT(60) DEF Patch!Commit, Commit
<1>2. \A list, op : Patch!Entry(list, op) = Entry(list, op)
  BY Zenon DEF Patch!Entry, Entry
<1>3. \A h, e : Patch!Push(h, e) = Push(h, e)
  BY <1>1, <1>2, ZenonT(60) DEF Patch!Push, Push
<1>4. \A h : Patch!Undone(h) = Undone(h) /\ Patch!Redone(h) = Redone(h)
  BY ZenonT(60) DEF Patch!Undone, Undone, Patch!Redone, Redone, Patch!Front, Front, Patch!Last, Last
<1>5. \A h : Patch!Clear(h) = Clear(h) /\ Patch!Reset(h) = Reset(h) /\ Patch!NoHistory = NoHistory
  BY ZenonT(60) DEF Patch!Clear, Clear, Patch!Reset, Reset, Patch!NoHistory, NoHistory
<1> QED
  BY <1>3, <1>4, <1>5, Zenon

----------------------------------------------------------------------------
(* The nodes of plugins are those that have a plugin.                      *)

Hosts(set, inst, ext) ==
    /\ \A id \in DOMAIN inst : "plugin" \in DOMAIN inst[id] /\ inst[id].plugin \in Ntp
    /\ \A id \in DOMAIN ext : {"plugin", "bridged"} \subseteq DOMAIN ext[id] /\ ext[id].plugin \in External
    /\ \A id, p : p \in Ntp => (<<id, p>> \in set <=> id \in DOMAIN inst /\ inst[id].plugin = p)
    /\ \A id, p : p \in External => (<<id, p>> \in set <=> id \in DOMAIN ext /\ ext[id].plugin = p)

\* What an assignment to a map does.
LEMMA AssignedFacts ==
    ASSUME NEW m, NEW key, NEW value
    PROVE  /\ DOMAIN Assigned(m, key, value) = DOMAIN m \cup {key} /\ Assigned(m, key, value)[key] = value
           /\ \A k \in DOMAIN m : k # key => Assigned(m, key, value)[k] = m[k]
BY DEF Assigned

\* A native plugin's node comes with its instance.
LEMMA HostsInstance ==
    ASSUME NEW set, NEW inst, NEW ext, Hosts(set, inst, ext), NEW id, \A p : <<id, p>> \notin set,
           NEW r, "plugin" \in DOMAIN r, r.plugin \in Ntp
    PROVE  Hosts(set \cup {<<id, r.plugin>>}, Assigned(inst, id, r), ext)
<1>1. PICK now, more : now = Assigned(inst, id, r) /\ more = set \cup {<<id, r.plugin>>}
  OBVIOUS
<1>2. DOMAIN now = DOMAIN inst \cup {id} /\ now[id] = r /\ \A k \in DOMAIN inst : k # id => now[k] = inst[k]
  BY <1>1 DEF Assigned
<1>3. \A k, p : <<k, p>> \in more <=> <<k, p>> \in set \/ (k = id /\ p = r.plugin)
  BY <1>1
<1>4. ASSUME NEW k, NEW p, p \in Ntp PROVE <<k, p>> \in more <=> k \in DOMAIN now /\ now[k].plugin = p
  <2>1. CASE k = id
    BY <1>2, <1>3, <2>1
  <2>2. CASE k # id
    BY <1>2, <1>3, <1>4, <2>2 DEF Hosts
  <2> QED
    BY <2>1, <2>2
<1>5. ASSUME NEW k, NEW p, p \in External PROVE <<k, p>> \in more <=> k \in DOMAIN ext /\ ext[k].plugin = p
  <2>1. p # r.plugin
    BY <1>5, WorkspaceAssumption
  <2> QED
    BY <1>3, <1>5, <2>1 DEF Hosts
<1>6. ASSUME NEW k \in DOMAIN now PROVE "plugin" \in DOMAIN now[k] /\ now[k].plugin \in Ntp
  BY <1>2 DEF Hosts
<1>7. Hosts(more, now, ext)
  BY <1>4, <1>5, <1>6 DEF Hosts
<1> QED
  BY <1>1, <1>7

\* And so does an external one's.
LEMMA HostsExternal ==
    ASSUME NEW set, NEW inst, NEW ext, Hosts(set, inst, ext), NEW id, \A p : <<id, p>> \notin set,
           NEW r, {"plugin", "bridged"} \subseteq DOMAIN r, r.plugin \in External
    PROVE  Hosts(set \cup {<<id, r.plugin>>}, inst, Assigned(ext, id, r))
<1>1. PICK now, more : now = Assigned(ext, id, r) /\ more = set \cup {<<id, r.plugin>>}
  OBVIOUS
<1>2. DOMAIN now = DOMAIN ext \cup {id} /\ now[id] = r /\ \A k \in DOMAIN ext : k # id => now[k] = ext[k]
  BY <1>1 DEF Assigned
<1>3. \A k, p : <<k, p>> \in more <=> <<k, p>> \in set \/ (k = id /\ p = r.plugin)
  BY <1>1
<1>4. ASSUME NEW k, NEW p, p \in External PROVE <<k, p>> \in more <=> k \in DOMAIN now /\ now[k].plugin = p
  <2>1. CASE k = id
    BY <1>2, <1>3, <2>1
  <2>2. CASE k # id
    BY <1>2, <1>3, <1>4, <2>2 DEF Hosts
  <2> QED
    BY <2>1, <2>2
<1>5. ASSUME NEW k, NEW p, p \in Ntp PROVE <<k, p>> \in more <=> k \in DOMAIN inst /\ inst[k].plugin = p
  <2>1. p # r.plugin
    BY <1>5, WorkspaceAssumption
  <2> QED
    BY <1>3, <1>5, <2>1 DEF Hosts
<1>6. ASSUME NEW k \in DOMAIN now PROVE {"plugin", "bridged"} \subseteq DOMAIN now[k] /\ now[k].plugin \in External
  <2>1. CASE k = id
    BY <1>2, <2>1
  <2>2. CASE k # id
    BY <1>2, <2>2 DEF Hosts
  <2> QED
    BY <2>1, <2>2
<1>7. Hosts(more, inst, now)
  BY <1>4, <1>5, <1>6 DEF Hosts
<1> QED
  BY <1>1, <1>7

\* Where the nodes of plugins are the same, so are their plugins.
LEMMA HostsSame ==
    ASSUME NEW set, NEW inst, NEW ext, Hosts(set, inst, ext), NEW now,
           \A id, p : p \in Plugins => (<<id, p>> \in now <=> <<id, p>> \in set)
    PROVE  Hosts(now, inst, ext)
BY DEF Hosts, Plugins

\* A node goes with what it hosts.
LEMMA HostsRemoved ==
    ASSUME NEW set, NEW inst, NEW ext, Hosts(set, inst, ext), NEW id
    PROVE  Hosts({x \in set : x[1] # id}, Restrict(inst, DOMAIN inst \ {id}), Restrict(ext, DOMAIN ext \ {id}))
<1>1. PICK left, i, e : /\ left = {x \in set : x[1] # id} /\ i = Restrict(inst, DOMAIN inst \ {id})
                        /\ e = Restrict(ext, DOMAIN ext \ {id})
  OBVIOUS
<1>2. DOMAIN i = DOMAIN inst \ {id} /\ \A k \in DOMAIN i : i[k] = inst[k]
  BY <1>1 DEF Restrict
<1>3. DOMAIN e = DOMAIN ext \ {id} /\ \A k \in DOMAIN e : e[k] = ext[k]
  BY <1>1 DEF Restrict
<1>4. \A k, p : <<k, p>> \in left <=> <<k, p>> \in set /\ k # id
  BY <1>1
<1>5. Hosts(left, i, e)
  BY <1>2, <1>3, <1>4 DEF Hosts
<1> QED
  BY <1>1, <1>5

\* What a plugin is given does not change which it is.
LEMMA HostsGiven ==
    ASSUME NEW set, NEW inst, NEW ext, Hosts(set, inst, ext), NEW id \in DOMAIN inst, NEW now,
           DOMAIN now = DOMAIN inst, \A k \in DOMAIN inst : k # id => now[k] = inst[k],
           "plugin" \in DOMAIN now[id], now[id].plugin = inst[id].plugin
    PROVE  Hosts(set, now, ext)
<1>1. \A k \in DOMAIN inst : "plugin" \in DOMAIN now[k] /\ now[k].plugin = inst[k].plugin
  BY DEF Hosts
<1> QED
  BY <1>1 DEF Hosts

\* Nor does what an external plugin is given.
LEMMA HostsGivenTo ==
    ASSUME NEW set, NEW inst, NEW ext, Hosts(set, inst, ext), NEW id \in DOMAIN ext, NEW now,
           DOMAIN now = DOMAIN ext, \A k \in DOMAIN ext : k # id => now[k] = ext[k],
           {"plugin", "bridged"} \subseteq DOMAIN now[id], now[id].plugin = ext[id].plugin
    PROVE  Hosts(set, inst, now)
<1>1. \A k \in DOMAIN ext : {"plugin", "bridged"} \subseteq DOMAIN now[k] /\ now[k].plugin = ext[k].plugin
  <2> SUFFICES ASSUME NEW k \in DOMAIN ext PROVE {"plugin", "bridged"} \subseteq DOMAIN now[k] /\ now[k].plugin = ext[k].plugin
    OBVIOUS
  <2>1. CASE k = id
    BY <2>1
  <2>2. CASE k # id
    BY <2>2 DEF Hosts
  <2> QED
    BY <2>1, <2>2
<1>2. \A k \in DOMAIN now : {"plugin", "bridged"} \subseteq DOMAIN now[k] /\ now[k].plugin \in External
  BY <1>1 DEF Hosts
<1> QED
  BY <1>1, <1>2 DEF Hosts

\* There are no more plugins than nodes.
LEMMA HostsFinite ==
    ASSUME NEW ns, AreNodes(ns), NEW inst, NEW ext, Hosts(Shapes(ns), inst, ext)
    PROVE  IsFiniteSet(DOMAIN inst) /\ IsFiniteSet(DOMAIN ext)
<1>1. PICK ids : ids = {ns[i].id : i \in DOMAIN ns}
  OBVIOUS
<1>2. IsFiniteSet(ids)
  BY <1>1, DistinctCount DEF AreNodes
<1>3. \A id, p : <<id, p>> \in Shapes(ns) => id \in ids
  <2> SUFFICES ASSUME NEW id, NEW p, <<id, p>> \in Shapes(ns) PROVE id \in ids
    OBVIOUS
  <2>1. PICK i \in DOMAIN ns : <<id, p>> = <<ns[i].id, ns[i].plugin>>
    BY ShapesFacts DEF AreNodes
  <2> QED
    BY <1>1, <2>1
<1>4. DOMAIN inst \subseteq ids /\ DOMAIN ext \subseteq ids
  BY <1>3 DEF Hosts
<1> QED
  BY <1>2, <1>4, FS_Subset

\* A field that is set leaves the others.
LEMMA FieldSet ==
    ASSUME NEW r, "plugin" \in DOMAIN r, NEW field, field # "plugin", NEW value, NEW now, now = [r EXCEPT ![field] = value]
    PROVE  DOMAIN now = DOMAIN r /\ now.plugin = r.plugin
OBVIOUS

----------------------------------------------------------------------------
(* Loading.                                                                *)

IsLoad(s) ==
    \E ns, cs, dorm, inst, ext, pend :
        s = [nodes |-> ns, cables |-> cs, dormant |-> dorm, instance |-> inst, external |-> ext, pending |-> pend]
IsDormant(d) == \E a, b : IsList(a) /\ IsList(b) /\ d = [instruments |-> a, cables |-> b]
IsPending(d) == \E a, b : IsList(a) /\ IsList(b) /\ d = [samples |-> a, states |-> b]
LoadOK(s) ==
    /\ IsLoad(s) /\ GraphOK(s.nodes, s.cables) /\ Hosts(Shapes(s.nodes), s.instance, s.external)
    /\ IsDormant(s.dormant) /\ IsPending(s.pending)

\* What is loaded, with other nodes.
LEMMA LoadNodes ==
    ASSUME NEW s, IsLoad(s), NEW x, NEW now, now = [s EXCEPT !.nodes = x]
    PROVE  /\ IsLoad(now) /\ now.nodes = x /\ now.cables = s.cables /\ now.dormant = s.dormant
           /\ now.instance = s.instance /\ now.external = s.external /\ now.pending = s.pending
<1>1. PICK a, b, c, d, e, f : s = [nodes |-> a, cables |-> b, dormant |-> c, instance |-> d, external |-> e, pending |-> f]
  BY DEF IsLoad
<1>2. now = [nodes |-> x, cables |-> b, dormant |-> c, instance |-> d, external |-> e, pending |-> f]
  BY <1>1
<1>3. IsLoad(now)
  BY <1>2, Zenon DEF IsLoad
<1> QED
  BY <1>1, <1>2, <1>3

\* What is loaded, with other cables.
LEMMA LoadCables ==
    ASSUME NEW s, IsLoad(s), NEW x, NEW now, now = [s EXCEPT !.cables = x]
    PROVE  /\ IsLoad(now) /\ now.cables = x /\ now.nodes = s.nodes /\ now.dormant = s.dormant
           /\ now.instance = s.instance /\ now.external = s.external /\ now.pending = s.pending
<1>1. PICK a, b, c, d, e, f : s = [nodes |-> a, cables |-> b, dormant |-> c, instance |-> d, external |-> e, pending |-> f]
  BY DEF IsLoad
<1>2. now = [nodes |-> a, cables |-> x, dormant |-> c, instance |-> d, external |-> e, pending |-> f]
  BY <1>1
<1>3. IsLoad(now)
  BY <1>2, Zenon DEF IsLoad
<1> QED
  BY <1>1, <1>2, <1>3

\* What is loaded, with other dormant things.
LEMMA LoadDormant ==
    ASSUME NEW s, IsLoad(s), NEW x, NEW now, now = [s EXCEPT !.dormant = x]
    PROVE  /\ IsLoad(now) /\ now.dormant = x /\ now.nodes = s.nodes /\ now.cables = s.cables
           /\ now.instance = s.instance /\ now.external = s.external /\ now.pending = s.pending
<1>1. PICK a, b, c, d, e, f : s = [nodes |-> a, cables |-> b, dormant |-> c, instance |-> d, external |-> e, pending |-> f]
  BY DEF IsLoad
<1>2. now = [nodes |-> a, cables |-> b, dormant |-> x, instance |-> d, external |-> e, pending |-> f]
  BY <1>1
<1>3. IsLoad(now)
  BY <1>2, Zenon DEF IsLoad
<1> QED
  BY <1>1, <1>2, <1>3

\* What is loaded, with other native instances.
LEMMA LoadInstance ==
    ASSUME NEW s, IsLoad(s), NEW x, NEW now, now = [s EXCEPT !.instance = x]
    PROVE  /\ IsLoad(now) /\ now.instance = x /\ now.nodes = s.nodes /\ now.cables = s.cables
           /\ now.dormant = s.dormant /\ now.external = s.external /\ now.pending = s.pending
<1>1. PICK a, b, c, d, e, f : s = [nodes |-> a, cables |-> b, dormant |-> c, instance |-> d, external |-> e, pending |-> f]
  BY DEF IsLoad
<1>2. now = [nodes |-> a, cables |-> b, dormant |-> c, instance |-> x, external |-> e, pending |-> f]
  BY <1>1
<1>3. IsLoad(now)
  BY <1>2, Zenon DEF IsLoad
<1> QED
  BY <1>1, <1>2, <1>3

\* What is loaded, with other external plugins.
LEMMA LoadExternal ==
    ASSUME NEW s, IsLoad(s), NEW x, NEW now, now = [s EXCEPT !.external = x]
    PROVE  /\ IsLoad(now) /\ now.external = x /\ now.nodes = s.nodes /\ now.cables = s.cables
           /\ now.dormant = s.dormant /\ now.instance = s.instance /\ now.pending = s.pending
<1>1. PICK a, b, c, d, e, f : s = [nodes |-> a, cables |-> b, dormant |-> c, instance |-> d, external |-> e, pending |-> f]
  BY DEF IsLoad
<1>2. now = [nodes |-> a, cables |-> b, dormant |-> c, instance |-> d, external |-> x, pending |-> f]
  BY <1>1
<1>3. IsLoad(now)
  BY <1>2, Zenon DEF IsLoad
<1> QED
  BY <1>1, <1>2, <1>3

\* What is loaded, with other pending records.
LEMMA LoadPending ==
    ASSUME NEW s, IsLoad(s), NEW x, NEW now, now = [s EXCEPT !.pending = x]
    PROVE  /\ IsLoad(now) /\ now.pending = x /\ now.nodes = s.nodes /\ now.cables = s.cables
           /\ now.dormant = s.dormant /\ now.instance = s.instance /\ now.external = s.external
<1>1. PICK a, b, c, d, e, f : s = [nodes |-> a, cables |-> b, dormant |-> c, instance |-> d, external |-> e, pending |-> f]
  BY DEF IsLoad
<1>2. now = [nodes |-> a, cables |-> b, dormant |-> c, instance |-> d, external |-> e, pending |-> x]
  BY <1>1
<1>3. IsLoad(now)
  BY <1>2, Zenon DEF IsLoad
<1> QED
  BY <1>1, <1>2, <1>3

\* One more thing is dormant, or pending.
LEMMA DormantGrows ==
    ASSUME NEW d, IsDormant(d), NEW x
    PROVE  /\ IsDormant([d EXCEPT !.instruments = Append(d.instruments, x)])
           /\ IsDormant([d EXCEPT !.cables = Append(d.cables, x)])
<1>1. PICK a, b : IsList(a) /\ IsList(b) /\ d = [instruments |-> a, cables |-> b]
  BY DEF IsDormant
<1>2. d.instruments = a /\ d.cables = b
  BY <1>1
<1>3. PICK more, wider : more = Append(a, x) /\ wider = Append(b, x)
  OBVIOUS
<1>4. IsList(more) /\ IsList(wider)
  BY <1>1, <1>3, AppendFacts
<1>5. /\ [d EXCEPT !.instruments = more] = [instruments |-> more, cables |-> b]
      /\ [d EXCEPT !.cables = wider] = [instruments |-> a, cables |-> wider]
  BY <1>1
<1> QED
  BY <1>1, <1>2, <1>3, <1>4, <1>5, Zenon DEF IsDormant

\* What waits for its instance is kept, at the end of its list.
LEMMA PendingGrows ==
    ASSUME NEW d, IsPending(d), NEW x
    PROVE  /\ IsPending([d EXCEPT !.samples = Append(d.samples, x)])
           /\ IsPending([d EXCEPT !.states = Append(d.states, x)])
<1>1. PICK a, b : IsList(a) /\ IsList(b) /\ d = [samples |-> a, states |-> b]
  BY DEF IsPending
<1>2. d.samples = a /\ d.states = b
  BY <1>1
<1>3. PICK more, wider : more = Append(a, x) /\ wider = Append(b, x)
  OBVIOUS
<1>4. IsList(more) /\ IsList(wider)
  BY <1>1, <1>3, AppendFacts
<1>5. /\ [d EXCEPT !.samples = more] = [samples |-> more, states |-> b]
      /\ [d EXCEPT !.states = wider] = [samples |-> a, states |-> wider]
  BY <1>1
<1> QED
  BY <1>1, <1>2, <1>3, <1>4, <1>5, Zenon DEF IsPending

\* An instrument of a file dresses the node it names, makes a utility, or stays dormant.
LEMMA AdoptOne == ASSUME NEW s, LoadOK(s), NEW inst PROVE LoadOK(AdoptInstrument(s, inst))
<1>1. CASE HasNode(s.nodes, inst.id)
  <2>1. PICK ns : ns = [i \in DOMAIN s.nodes |-> WithStrip(s.nodes[i], inst.id, inst.strip)]
    OBVIOUS
  <2>2. PICK now : now = [s EXCEPT !.nodes = ns]
    OBVIOUS
  <2>3. AdoptInstrument(s, inst) = now
    BY <1>1, <2>1, <2>2, Zenon DEF AdoptInstrument
  <2>4. ns = [i \in DOMAIN s.nodes |-> ns[i]] /\ DOMAIN ns = DOMAIN s.nodes
    BY <2>1
  <2>5. ASSUME NEW i \in DOMAIN s.nodes PROVE IsNode(ns[i]) /\ ns[i].id = s.nodes[i].id /\ ns[i].plugin = s.nodes[i].plugin
    <3>1. IsNode(s.nodes[i])
      BY DEF LoadOK, GraphOK, AreNodes, Range
    <3>2. PICK id, plugin, strip : s.nodes[i] = [id |-> id, plugin |-> plugin, strip |-> strip]
      BY <3>1 DEF IsNode
    <3>3. PICK n : n = s.nodes[i]
      OBVIOUS
    <3>4. [n EXCEPT !.strip = inst.strip] = [id |-> id, plugin |-> plugin, strip |-> inst.strip]
      BY <3>2, <3>3
    <3>5. ns[i] = n \/ ns[i] = [id |-> id, plugin |-> plugin, strip |-> inst.strip]
      BY <2>1, <3>3, <3>4, Zenon DEF WithStrip
    <3>6. IsNode([id |-> id, plugin |-> plugin, strip |-> inst.strip])
      BY Zenon DEF IsNode
    <3>7. CASE ns[i] = n
      BY <3>1, <3>3, <3>7
    <3>8. CASE ns[i] = [id |-> id, plugin |-> plugin, strip |-> inst.strip]
      BY <3>2, <3>6, <3>8
    <3> QED
      BY <3>5, <3>7, <3>8
  <2>6. GraphOK(ns, s.cables) /\ Shapes(ns) = Shapes(s.nodes)
    BY <2>4, <2>5, NodesDressed DEF LoadOK
  <2>7. LoadOK(now)
    BY <2>2, <2>6, LoadNodes DEF LoadOK
  <2> QED
    BY <2>3, <2>7
<1>2. CASE ~HasNode(s.nodes, inst.id) /\ inst.plugin \in Utilities
  <2>1. PICK n : n = [Node(inst.id, inst.plugin) EXCEPT !.strip = inst.strip]
    OBVIOUS
  <2>2. n = [id |-> inst.id, plugin |-> inst.plugin, strip |-> inst.strip]
    BY <2>1 DEF Node
  <2>3. IsNode(n) /\ n.id = inst.id /\ n.plugin = inst.plugin
    BY <2>2 DEF IsNode
  <2>4. PICK ns : ns = Append(s.nodes, n)
    OBVIOUS
  <2>5. PICK now : now = [s EXCEPT !.nodes = ns]
    OBVIOUS
  <2>6. AdoptInstrument(s, inst) = now
    BY <1>2, <2>1, <2>4, <2>5, Zenon DEF AdoptInstrument
  <2>7. GraphOK(ns, s.cables) /\ Shapes(ns) = Shapes(s.nodes) \cup {<<inst.id, inst.plugin>>}
    BY <1>2, <2>3, <2>4, NodeAdded DEF LoadOK
  <2>8. inst.plugin \notin Plugins
    BY <1>2, WorkspaceAssumption
  <2>9. \A id, p : p \in Plugins => (<<id, p>> \in Shapes(ns) <=> <<id, p>> \in Shapes(s.nodes))
    BY <2>7, <2>8
  <2>10. Hosts(Shapes(ns), s.instance, s.external)
    BY <2>9, HostsSame DEF LoadOK
  <2>11. LoadOK(now)
    BY <2>5, <2>7, <2>10, LoadNodes DEF LoadOK
  <2> QED
    BY <2>6, <2>11
<1>3. CASE ~HasNode(s.nodes, inst.id) /\ inst.plugin \notin Utilities
  <2>1. PICK dorm : dorm = [s.dormant EXCEPT !.instruments = Append(s.dormant.instruments, inst)]
    OBVIOUS
  <2>2. PICK now : now = [s EXCEPT !.dormant = dorm]
    OBVIOUS
  <2>3. AdoptInstrument(s, inst) = now
    BY <1>3, <2>1, <2>2, Zenon DEF AdoptInstrument
  <2>4. IsDormant(dorm)
    BY <2>1, DormantGrows, Zenon DEF LoadOK
  <2>5. LoadOK(now)
    BY <2>2, <2>4, LoadDormant DEF LoadOK
  <2> QED
    BY <2>3, <2>5
<1> QED
  BY <1>1, <1>2, <1>3

\* A cable of a file is connected, stays dormant, or is dropped.
LEMMA AdoptCableOne == ASSUME NEW s, LoadOK(s), NEW c PROVE LoadOK(AdoptCable(s, c))
<1>1. PICK src, dst : AdoptCable(s, c) = Attach(s, c, src, dst)
  BY DEF AdoptCable
<1>2. CASE "dormant" \in {src.state, dst.state}
  <2>1. PICK dorm : dorm = [s.dormant EXCEPT !.cables = Append(s.dormant.cables, c)]
    OBVIOUS
  <2>2. PICK now : now = [s EXCEPT !.dormant = dorm]
    OBVIOUS
  <2>3. Attach(s, c, src, dst) = now
    BY <1>2, <2>1, <2>2, Zenon DEF Attach
  <2>4. IsDormant(dorm)
    BY <2>1, DormantGrows, Zenon DEF LoadOK
  <2>5. LoadOK(now)
    BY <2>2, <2>4, LoadDormant DEF LoadOK
  <2> QED
    BY <1>1, <2>3, <2>5
<1>3. CASE src.state = "ok" /\ dst.state = "ok"
  <2>1. PICK new : new = Cable(c.id, src.end, dst.end, c.mode)
    OBVIOUS
  <2>2. IsCable(new)
    BY <2>1, Zenon DEF Cable, IsCable
  <2>3. PICK cs : cs = Connect(s.nodes, s.cables, new)
    OBVIOUS
  <2>4. GraphOK(s.nodes, cs)
    BY <2>2, <2>3, CableAdded DEF LoadOK
  <2>5. PICK now : now = [s EXCEPT !.cables = cs]
    OBVIOUS
  <2>6. "dormant" \notin {src.state, dst.state}
    BY <1>3
  <2>7. Attach(s, c, src, dst) = now
    BY <1>3, <2>1, <2>3, <2>5, <2>6, Zenon DEF Attach
  <2>8. LoadOK(now)
    BY <2>4, <2>5, LoadCables DEF LoadOK
  <2> QED
    BY <1>1, <2>7, <2>8
<1>4. CASE "dormant" \notin {src.state, dst.state} /\ ~(src.state = "ok" /\ dst.state = "ok")
  <2>1. Attach(s, c, src, dst) = s
    BY <1>4, Zenon DEF Attach
  <2> QED
    BY <1>1, <2>1
<1> QED
  BY <1>2, <1>3, <1>4

\* A dormant instrument wakes, where its plugin is known and its id is free.
LEMMA WakeOne ==
    ASSUME NEW s, LoadOK(s), NEW inst, NEW known, known \subseteq Ntp PROVE LoadOK(WakeInstrument(known, s, inst))
<1>1. CASE inst.plugin \in known /\ ~HasNode(s.nodes, inst.id)
  <2>1. PICK n, r : /\ n = [Node(inst.id, inst.plugin) EXCEPT !.strip = inst.strip]
                    /\ r = [Fresh(inst.plugin) EXCEPT !.param = inst.param]
    OBVIOUS
  <2>2. n = [id |-> inst.id, plugin |-> inst.plugin, strip |-> inst.strip]
    BY <2>1 DEF Node
  <2>3. IsNode(n) /\ n.id = inst.id /\ n.plugin = inst.plugin
    BY <2>2 DEF IsNode
  <2>4. "plugin" \in DOMAIN r /\ r.plugin = inst.plugin
    BY <2>1 DEF Fresh
  <2>5. PICK ns, all : ns = Append(s.nodes, n) /\ all = Assigned(s.instance, inst.id, r)
    OBVIOUS
  <2>6. PICK mid : mid = [s EXCEPT !.nodes = ns]
    OBVIOUS
  <2>7. PICK now : now = [mid EXCEPT !.instance = all]
    OBVIOUS
  <2>8. IsLoad(mid) /\ mid.nodes = ns /\ mid.cables = s.cables /\ mid.dormant = s.dormant /\ mid.instance = s.instance
        /\ mid.external = s.external /\ mid.pending = s.pending
    BY <2>6, LoadNodes DEF LoadOK
  <2>9. WakeInstrument(known, s, inst) = now
    <3>1. WakeInstrument(known, s, inst)
            = [[s EXCEPT !.nodes = Append(s.nodes, n)] EXCEPT !.instance = Assigned(mid.instance, inst.id, r)]
      BY <1>1, <2>1, <2>5, <2>6, Zenon DEF WakeInstrument
    <3> QED
      BY <2>5, <2>6, <2>7, <2>8, <3>1, Zenon
  <2>10. GraphOK(ns, s.cables) /\ Shapes(ns) = Shapes(s.nodes) \cup {<<inst.id, inst.plugin>>}
    BY <1>1, <2>3, <2>5, NodeAdded DEF LoadOK
  <2>11. \A p : <<inst.id, p>> \notin Shapes(s.nodes)
    <3>1. IsList(s.nodes)
      BY DEF LoadOK, GraphOK, AreNodes
    <3> QED
      BY <1>1, <3>1, ShapesFacts, Zenon
  <2>12. Hosts(Shapes(ns), all, s.external)
    <3>1. Hosts(Shapes(s.nodes) \cup {<<inst.id, r.plugin>>}, all, s.external)
      BY <1>1, <2>4, <2>5, <2>11, HostsInstance DEF LoadOK
    <3> QED
      BY <2>4, <2>10, <3>1
  <2>13. IsLoad(now) /\ now.instance = all /\ now.nodes = ns /\ now.cables = s.cables /\ now.dormant = s.dormant
         /\ now.external = s.external /\ now.pending = s.pending
    BY <2>7, <2>8, LoadInstance
  <2>14. LoadOK(now)
    BY <2>10, <2>12, <2>13 DEF LoadOK
  <2> QED
    BY <2>9, <2>14
<1>2. CASE ~(inst.plugin \in known /\ ~HasNode(s.nodes, inst.id))
  <2>1. PICK dorm : dorm = [s.dormant EXCEPT !.instruments = Append(s.dormant.instruments, inst)]
    OBVIOUS
  <2>2. PICK now : now = [s EXCEPT !.dormant = dorm]
    OBVIOUS
  <2>3. WakeInstrument(known, s, inst) = now
    BY <1>2, <2>1, <2>2, Zenon DEF WakeInstrument
  <2>4. IsDormant(dorm)
    BY <2>1, DormantGrows, Zenon DEF LoadOK
  <2>5. LoadOK(now)
    BY <2>2, <2>4, LoadDormant DEF LoadOK
  <2> QED
    BY <2>3, <2>5
<1> QED
  BY <1>1, <1>2

\* What an instance is given does not change which plugin it is of.
LEMMA GivenOne ==
    ASSUME NEW s, LoadOK(s), NEW id \in DOMAIN s.instance, NEW r, "plugin" \in DOMAIN r, r.plugin = s.instance[id].plugin
    PROVE  LoadOK([s EXCEPT !.instance = [s.instance EXCEPT ![id] = r]])
<1>0. PICK all, now : all = [s.instance EXCEPT ![id] = r] /\ now = [s EXCEPT !.instance = all]
  OBVIOUS
<1>1. DOMAIN all = DOMAIN s.instance /\ all[id] = r /\ \A k \in DOMAIN s.instance : k # id => all[k] = s.instance[k]
  BY <1>0
<1>2. Hosts(Shapes(s.nodes), all, s.external)
  BY <1>1, HostsGiven DEF LoadOK
<1>3. LoadOK(now)
  BY <1>0, <1>2, LoadInstance DEF LoadOK
<1> QED
  BY <1>0, <1>3

\* A sample, or an envelope and a stage, goes to its instance or is kept for it.
LEMMA GiveSampleOne == ASSUME NEW s, LoadOK(s), NEW r PROVE LoadOK(GiveSample(s, r))
<1>1. CASE r.id \in DOMAIN s.instance
  <2>1. PICK was : was = s.instance[r.id]
    OBVIOUS
  <2>2. PICK is : is = [was EXCEPT !.sample = r.sample]
    OBVIOUS
  <2>3. "plugin" \in DOMAIN was
    BY <1>1, <2>1 DEF LoadOK, Hosts
  <2>4. "plugin" \in DOMAIN is /\ is.plugin = was.plugin
    BY <2>2, <2>3
  <2>5. PICK all, now : all = [s.instance EXCEPT ![r.id] = is] /\ now = [s EXCEPT !.instance = all]
    OBVIOUS
  <2>6. GiveSample(s, r) = now
    BY <1>1, <2>1, <2>2, <2>5, Zenon DEF GiveSample
  <2>7. is.plugin = s.instance[r.id].plugin
    BY <2>1, <2>4
  <2>8. LoadOK(now)
    BY <1>1, <2>4, <2>5, <2>7, GivenOne, Zenon
  <2> QED
    BY <2>6, <2>8
<1>2. CASE r.id \notin DOMAIN s.instance
  <2>1. PICK kept, now : kept = [s.pending EXCEPT !.samples = Append(s.pending.samples, r)] /\ now = [s EXCEPT !.pending = kept]
    OBVIOUS
  <2>2. GiveSample(s, r) = now
    BY <1>2, <2>1, Zenon DEF GiveSample
  <2>3. IsPending(kept)
    BY <2>1, PendingGrows, Zenon DEF LoadOK
  <2>4. LoadOK(now)
    <3>1. IsLoad(s) /\ now = [s EXCEPT !.pending = kept]
      BY <2>1, Zenon DEF LoadOK
    <3>2. /\ IsLoad(now) /\ now.pending = kept /\ now.nodes = s.nodes /\ now.cables = s.cables /\ now.dormant = s.dormant
          /\ now.instance = s.instance /\ now.external = s.external
      BY <3>1, LoadPending
    <3> QED
      BY <2>3, <3>2, Zenon DEF LoadOK
  <2> QED
    BY <2>2, <2>4
<1> QED
  BY <1>1, <1>2

\* A state of the file goes to its instance, or waits for it.
LEMMA GiveStateOne == ASSUME NEW s, LoadOK(s), NEW r PROVE LoadOK(GiveState(s, r))
<1>1. CASE r.id \in DOMAIN s.instance
  <2>1. PICK was : was = s.instance[r.id]
    OBVIOUS
  <2>2. PICK mid, is : mid = [was EXCEPT !.env = r.env] /\ is = [mid EXCEPT !.chunk = r.chunk]
    OBVIOUS
  <2>3. "plugin" \in DOMAIN was
    BY <1>1, <2>1 DEF LoadOK, Hosts
  <2>4. "plugin" \in DOMAIN is /\ is.plugin = was.plugin
    <3>1. "plugin" \in DOMAIN mid /\ mid.plugin = was.plugin
      BY <2>2, <2>3
    <3> QED
      BY <2>2, <3>1
  <2>5. PICK one, first : one = [s.instance EXCEPT ![r.id] = mid] /\ first = [s EXCEPT !.instance = one]
    OBVIOUS
  <2>6. LoadOK(first) /\ first.instance = one
    <3>1. "plugin" \in DOMAIN mid /\ mid.plugin = was.plugin
      BY <2>2, <2>3
    <3>2. LoadOK(first)
      BY <1>1, <2>1, <2>5, <3>1, GivenOne, Zenon
    <3> QED
      BY <2>5, <3>2, LoadInstance DEF LoadOK
  <2>7. one[r.id] = mid /\ r.id \in DOMAIN one
    BY <1>1, <2>5
  <2>8. PICK all, now : all = [one EXCEPT ![r.id] = is] /\ now = [first EXCEPT !.instance = all]
    OBVIOUS
  <2>9. GiveState(s, r) = now
    <3>1. GiveState(s, r) = [first EXCEPT !.instance[r.id].chunk = r.chunk]
      BY <1>1, <2>1, <2>2, <2>5, Zenon DEF GiveState
    <3> QED
      BY <2>2, <2>6, <2>7, <2>8, <3>1, Zenon
  <2>10. mid.plugin = was.plugin
    BY <2>2, <2>3
  <2>11. r.id \in DOMAIN first.instance /\ is.plugin = first.instance[r.id].plugin
    BY <2>4, <2>6, <2>7, <2>10
  <2>12. LoadOK([first EXCEPT !.instance = [first.instance EXCEPT ![r.id] = is]])
    BY <2>4, <2>6, <2>11, GivenOne
  <2>13. now = [first EXCEPT !.instance = [first.instance EXCEPT ![r.id] = is]]
    BY <2>6, <2>8, Zenon
  <2> QED
    BY <2>9, <2>12, <2>13, Zenon
<1>2. CASE r.id \notin DOMAIN s.instance
  <2>1. PICK kept, now : kept = [s.pending EXCEPT !.states = Append(s.pending.states, r)] /\ now = [s EXCEPT !.pending = kept]
    OBVIOUS
  <2>2. GiveState(s, r) = now
    BY <1>2, <2>1, Zenon DEF GiveState
  <2>3. IsPending(kept)
    BY <2>1, PendingGrows, Zenon DEF LoadOK
  <2>4. LoadOK(now)
    <3>1. IsLoad(s) /\ now = [s EXCEPT !.pending = kept]
      BY <2>1, Zenon DEF LoadOK
    <3>2. /\ IsLoad(now) /\ now.pending = kept /\ now.nodes = s.nodes /\ now.cables = s.cables /\ now.dormant = s.dormant
          /\ now.instance = s.instance /\ now.external = s.external
      BY <3>1, LoadPending
    <3> QED
      BY <2>3, <3>2, Zenon DEF LoadOK
  <2> QED
    BY <2>2, <2>4
<1> QED
  BY <1>1, <1>2

\* An external plugin is added under an id that is free.
LEMMA AddAsOne ==
    ASSUME NEW s, LoadOK(s), NEW prefix, NEW x, {"plugin", "bridged"} \subseteq DOMAIN x, x.plugin \in External, NEW spawned
    PROVE  LoadOK(AddAs(s, NextNode(s.nodes, prefix), x, spawned))
<1>1. PICK id : id = NextNode(s.nodes, prefix)
  OBVIOUS
<1>2. IsList(s.nodes)
  BY DEF LoadOK, GraphOK, AreNodes
<1>3. ~HasNode(s.nodes, id)
  BY <1>1, <1>2, NextIsFree
<1>4. PICK n, r : n = Node(id, x.plugin) /\ r = [x EXCEPT !.bridged = x.bridged /\ spawned]
  OBVIOUS
<1>5. IsNode(n) /\ n.id = id /\ n.plugin = x.plugin
  BY <1>4 DEF Node, IsNode
<1>6. {"plugin", "bridged"} \subseteq DOMAIN r /\ r.plugin = x.plugin
  <2>1. PICK v : v = (x.bridged /\ spawned)
    OBVIOUS
  <2>2. r = [x EXCEPT !.bridged = v]
    BY <1>4, <2>1, Zenon
  <2> QED
    BY <2>2
<1>7. PICK ns, all : ns = Append(s.nodes, n) /\ all = Assigned(s.external, id, r)
  OBVIOUS
<1>8. PICK mid : mid = [s EXCEPT !.nodes = ns]
  OBVIOUS
<1>9. PICK now : now = [mid EXCEPT !.external = all]
  OBVIOUS
<1>10. /\ IsLoad(mid) /\ mid.nodes = ns /\ mid.cables = s.cables /\ mid.dormant = s.dormant /\ mid.instance = s.instance
       /\ mid.external = s.external /\ mid.pending = s.pending
  BY <1>8, LoadNodes DEF LoadOK
<1>11. AddAs(s, id, x, spawned) = now
  <2>1. AddAs(s, id, x, spawned)
          = [[s EXCEPT !.nodes = Append(s.nodes, n)] EXCEPT !.external = Assigned(mid.external, id, r)]
    BY <1>4, <1>7, <1>8, Zenon DEF AddAs
  <2> QED
    BY <1>7, <1>8, <1>9, <1>10, <2>1, Zenon
<1>12. GraphOK(ns, s.cables) /\ Shapes(ns) = Shapes(s.nodes) \cup {<<id, x.plugin>>}
  BY <1>3, <1>5, <1>7, NodeAdded DEF LoadOK
<1>13. \A p : <<id, p>> \notin Shapes(s.nodes)
  BY <1>2, <1>3, ShapesFacts, Zenon
<1>14. Hosts(Shapes(ns), s.instance, all)
  <2>1. Hosts(Shapes(s.nodes) \cup {<<id, r.plugin>>}, s.instance, all)
    BY <1>6, <1>7, <1>13, HostsExternal DEF LoadOK
  <2> QED
    BY <1>6, <1>12, <2>1
<1>15. /\ IsLoad(now) /\ now.external = all /\ now.nodes = ns /\ now.cables = s.cables /\ now.dormant = s.dormant
       /\ now.instance = s.instance /\ now.pending = s.pending
  BY <1>9, <1>10, LoadExternal
<1>16. LoadOK(now)
  BY <1>12, <1>14, <1>15 DEF LoadOK
<1> QED
  BY <1>1, <1>11, <1>16

\* What one record, instrument, cable or plugin leaves sound, they all do.
LoadHolds(ctx, done, s) == LoadOK(s)
AdoptStep(ctx, s, x) == AdoptInstrument(s, x)
CableStep(ctx, s, x) == AdoptCable(s, x)
WakeStep(ctx, s, x) == WakeInstrument(ctx, s, x)
SampleStep(ctx, s, x) == GiveSample(s, x)
StateStep(ctx, s, x) == GiveState(s, x)
ReopenStep(ctx, s, x) == AddAs(s, NextNode(s.nodes, ExternalPrefix(x.plugin)), x, ctx)
Adopting == INSTANCE FoldLemmas WITH Step <- AdoptStep, Holds <- LoadHolds
Cabling == INSTANCE FoldLemmas WITH Step <- CableStep, Holds <- LoadHolds
Waking == INSTANCE FoldLemmas WITH Step <- WakeStep, Holds <- LoadHolds
Sampling == INSTANCE FoldLemmas WITH Step <- SampleStep, Holds <- LoadHolds
Stating == INSTANCE FoldLemmas WITH Step <- StateStep, Holds <- LoadHolds
Reopening == INSTANCE FoldLemmas WITH Step <- ReopenStep, Holds <- LoadHolds

\* All instruments of a file, adopted.
LEMMA AdoptAll == ASSUME NEW s, LoadOK(s), NEW list, IsList(list) PROVE LoadOK(FoldLeft(AdoptInstrument, s, list))
<1>1. list \in Seq(Range(list))
  BY DEF IsList
<1>2. LoadHolds(0, <<>>, s)
  BY Zenon DEF LoadHolds
<1>3. \A done \in Seq(Range(list)), x \in Range(list) : \A a :
        LoadHolds(0, done, a) => LoadHolds(0, Append(done, x), AdoptStep(0, a, x))
  BY AdoptOne, Zenon DEF LoadHolds, AdoptStep
<1>4. LoadHolds(0, list, Adopting!Fold(0, s, list))
  BY <1>1, <1>2, <1>3, Adopting!FoldHolds, Zenon
<1>5. FoldLeft(AdoptInstrument, s, list) = Adopting!Fold(0, s, list)
  BY ZenonT(60) DEF Adopting!Fold, AdoptStep, FoldLeft, MapThenFoldSet, Adopting!FoldLeft, Adopting!MapThenFoldSet,
     Max, Adopting!Max
<1> QED
  BY <1>4, <1>5, Zenon DEF LoadHolds

\* All its cables.
LEMMA AdoptCablesAll == ASSUME NEW s, LoadOK(s), NEW list, IsList(list) PROVE LoadOK(AdoptCables(s, list))
<1>1. list \in Seq(Range(list))
  BY DEF IsList
<1>2. LoadHolds(0, <<>>, s)
  BY Zenon DEF LoadHolds
<1>3. \A done \in Seq(Range(list)), x \in Range(list) : \A a :
        LoadHolds(0, done, a) => LoadHolds(0, Append(done, x), CableStep(0, a, x))
  BY AdoptCableOne, Zenon DEF LoadHolds, CableStep
<1>4. LoadHolds(0, list, Cabling!Fold(0, s, list))
  BY <1>1, <1>2, <1>3, Cabling!FoldHolds, Zenon
<1>5. AdoptCables(s, list) = Cabling!Fold(0, s, list)
  BY ZenonT(60) DEF AdoptCables, Cabling!Fold, CableStep, FoldLeft, MapThenFoldSet, Cabling!FoldLeft,
     Cabling!MapThenFoldSet, Max, Cabling!Max
<1> QED
  BY <1>4, <1>5, Zenon DEF LoadHolds

WakeEach(known, s, list) == FoldLeft(LAMBDA t, inst : WakeInstrument(known, t, inst), s, list)
\* All its dormant instruments, woken or put back.
LEMMA WakeAll ==
    ASSUME NEW s, LoadOK(s), NEW list, IsList(list), NEW known, known \subseteq Ntp
    PROVE  LoadOK(WakeEach(known, s, list))
<1>1. list \in Seq(Range(list))
  BY DEF IsList
<1>2. LoadHolds(known, <<>>, s)
  BY Zenon DEF LoadHolds
<1>3. \A done \in Seq(Range(list)), x \in Range(list) : \A a :
        LoadHolds(known, done, a) => LoadHolds(known, Append(done, x), WakeStep(known, a, x))
  BY WakeOne, Zenon DEF LoadHolds, WakeStep
<1>4. LoadHolds(known, list, Waking!Fold(known, s, list))
  BY <1>1, <1>2, <1>3, Waking!FoldHolds, Zenon
<1>5. WakeEach(known, s, list) = Waking!Fold(known, s, list)
  BY ZenonT(60) DEF WakeEach, Waking!Fold, WakeStep, FoldLeft, MapThenFoldSet, Waking!FoldLeft,
     Waking!MapThenFoldSet, Max, Waking!Max
<1> QED
  BY <1>4, <1>5, Zenon DEF LoadHolds

\* All its samples.
LEMMA SamplesAll == ASSUME NEW s, LoadOK(s), NEW list, IsList(list) PROVE LoadOK(FoldLeft(GiveSample, s, list))
<1>1. list \in Seq(Range(list))
  BY DEF IsList
<1>2. LoadHolds(0, <<>>, s)
  BY Zenon DEF LoadHolds
<1>3. \A done \in Seq(Range(list)), x \in Range(list) : \A a :
        LoadHolds(0, done, a) => LoadHolds(0, Append(done, x), SampleStep(0, a, x))
  BY GiveSampleOne, Zenon DEF LoadHolds, SampleStep
<1>4. LoadHolds(0, list, Sampling!Fold(0, s, list))
  BY <1>1, <1>2, <1>3, Sampling!FoldHolds, Zenon
<1>5. FoldLeft(GiveSample, s, list) = Sampling!Fold(0, s, list)
  BY ZenonT(60) DEF Sampling!Fold, SampleStep, FoldLeft, MapThenFoldSet, Sampling!FoldLeft, Sampling!MapThenFoldSet,
     Max, Sampling!Max
<1> QED
  BY <1>4, <1>5, Zenon DEF LoadHolds

\* All its states.
LEMMA StatesAll == ASSUME NEW s, LoadOK(s), NEW list, IsList(list) PROVE LoadOK(FoldLeft(GiveState, s, list))
<1>1. list \in Seq(Range(list))
  BY DEF IsList
<1>2. LoadHolds(0, <<>>, s)
  BY Zenon DEF LoadHolds
<1>3. \A done \in Seq(Range(list)), x \in Range(list) : \A a :
        LoadHolds(0, done, a) => LoadHolds(0, Append(done, x), StateStep(0, a, x))
  BY GiveStateOne, Zenon DEF LoadHolds, StateStep
<1>4. LoadHolds(0, list, Stating!Fold(0, s, list))
  BY <1>1, <1>2, <1>3, Stating!FoldHolds, Zenon
<1>5. FoldLeft(GiveState, s, list) = Stating!Fold(0, s, list)
  BY ZenonT(60) DEF Stating!Fold, StateStep, FoldLeft, MapThenFoldSet, Stating!FoldLeft, Stating!MapThenFoldSet,
     Max, Stating!Max
<1> QED
  BY <1>4, <1>5, Zenon DEF LoadHolds

\* All its external plugins whose library opens.
LEMMA ReopenAll ==
    ASSUME NEW s, LoadOK(s), NEW all, IsList(all), \A x \in Range(all) : {"plugin", "bridged"} \subseteq DOMAIN x,
           NEW libraries, libraries \subseteq External, NEW spawned
    PROVE  LoadOK(Reopened(s, all, libraries, spawned))
<1>1. PICK list : list = Within(all, {x \in Range(all) : x.plugin \in libraries})
  OBVIOUS
<1>2. IsList(list) /\ Range(list) = Range(all) \cap {x \in Range(all) : x.plugin \in libraries}
  BY <1>1, WithinFacts
<1>3. list \in Seq(Range(list)) /\ \A x \in Range(list) : {"plugin", "bridged"} \subseteq DOMAIN x /\ x.plugin \in External
  BY <1>2 DEF IsList
<1>4. LoadHolds(spawned, <<>>, s)
  BY Zenon DEF LoadHolds
<1>5. \A done \in Seq(Range(list)), x \in Range(list) : \A a :
        LoadHolds(spawned, done, a) => LoadHolds(spawned, Append(done, x), ReopenStep(spawned, a, x))
  BY <1>3, AddAsOne, Zenon DEF LoadHolds, ReopenStep
<1>6. LoadHolds(spawned, list, Reopening!Fold(spawned, s, list))
  BY <1>3, <1>4, <1>5, Reopening!FoldHolds, Zenon
<1>7. Reopened(s, all, libraries, spawned)
        = FoldLeft(LAMBDA t, x : AddAs(t, NextNode(t.nodes, ExternalPrefix(x.plugin)), x, spawned), s, list)
  BY <1>1, Zenon DEF Reopened
<1>8. FoldLeft(LAMBDA t, x : AddAs(t, NextNode(t.nodes, ExternalPrefix(x.plugin)), x, spawned), s, list)
        = Reopening!Fold(spawned, s, list)
  BY ZenonT(60) DEF Reopening!Fold, ReopenStep, FoldLeft, MapThenFoldSet, Reopening!FoldLeft,
     Reopening!MapThenFoldSet, Max, Reopening!Max
<1> QED
  BY <1>6, <1>7, <1>8, Zenon DEF LoadHolds

\* The built-in nodes are a graph, which hosts nothing.
LEMMA BlankOK == LoadOK(Blank) /\ GraphOK(Builtins, <<>>) /\ Hosts(Shapes(Builtins), <<>>, <<>>)
<1>1. PICK ns : ns = Builtins
  OBVIOUS
<1>2. /\ IsList(ns) /\ DOMAIN ns = 1..3
      /\ ns[1] = Node(Bus, "tracker-bus") /\ ns[2] = Node(Master, "master-in") /\ ns[3] = Node(Player, "module-player")
  <2>1. ns = <<Node(Bus, "tracker-bus"), Node(Master, "master-in"), Node(Player, "module-player")>>
    BY <1>1 DEF Builtins
  <2>2. ns \in Seq({Node(Bus, "tracker-bus"), Node(Master, "master-in"), Node(Player, "module-player")}) /\ Len(ns) = 3
    BY <2>1
  <2>3. IsList(ns) /\ DOMAIN ns = 1..Len(ns)
    BY <2>2, ListFacts, Zenon
  <2> QED
    BY <2>1, <2>2, <2>3
<1>3. /\ IsNode(ns[1]) /\ ns[1].id = Bus /\ ns[1].plugin = "tracker-bus"
      /\ IsNode(ns[2]) /\ ns[2].id = Master /\ ns[2].plugin = "master-in"
      /\ IsNode(ns[3]) /\ ns[3].id = Player /\ ns[3].plugin = "module-player"
  <2>1. ASSUME NEW id, NEW p, NEW n, n = Node(id, p) PROVE IsNode(n) /\ n.id = id /\ n.plugin = p
    BY <2>1 DEF Node, IsNode
  <2> QED
    BY <1>2, <2>1
<1>4. Bus # Master /\ Bus # Player /\ Master # Player
  BY DEF Bus, Master, Player
<1>5. AreNodes(ns)
  BY <1>2, <1>3, <1>4 DEF AreNodes, Distinct, Range
<1>6. IsList(<<>>) /\ Range(<<>>) = {} /\ Distinct(<<>>)
  BY DEF IsList, Range, Distinct
<1>7. GraphOK(ns, <<>>)
  BY <1>5, <1>6 DEF GraphOK, AreCables
<1>8. ASSUME NEW id, NEW p, p \in Plugins PROVE <<id, p>> \notin Shapes(ns)
  <2>1. p \notin {"tracker-bus", "master-in", "module-player"}
    BY <1>8, WorkspaceAssumption
  <2>2. SUFFICES ASSUME <<id, p>> \in Shapes(ns) PROVE FALSE
    OBVIOUS
  <2>3. PICK i \in DOMAIN ns : <<id, p>> = <<ns[i].id, ns[i].plugin>>
    BY <2>2, <1>2, ShapesFacts
  <2>4. p = ns[i].plugin /\ i \in {1, 2, 3}
    BY <1>2, <2>3
  <2> QED
    BY <1>3, <2>1, <2>4
<1>9. Hosts(Shapes(ns), <<>>, <<>>)
  BY <1>8 DEF Hosts, Plugins
<1>10. PICK s : s = Blank
  OBVIOUS
<1>11. s = [nodes |-> ns, cables |-> <<>>, dormant |-> NoDormant, instance |-> <<>>, external |-> <<>>, pending |-> NoPending]
  BY <1>1, <1>10, Zenon DEF Blank
<1>12. IsLoad(s)
  BY <1>11, Zenon DEF IsLoad
<1>13. IsDormant(NoDormant) /\ IsPending(NoPending)
  BY <1>6, Zenon DEF NoDormant, NoPending, IsDormant, IsPending
<1>14. LoadOK(s)
  BY <1>7, <1>9, <1>11, <1>12, <1>13 DEF LoadOK
<1> QED
  BY <1>1, <1>7, <1>9, <1>10, <1>14

\* Whatever a file holds, what is loaded of it is sound.
LEMMA LoadedOK ==
    ASSUME NEW f, IsFile(f), NEW known, known \subseteq Ntp, NEW libraries, libraries \subseteq External, NEW spawned
    PROVE  LoadOK(Loaded(f, known, libraries, spawned))
<1>1. /\ IsList(f.snapshot.instruments) /\ IsList(f.snapshot.cables) /\ IsList(f.samples) /\ IsList(f.states)
      /\ IsList(f.externals) /\ \A x \in Range(f.externals) : {"plugin", "bridged"} \subseteq DOMAIN x
  BY DEF IsFile
<1>2. PICK s : s = Adopted(Blank, f.snapshot)
  OBVIOUS
<1>3. LoadOK(s)
  BY <1>1, <1>2, BlankOK, AdoptAll, AdoptCablesAll, Zenon DEF Adopted
<1>4. PICK a, b : IsList(a) /\ IsList(b) /\ s.dormant = [instruments |-> a, cables |-> b]
  BY <1>3 DEF LoadOK, IsDormant
<1>5. IsList(<<>>)
  BY DEF IsList, Range
<1>6. PICK dorm, t : dorm = [s.dormant EXCEPT !.instruments = <<>>] /\ t = [s EXCEPT !.dormant = dorm]
  OBVIOUS
<1>7. LoadOK(t)
  <2>1. dorm = [instruments |-> <<>>, cables |-> b]
    BY <1>4, <1>6
  <2>2. IsDormant(dorm)
    BY <1>4, <1>5, <2>1, Zenon DEF IsDormant
  <2> QED
    BY <1>3, <1>6, <2>2, LoadDormant DEF LoadOK
<1>8. PICK u : u = Woken(s, known)
  OBVIOUS
<1>9. LoadOK(u)
  <2>1. u = WakeEach(known, t, s.dormant.instruments)
    BY <1>6, <1>8, Zenon DEF Woken, WakeEach
  <2>2. IsList(s.dormant.instruments)
    BY <1>4
  <2> QED
    BY <1>7, <2>1, <2>2, WakeAll, Zenon
<1>10. PICK c, d : IsList(c) /\ IsList(d) /\ u.dormant = [instruments |-> c, cables |-> d]
  BY <1>9 DEF LoadOK, IsDormant
<1>11. PICK less, v : less = [u.dormant EXCEPT !.cables = <<>>] /\ v = [u EXCEPT !.dormant = less]
  OBVIOUS
<1>12. LoadOK(v)
  <2>1. less = [instruments |-> c, cables |-> <<>>]
    BY <1>10, <1>11
  <2>2. IsDormant(less)
    BY <1>5, <1>10, <2>1, Zenon DEF IsDormant
  <2> QED
    BY <1>9, <1>11, <2>2, LoadDormant DEF LoadOK
<1>13. LoadOK(Retried(u))
  <2>1. Retried(u) = AdoptCables(v, u.dormant.cables)
    BY <1>11, Zenon DEF Retried
  <2>2. IsList(u.dormant.cables)
    BY <1>10
  <2> QED
    BY <1>12, <2>1, <2>2, AdoptCablesAll, Zenon
<1>14. PICK w : w = FoldLeft(GiveState, FoldLeft(GiveSample, Retried(u), f.samples), f.states)
  OBVIOUS
<1>15. LoadOK(w)
  BY <1>1, <1>13, <1>14, SamplesAll, StatesAll, Zenon
<1>16. Loaded(f, known, libraries, spawned) = Reopened(w, f.externals, libraries, spawned)
  BY <1>2, <1>8, <1>14, Zenon DEF Loaded
<1> QED
  BY <1>1, <1>15, <1>16, ReopenAll, Zenon

----------------------------------------------------------------------------
(* The workspace.                                                          *)

Rig == GraphOK(nodes, cables) /\ Hosts(Shapes(nodes), instance, external)
Held ==
    /\ IsDormant(dormant) /\ IsPending(pending) /\ (file = NoFile \/ IsFile(file))
    /\ registry \subseteq Ntp /\ installed \subseteq External
Told == history.depth = 0 /\ \E s : PatchShows(Graph, s) /\ Patch!HistoryOf(history, s)
WorkspaceInv == Rig /\ Held /\ Told /\ PublishedIsCurrent

\* The plugin of a slot is one that is there.
LEMMA BindingFacts ==
    ASSUME NEW entry, NEW inst, NEW ext, IsFiniteSet(DOMAIN inst)
    PROVE  BindingOf(entry, inst, ext) \in {NoNode} \cup DOMAIN inst \cup DOMAIN ext
<1>1. PICK some : some = {id \in DOMAIN inst : inst[id].plugin = entry.plugin}
  OBVIOUS
<1>2. IsFiniteSet(some)
  BY <1>1, FS_Subset
<1>3. some # {} => Head(Walk(some)) \in DOMAIN inst
  BY <1>1, <1>2, WalkFacts
<1>4. CASE entry.node \in DOMAIN inst \cup DOMAIN ext
  BY <1>4 DEF BindingOf
<1>5. CASE entry.node \notin DOMAIN inst \cup DOMAIN ext /\ some # {}
  <2>1. BindingOf(entry, inst, ext) = Head(Walk(some))
    BY <1>1, <1>5, Zenon DEF BindingOf
  <2> QED
    BY <1>3, <1>5, <2>1
<1>6. CASE entry.node \notin DOMAIN inst \cup DOMAIN ext /\ some = {}
  <2>1. BindingOf(entry, inst, ext) = NoNode
    BY <1>1, <1>6, Zenon DEF BindingOf
  <2> QED
    BY <2>1
<1> QED
  BY <1>4, <1>5, <1>6

\* What is published is the graph as the call leaves it.
LEMMA PublishedNow == ASSUME Rig', Publish PROVE PublishedIsCurrent'
<1>1. PICK ns, cs, inst, ext, entry, p :
        ns = nodes' /\ cs = cables' /\ inst = instance' /\ ext = external' /\ entry = slot' /\ p = published'
  OBVIOUS
<1>2. GraphOK(ns, cs) /\ Hosts(Shapes(ns), inst, ext)
  BY <1>1, Zenon DEF Rig
<1>3. IsFiniteSet(DOMAIN inst)
  BY <1>2, HostsFinite DEF GraphOK
<1>4. p = [nodes |-> Shape(ns), cables |-> cs, slot |-> BindingOf(entry, inst, ext)]
  BY <1>1, Zenon DEF Publish
<1>5. BindingOf(entry, inst, ext) \in {NoNode} \cup DOMAIN inst \cup DOMAIN ext
  BY <1>3, BindingFacts
<1>6. p.nodes = Shape(ns) /\ p.cables = cs /\ p.slot \in {NoNode} \cup DOMAIN inst \cup DOMAIN ext
  BY <1>4, <1>5
<1> QED
  BY <1>1, <1>6, Zenon DEF PublishedIsCurrent

\* A graph shows its own scene.
LEMMA GraphShown ==
    ASSUME NEW ns, NEW cs, NEW entry, GraphOK(ns, cs), NEW g, g = [nodes |-> ns, cables |-> cs, slot |-> entry]
    PROVE  \E s : PatchShows(g, s)
<1>1. PICK s : s = [nodes |-> Shapes(ns), cables |-> Range(cs), slot |-> entry]
  OBVIOUS
<1>2. IsGraph(g)
  BY Zenon DEF IsGraph
<1>3. PatchShows(g, s)
  BY <1>1, <1>2 DEF PatchShows
<1> QED
  BY <1>3

\* A history that was wiped leads to any graph.
LEMMA ToldAnew ==
    ASSUME Rig', NEW h, history' \in {Clear(h), Reset(h), NoHistory}
    PROVE  Told'
<1>1. PICK g : g = Graph'
  OBVIOUS
<1>2. g = [nodes |-> nodes', cables |-> cables', slot |-> slot']
  BY <1>1, Zenon DEF Graph
<1>3. GraphOK(nodes', cables')
  BY Zenon DEF Rig
<1>4. PICK s : PatchShows(g, s)
  BY <1>2, <1>3, GraphShown
<1>5. Patch!HistoryOf(history', s)
  BY HistoryAssumption, Patch!WipedIsHistory, PatchOperations
<1>6. history'.depth = 0
  BY DEF Clear, Reset, NoHistory
<1> QED
  BY <1>1, <1>4, <1>5, <1>6, Zenon DEF Told

\* A call that rebuilds the workspace forgets the history and publishes.
LEMMA Rebuilt ==
    ASSUME Rig', Held', NEW h, history' \in {Clear(h), Reset(h), NoHistory}, Publish
    PROVE  WorkspaceInv'
<1>1. Told'
  BY ToldAnew
<1>2. PublishedIsCurrent'
  BY PublishedNow
<1> QED
  BY <1>1, <1>2, Zenon DEF WorkspaceInv

\* A call that is about the plugins leaves the graph as it is.
LEMMA GraphStays ==
    ASSUME WorkspaceInv, Held', UNCHANGED <<nodes, cables, slot>>, history' \in {history, Clear(history)},
           Hosts(Shapes(nodes), instance', external'),
           UNCHANGED published \/ Publish, DOMAIN instance' = DOMAIN instance, DOMAIN external' = DOMAIN external
    PROVE  WorkspaceInv'
<1>1. Rig'
  BY Zenon DEF WorkspaceInv, Rig
<1>2. Told'
  <2>1. CASE history' = history
    <3>1. Graph' = Graph
      BY DEF Graph
    <3> QED
      BY <2>1, <3>1, Zenon DEF WorkspaceInv, Told
  <2>2. CASE history' = Clear(history)
    BY <1>1, <2>2, ToldAnew
  <2> QED
    BY <2>1, <2>2
<1>3. PublishedIsCurrent'
  <2>1. CASE UNCHANGED published
    BY <2>1 DEF WorkspaceInv, PublishedIsCurrent
  <2>2. CASE Publish
    BY <1>1, <2>2, PublishedNow
  <2> QED
    BY <2>1, <2>2
<1> QED
  BY <1>1, <1>2, <1>3, Zenon DEF WorkspaceInv

\* An edit that the history takes.
LEMMA EditKept ==
    ASSUME WorkspaceInv, NEW e, NEW after, after = Repeated(Graph, e), Undoable(after, e),
           \A s : PatchShows(Graph, s) => \E t : PatchLinks(e, s, t)
    PROVE  WorkspaceInv'
<1>1. PICK s : PatchShows(Graph, s) /\ Patch!HistoryOf(history, s) /\ history.depth = 0
  BY Zenon DEF WorkspaceInv, Told
<1>2. PICK t : PatchLinks(e, s, t)
  BY <1>1
<1>3. PatchShows(after, t)
  BY <1>1, <1>2, PatchForth, Zenon DEF Patch!ForthShows
<1>4. nodes' = after.nodes /\ cables' = after.cables /\ slot' = after.slot /\ history' = Push(history, e) /\ Publish
      /\ UNCHANGED <<dormant, instance, external, pending, registry, installed, file>>
  BY DEF Undoable, Elsewhere
<1>5. Patch!HistoryOf(Push(history, e), t) /\ Push(history, e).depth = history.depth
  BY <1>1, <1>2, HistoryAssumption, Patch!PushLeads, PatchOperations
<1>6. PatchShows(Graph', t)
  <2>1. PICK g, ns, cs, entry : g = Graph' /\ ns = nodes' /\ cs = cables' /\ entry = slot'
    OBVIOUS
  <2>2. g = [nodes |-> ns, cables |-> cs, slot |-> entry]
    BY <2>1, Zenon DEF Graph
  <2>3. ns = after.nodes /\ cs = after.cables /\ entry = after.slot
    BY <1>4, <2>1
  <2>4. IsGraph(g)
    BY <2>2, Zenon DEF IsGraph
  <2>5. PatchShows(g, t)
    BY <1>3, <2>2, <2>3, <2>4 DEF PatchShows
  <2> QED
    BY <2>1, <2>5
<1>7. Told'
  BY <1>1, <1>4, <1>5, <1>6, Zenon DEF Told
<1>8. Hosts(Shapes(nodes'), instance', external')
  <2>1. Shapes(nodes) = s.nodes
    <3>1. PICK g : g = Graph /\ g.nodes = nodes
      BY DEF Graph
    <3> QED
      BY <1>1, <3>1 DEF PatchShows
  <2>2. Shapes(nodes') = t.nodes
    BY <1>3, <1>4 DEF PatchShows
  <2>3. HostedIn(t) = HostedIn(s)
    BY <1>2, LinksKeepHosted
  <2>4. \A id, p : <<id, p>>[2] = p
    OBVIOUS
  <2>5. \A id, p : p \in Plugins => (<<id, p>> \in t.nodes <=> <<id, p>> \in s.nodes)
    BY <2>3, <2>4 DEF HostedIn
  <2>6. Hosts(t.nodes, instance, external)
    BY <2>1, <2>5, HostsSame DEF WorkspaceInv, Rig
  <2> QED
    BY <1>4, <2>2, <2>6
<1>9. Rig'
  BY <1>3, <1>4, <1>8, Zenon DEF Rig, PatchShows
<1>10. Held'
  BY <1>4 DEF WorkspaceInv, Held
<1> QED
  BY <1>4, <1>7, <1>9, <1>10, PublishedNow, Zenon DEF WorkspaceInv

\* Undoing and redoing edits of instrument entries alone leaves the graph.
EntryHolds(ctx, done, g) == IsGraph(g) /\ g.nodes = ctx.nodes /\ g.cables = ctx.cables
BackStep(ctx, g, e) == Restored(g, e)
ForthStep(ctx, g, e) == Repeated(g, e)
Unentering == INSTANCE FoldLemmas WITH Step <- BackStep, Holds <- EntryHolds
Entering == INSTANCE FoldLemmas WITH Step <- ForthStep, Holds <- EntryHolds
\* The nodes and the cables are left as they were.
LEMMA EntriesLeave ==
    ASSUME NEW g, IsGraph(g), NEW D, NEW list \in Seq(D), \A i \in DOMAIN list : list[i].op = "entry"
    PROVE  /\ FoldLeft(Restored, g, list).nodes = g.nodes /\ FoldLeft(Restored, g, list).cables = g.cables
           /\ FoldLeft(Repeated, g, list).nodes = g.nodes /\ FoldLeft(Repeated, g, list).cables = g.cables
<1>1. IsList(list) /\ Range(list) = {list[i] : i \in DOMAIN list}
  BY ListFacts
<1>2. list \in Seq(Range(list)) /\ \A e \in Range(list) : e.op = "entry"
  BY <1>1 DEF IsList
<1>3. EntryHolds(g, <<>>, g)
  BY DEF EntryHolds
<1>4. ASSUME NEW a, EntryHolds(g, <<>>, a), NEW e, e.op = "entry"
      PROVE  EntryHolds(g, <<>>, Restored(a, e)) /\ EntryHolds(g, <<>>, Repeated(a, e))
  <2>1. ASSUME NEW entry PROVE EntryHolds(g, <<>>, [a EXCEPT !.slot = entry])
    <3>1. PICK now : now = [a EXCEPT !.slot = entry]
      OBVIOUS
    <3>2. IsGraph(a) /\ a.nodes = g.nodes /\ a.cables = g.cables
      BY <1>4 DEF EntryHolds
    <3>3. IsGraph(now) /\ now.nodes = a.nodes /\ now.cables = a.cables /\ now.slot = entry
      BY <3>1, <3>2, OtherEntry
    <3> QED
      BY <3>1, <3>2, <3>3 DEF EntryHolds
  <2>2. Restored(a, e) = [a EXCEPT !.slot = e.before]
    BY <1>4 DEF Restored
  <2>3. Repeated(a, e) = [a EXCEPT !.slot = e.after]
    BY <1>4 DEF Repeated
  <2> QED
    BY <2>1, <2>2, <2>3, Zenon
<1>5. \A done, more, a : EntryHolds(g, done, a) = EntryHolds(g, more, a)
  BY DEF EntryHolds
<1>6. \A done \in Seq(Range(list)), x \in Range(list) : \A a :
        EntryHolds(g, done, a) => EntryHolds(g, Append(done, x), BackStep(g, a, x))
  BY <1>2, <1>4, <1>5, Zenon DEF BackStep
<1>7. \A done \in Seq(Range(list)), x \in Range(list) : \A a :
        EntryHolds(g, done, a) => EntryHolds(g, Append(done, x), ForthStep(g, a, x))
  BY <1>2, <1>4, <1>5, Zenon DEF ForthStep
<1>8. EntryHolds(g, list, Unentering!Fold(g, g, list))
  BY <1>2, <1>3, <1>6, Unentering!FoldHolds, Zenon
<1>9. EntryHolds(g, list, Entering!Fold(g, g, list))
  BY <1>2, <1>3, <1>7, Entering!FoldHolds, Zenon
<1>10. FoldLeft(Restored, g, list) = Unentering!Fold(g, g, list)
  BY ZenonT(60) DEF Unentering!Fold, BackStep, FoldLeft, MapThenFoldSet, Unentering!FoldLeft,
     Unentering!MapThenFoldSet,
                    Max, Unentering!Max
<1>11. FoldLeft(Repeated, g, list) = Entering!Fold(g, g, list)
  BY ZenonT(60) DEF Entering!Fold, ForthStep, FoldLeft, MapThenFoldSet, Entering!FoldLeft, Entering!MapThenFoldSet,
                    Max, Entering!Max
<1> QED
  BY <1>8, <1>9, <1>10, <1>11, Zenon DEF EntryHolds

\* Undo and redo lead the graph along its history.
LEMMA StepKept ==
    ASSUME WorkspaceInv, NEW s, PatchShows(Graph, s), NEW h, h.depth = 0, history' = h,
           NEW t, Patch!HistoryOf(h, t), NEW g, PatchShows(g, t), HostedIn(t) = HostedIn(s), NEW edited, Step(g, edited),
           (\A i \in DOMAIN edited : edited[i].op = "entry") => g.nodes = nodes /\ g.cables = cables
    PROVE  WorkspaceInv'
<1>1. /\ nodes' = g.nodes /\ cables' = g.cables /\ slot' = g.slot
      /\ UNCHANGED <<dormant, instance, external, pending, registry, installed, file>>
  BY DEF Step, Elsewhere
<1>2. PatchShows(Graph', t)
  <2>1. PICK now, ns, cs, entry : now = Graph' /\ ns = nodes' /\ cs = cables' /\ entry = slot'
    OBVIOUS
  <2>2. now = [nodes |-> ns, cables |-> cs, slot |-> entry]
    BY <2>1, Zenon DEF Graph
  <2>3. ns = g.nodes /\ cs = g.cables /\ entry = g.slot
    BY <1>1, <2>1
  <2>4. IsGraph(now)
    BY <2>2, Zenon DEF IsGraph
  <2>5. PatchShows(now, t)
    BY <2>2, <2>3, <2>4 DEF PatchShows
  <2> QED
    BY <2>1, <2>5
<1>3. Told'
  BY <1>2, Zenon DEF Told
<1>4. Hosts(Shapes(nodes'), instance', external')
  <2>1. Shapes(nodes) = s.nodes
    <3>1. PICK now : now = Graph /\ now.nodes = nodes
      BY DEF Graph
    <3> QED
      BY <3>1 DEF PatchShows
  <2>2. Shapes(nodes') = t.nodes
    BY <1>1 DEF PatchShows
  <2>3. \A id, p : <<id, p>>[2] = p
    OBVIOUS
  <2>4. \A id, p : p \in Plugins => (<<id, p>> \in t.nodes <=> <<id, p>> \in s.nodes)
    BY <2>3 DEF HostedIn
  <2>5. Hosts(t.nodes, instance, external)
    BY <2>1, <2>4, HostsSame DEF WorkspaceInv, Rig
  <2> QED
    BY <1>1, <2>2, <2>5
<1>5. Rig'
  BY <1>1, <1>4, Zenon DEF Rig, PatchShows
<1>6. Held'
  BY <1>1 DEF WorkspaceInv, Held
<1>7. PublishedIsCurrent'
  <2>1. CASE \A i \in DOMAIN edited : edited[i].op = "entry"
    <3>1. nodes' = nodes /\ cables' = cables /\ published' = published
      BY <1>1, <2>1 DEF Step
    <3> QED
      BY <1>1, <3>1 DEF WorkspaceInv, PublishedIsCurrent
  <2>2. CASE ~ \A i \in DOMAIN edited : edited[i].op = "entry"
    BY <1>5, <2>2, PublishedNow DEF Step
  <2> QED
    BY <2>1, <2>2
<1> QED
  BY <1>3, <1>5, <1>6, <1>7, Zenon DEF WorkspaceInv

----------------------------------------------------------------------------
(* The calls of the session.                                               *)

\* What a list is made into is a list.
LEMMA ListMapped ==
    ASSUME NEW list, IsList(list), NEW made, made = [i \in DOMAIN list |-> made[i]]
    PROVE  IsList(made) /\ DOMAIN made = DOMAIN list
<1>1. PICK n \in Nat : DOMAIN list = 1..n
  BY DEF IsList
<1> QED
  BY <1>1, ListMade

\* The external plugins of one kind, in the order of a walk.
Saving(bridged, vst3) == Walk({id \in DOMAIN external : external[id].bridged = bridged
                                                      /\ (external[id].plugin \in Vst3) = vst3})

\* What is saved is a file that can be loaded.
LEMMA SavedIsFile == ASSUME WorkspaceInv PROVE IsFile(Extras)
<1>1. /\ IsList(nodes) /\ IsList(cables) /\ IsFiniteSet(DOMAIN instance) /\ IsFiniteSet(DOMAIN external)
      /\ \A id \in DOMAIN instance : instance[id].plugin \in Ntp
      /\ \A id \in DOMAIN external : {"plugin", "bridged"} \subseteq DOMAIN external[id]
  BY HostsFinite DEF WorkspaceInv, Rig, GraphOK, AreNodes, AreCables, Hosts
<1>2. PICK snap, arch, sam, st, ex :
        /\ snap = Snapshot(nodes, cables, dormant) /\ arch = {instance[id].plugin : id \in DOMAIN instance}
        /\ sam = LiveSamples \o pending.samples /\ st = LiveStates \o pending.states /\ ex = Externals
  OBVIOUS
<1>3. PICK f : f = Extras
  OBVIOUS
<1>4. f = [snapshot |-> snap, archives |-> arch, samples |-> sam, states |-> st, externals |-> ex, slot |-> slot]
  BY <1>2, <1>3, Zenon DEF Extras
<1>5. f.snapshot = snap /\ f.archives = arch /\ f.samples = sam /\ f.states = st /\ f.externals = ex
  BY <1>4
<1>6. PICK a, b : IsList(a) /\ IsList(b) /\ dormant.instruments = a /\ dormant.cables = b
  <2>1. PICK a, b : IsList(a) /\ IsList(b) /\ dormant = [instruments |-> a, cables |-> b]
    BY DEF WorkspaceInv, Held, IsDormant
  <2> QED
    BY <2>1
<1>7. PICK c, d : IsList(c) /\ IsList(d) /\ pending.samples = c /\ pending.states = d
  <2>1. PICK c, d : IsList(c) /\ IsList(d) /\ pending = [samples |-> c, states |-> d]
    BY DEF WorkspaceInv, Held, IsPending
  <2> QED
    BY <2>1
<1>8. IsList(snap.instruments) /\ IsList(snap.cables)
  <2>1. PICK x : x = [i \in DOMAIN nodes |-> [id |-> nodes[i].id, plugin |-> nodes[i].plugin, strip |-> nodes[i].strip,
                                              param |-> 0]]
    OBVIOUS
  <2>2. PICK y : y = [i \in DOMAIN cables |->
             [id |-> cables[i].id, src |-> FileEnd(cables[i].src), dst |-> FileEnd(cables[i].dst),
              mode |-> cables[i].mode,
              srcKind |-> KindOf(Outs(NodeOf(nodes, cables[i].src.node)), cables[i].src.port),
              dstKind |-> KindOf(Ins(NodeOf(nodes, cables[i].dst.node)), cables[i].dst.port)]]
    OBVIOUS
  <2>3. IsList(x) /\ IsList(y)
    <3>1. x = [i \in DOMAIN nodes |-> x[i]]
      BY <2>1
    <3>2. y = [i \in DOMAIN cables |-> y[i]]
      BY <2>2
    <3> QED
      BY <1>1, <3>1, <3>2, ListMapped
  <2>4. snap = [instruments |-> x \o dormant.instruments, cables |-> y \o dormant.cables]
    BY <1>2, <2>1, <2>2, Zenon DEF Snapshot
  <2>5. PICK u, v : u = x \o a /\ v = y \o b
    OBVIOUS
  <2>6. IsList(u) /\ IsList(v)
    BY <1>6, <2>3, <2>5, JoinFacts
  <2>7. snap = [instruments |-> u, cables |-> v]
    BY <1>6, <2>4, <2>5, Zenon
  <2> QED
    BY <2>6, <2>7
<1>9. IsList(sam)
  <2>1. PICK ids : ids = Walk({id \in DOMAIN instance : instance[id].sample = 1})
    OBVIOUS
  <2>2. IsList(ids)
    BY <1>1, <2>1, WalkFacts, FS_Subset
  <2>3. PICK x : x = [i \in DOMAIN ids |-> [id |-> ids[i], sample |-> 1]]
    OBVIOUS
  <2>4. x = [i \in DOMAIN ids |-> x[i]]
    BY <2>3
  <2>5. IsList(x)
    BY <2>2, <2>4, ListMapped
  <2>6. sam = x \o c
    BY <1>2, <1>7, <2>1, <2>3, Zenon DEF LiveSamples
  <2> QED
    BY <1>7, <2>5, <2>6, JoinFacts
<1>10. IsList(st)
  <2>1. PICK ids : ids = Walk({id \in DOMAIN instance : instance[id].env = 1 \/ ChunkToSave(id) = 1})
    OBVIOUS
  <2>2. IsList(ids)
    BY <1>1, <2>1, WalkFacts, FS_Subset
  <2>3. PICK x : x = [i \in DOMAIN ids |-> [id |-> ids[i], env |-> instance[ids[i]].env, chunk |-> ChunkToSave(ids[i])]]
    OBVIOUS
  <2>4. x = [i \in DOMAIN ids |-> x[i]]
    BY <2>3
  <2>5. IsList(x)
    BY <2>2, <2>4, ListMapped
  <2>6. st = x \o d
    BY <1>2, <1>7, <2>1, <2>3, Zenon DEF LiveStates
  <2> QED
    BY <1>7, <2>5, <2>6, JoinFacts
<1>11. IsList(ex) /\ \A x \in Range(ex) : {"plugin", "bridged"} \subseteq DOMAIN x
  <2>1. ASSUME NEW bridged, NEW vst3
        PROVE  IsList(Saving(bridged, vst3)) /\ Range(Saving(bridged, vst3)) \subseteq DOMAIN external
    <3>1. PICK set : set = {id \in DOMAIN external : external[id].bridged = bridged
                                                     /\ (external[id].plugin \in Vst3) = vst3}
      OBVIOUS
    <3>2. set \subseteq DOMAIN external
      BY <3>1, Zenon
    <3>3. IsFiniteSet(set)
      BY <1>1, <3>2, FS_Subset
    <3>4. IsList(Walk(set)) /\ Range(Walk(set)) \subseteq DOMAIN external
      BY <3>2, <3>3, WalkFacts
    <3> QED
      BY <3>1, <3>4, Zenon DEF Saving
  <2>2. PICK p, q, r : p = Saving(FALSE, FALSE) /\ q = Saving(TRUE, FALSE) /\ r = Saving(FALSE, TRUE)
    OBVIOUS
  <2>3. /\ IsList(p) /\ Range(p) \subseteq DOMAIN external /\ IsList(q) /\ Range(q) \subseteq DOMAIN external
        /\ IsList(r) /\ Range(r) \subseteq DOMAIN external
    <3>1. IsList(p) /\ Range(p) \subseteq DOMAIN external
      BY <2>1, <2>2, Zenon
    <3>2. IsList(q) /\ Range(q) \subseteq DOMAIN external
      BY <2>1, <2>2, Zenon
    <3>3. IsList(r) /\ Range(r) \subseteq DOMAIN external
      BY <2>1, <2>2, Zenon
    <3> QED
      BY <3>1, <3>2, <3>3
  <2>4. PICK pq : pq = p \o q
    OBVIOUS
  <2>5. PICK ids : ids = pq \o r
    OBVIOUS
  <2>6. IsList(pq) /\ Range(pq) \subseteq DOMAIN external
    BY <2>3, <2>4, JoinFacts
  <2>7. IsList(ids) /\ Range(ids) \subseteq DOMAIN external
    BY <2>3, <2>5, <2>6, JoinFacts
  <2>8. ex = [i \in DOMAIN ids |-> external[ids[i]]]
    BY <1>2, <2>2, <2>4, <2>5, Zenon DEF Externals, Saving
  <2>9. IsList(ex) /\ DOMAIN ex = DOMAIN ids
    BY <2>7, <2>8, ListMapped
  <2>10. \A i \in DOMAIN ids : ids[i] \in DOMAIN external
    BY <2>7 DEF Range
  <2> QED
    BY <1>1, <2>8, <2>9, <2>10 DEF Range
<1>12. arch \subseteq Ntp
  BY <1>1, <1>2
<1> QED
  BY <1>3, <1>5, <1>8, <1>9, <1>10, <1>11, <1>12, Zenon DEF IsFile

\* The parts of the invariant, and what a node of it is.
LEMMA InvParts ==
    ASSUME WorkspaceInv
    PROVE  /\ GraphOK(nodes, cables) /\ AreNodes(nodes) /\ AreCables(cables) /\ IsList(nodes) /\ IsList(cables)
           /\ Hosts(Shapes(nodes), instance, external)
           /\ IsDormant(dormant) /\ IsPending(pending) /\ registry \subseteq Ntp /\ installed \subseteq External
           /\ \A i \in DOMAIN nodes : IsNode(nodes[i])
           /\ \A i \in DOMAIN cables : IsCable(cables[i]) /\ cables[i] \in Range(cables)
BY DEF WorkspaceInv, Rig, Held, GraphOK, AreNodes, AreCables, Range

\* A fresh node, its id free.
LEMMA NewNode ==
    ASSUME NEW ns, NEW cs, GraphOK(ns, cs), NEW prefix, NEW p, NEW id, id = NextNode(ns, prefix)
    PROVE  /\ GraphOK(Append(ns, Node(id, p)), cs)
           /\ Shapes(Append(ns, Node(id, p))) = Shapes(ns) \cup {<<id, p>>}
           /\ \A q : <<id, q>> \notin Shapes(ns)
<1>1. PICK n : n = Node(id, p)
  OBVIOUS
<1>2. IsNode(n)
  BY <1>1, Zenon DEF Node, IsNode
<1>3. n.id = id /\ n.plugin = p
  BY <1>1 DEF Node
<1>4. ~HasNode(ns, id)
  BY NextIsFree DEF GraphOK, AreNodes
<1>5. GraphOK(Append(ns, n), cs) /\ Shapes(Append(ns, n)) = Shapes(ns) \cup {<<id, p>>}
  BY <1>2, <1>3, <1>4, NodeAdded
<1>6. \A q : <<id, q>> \notin Shapes(ns)
  BY <1>4, ShapesFacts DEF GraphOK, AreNodes
<1> QED
  BY <1>1, <1>5, <1>6

\* A native plugin is added: its node, and its instance.
LEMMA AddPluginKeeps ==
    ASSUME WorkspaceInv, NEW p \in Ntp, AddPlugin(p)
    PROVE  WorkspaceInv'
<1>1. PICK id, r : id = NextNode(nodes, "plg") /\ r = Fresh(p)
  OBVIOUS
<1>2. /\ nodes' = Append(nodes, Node(id, p)) /\ instance' = Assigned(instance, id, r)
      /\ UNCHANGED <<cables, dormant, external, pending, registry, installed, file>>
      /\ history' = Clear(history) /\ Publish
  BY <1>1 DEF AddPlugin, Elsewhere
<1>3. "plugin" \in DOMAIN r /\ r.plugin = p
  BY <1>1 DEF Fresh
<1>4. /\ GraphOK(nodes', cables') /\ Shapes(nodes') = Shapes(nodes) \cup {<<id, p>>}
      /\ \A q : <<id, q>> \notin Shapes(nodes)
  BY <1>1, <1>2, InvParts, NewNode
<1>5. Hosts(Shapes(nodes) \cup {<<id, r.plugin>>}, Assigned(instance, id, r), external)
  BY <1>3, <1>4, InvParts, HostsInstance
<1>6. Hosts(Shapes(nodes'), instance', external')
  BY <1>2, <1>3, <1>4, <1>5
<1>7. Rig'
  BY <1>4, <1>6, Zenon DEF Rig
<1>8. Held'
  BY <1>2 DEF WorkspaceInv, Held
<1> QED
  BY <1>2, <1>7, <1>8, Rebuilt

\* And so is an external one.
LEMMA AddExternalKeeps ==
    ASSUME WorkspaceInv, NEW x \in External, NEW bridged, NEW spawned, AddExternal(x, bridged, spawned)
    PROVE  WorkspaceInv'
<1>1. PICK id, r : /\ id = NextNode(nodes, ExternalPrefix(x))
                   /\ r = [plugin |-> x, state |-> 0, bridged |-> bridged /\ spawned]
  OBVIOUS
<1>2. /\ nodes' = Append(nodes, Node(id, x)) /\ external' = Assigned(external, id, r)
      /\ UNCHANGED <<cables, dormant, instance, pending, registry, installed, file>>
      /\ history' = Clear(history) /\ Publish
  BY <1>1, Zenon DEF AddExternal, Elsewhere
<1>3. {"plugin", "bridged"} \subseteq DOMAIN r /\ r.plugin = x
  <2>1. PICK b : b = (bridged /\ spawned)
    OBVIOUS
  <2>2. r = [plugin |-> x, state |-> 0, bridged |-> b]
    BY <1>1, <2>1, Zenon
  <2> QED
    BY <2>2
<1>4. /\ GraphOK(nodes', cables') /\ Shapes(nodes') = Shapes(nodes) \cup {<<id, x>>}
      /\ \A q : <<id, q>> \notin Shapes(nodes)
  BY <1>1, <1>2, InvParts, NewNode
<1>5. Hosts(Shapes(nodes) \cup {<<id, r.plugin>>}, instance, Assigned(external, id, r))
  BY <1>3, <1>4, InvParts, HostsExternal
<1>6. Hosts(Shapes(nodes'), instance', external')
  BY <1>2, <1>3, <1>4, <1>5
<1>7. Rig'
  BY <1>4, <1>6, Zenon DEF Rig
<1>8. Held'
  BY <1>2 DEF WorkspaceInv, Held
<1> QED
  BY <1>2, <1>7, <1>8, Rebuilt

\* A node goes with its cables and its plugin.
LEMMA RemoveKeeps ==
    ASSUME WorkspaceInv, NEW id, RemoveWorkspaceNode(id)
    PROVE  WorkspaceInv'
<1>2. /\ instance' = Restrict(instance, DOMAIN instance \ {id}) /\ external' = Restrict(external, DOMAIN external \ {id})
      /\ nodes' = RemoveNode(nodes, id) /\ cables' = CablesWithout(cables, id)
      /\ UNCHANGED <<dormant, pending, registry, installed, file>>
      /\ history' = Clear(history) /\ Publish
  BY DEF RemoveWorkspaceNode, Elsewhere
<1>3. GraphOK(nodes', cables') /\ Shapes(nodes') = {y \in Shapes(nodes) : y[1] # id}
  BY <1>2, InvParts, NodeRemoved
<1>4. Hosts({y \in Shapes(nodes) : y[1] # id}, Restrict(instance, DOMAIN instance \ {id}),
            Restrict(external, DOMAIN external \ {id}))
  BY InvParts, HostsRemoved
<1>5. Hosts(Shapes(nodes'), instance', external')
  BY <1>2, <1>3, <1>4, Zenon
<1>7. Rig'
  BY <1>3, <1>5, Zenon DEF Rig
<1>8. Held'
  BY <1>2 DEF WorkspaceInv, Held
<1> QED
  BY <1>2, <1>7, <1>8, Rebuilt

\* What an instance is given.
LEMMA InstanceGiven ==
    ASSUME WorkspaceInv, NEW id \in DOMAIN instance, NEW r, instance' = [instance EXCEPT ![id] = r],
           "plugin" \in DOMAIN r, r.plugin = instance[id].plugin,
           UNCHANGED <<nodes, cables, slot, external, dormant, pending, registry, installed, file>>,
           history' \in {history, Clear(history)}, UNCHANGED published \/ Publish
    PROVE  WorkspaceInv'
<1>1. PICK now : now = instance'
  OBVIOUS
<1>2. DOMAIN now = DOMAIN instance /\ now[id] = r /\ \A k \in DOMAIN instance : k # id => now[k] = instance[k]
  BY <1>1
<1>3. Hosts(Shapes(nodes), now, external)
  BY <1>2, InvParts, HostsGiven
<1>4. Hosts(Shapes(nodes), instance', external')
  BY <1>1, <1>3, Zenon
<1>5. Held'
  BY DEF WorkspaceInv, Held
<1>6. DOMAIN instance' = DOMAIN instance /\ DOMAIN external' = DOMAIN external
  BY <1>1, <1>2
<1>7. UNCHANGED <<nodes, cables, slot>>
  OBVIOUS
<1> QED
  BY <1>4, <1>5, <1>6, <1>7, GraphStays

\* What an external plugin is given.
LEMMA ExternalGiven ==
    ASSUME WorkspaceInv, NEW id \in DOMAIN external, NEW r, external' = [external EXCEPT ![id] = r],
           {"plugin", "bridged"} \subseteq DOMAIN r, r.plugin = external[id].plugin,
           UNCHANGED <<nodes, cables, slot, instance, dormant, pending, registry, installed, file>>,
           history' \in {history, Clear(history)}, UNCHANGED published \/ Publish
    PROVE  WorkspaceInv'
<1>1. PICK now : now = external'
  OBVIOUS
<1>2. DOMAIN now = DOMAIN external /\ now[id] = r /\ \A k \in DOMAIN external : k # id => now[k] = external[k]
  BY <1>1
<1>3. Hosts(Shapes(nodes), instance, now)
  BY <1>2, InvParts, HostsGivenTo
<1>4. Hosts(Shapes(nodes), instance', external')
  BY <1>1, <1>3, Zenon
<1>5. Held'
  BY DEF WorkspaceInv, Held
<1>6. DOMAIN instance' = DOMAIN instance /\ DOMAIN external' = DOMAIN external
  BY <1>1, <1>2
<1>7. UNCHANGED <<nodes, cables, slot>>
  OBVIOUS
<1> QED
  BY <1>4, <1>5, <1>6, <1>7, GraphStays

\* A parameter is set.
LEMMA SetParamKeeps ==
    ASSUME WorkspaceInv, NEW id \in DOMAIN instance, SetParam(id)
    PROVE  WorkspaceInv'
<1>1. PICK r : r = [instance[id] EXCEPT !.param = 1]
  OBVIOUS
<1>2. instance' = [instance EXCEPT ![id] = r]
  BY <1>1, Zenon DEF SetParam
<1>3. "plugin" \in DOMAIN r /\ r.plugin = instance[id].plugin
  BY <1>1, InvParts DEF Hosts
<1>4. UNCHANGED <<nodes, cables, slot, external, dormant, pending, registry, installed, file, history, published>>
  BY DEF SetParam, Elsewhere
<1> QED
  BY <1>2, <1>3, <1>4, InstanceGiven

\* A stage has run.
LEMMA StageRunsKeeps ==
    ASSUME WorkspaceInv, NEW id \in DOMAIN instance, StageRuns(id)
    PROVE  WorkspaceInv'
<1>1. PICK r : r = [instance[id] EXCEPT !.chunk = 1]
  OBVIOUS
<1>2. instance' = [instance EXCEPT ![id] = r]
  BY <1>1, Zenon DEF StageRuns
<1>3. "plugin" \in DOMAIN r /\ r.plugin = instance[id].plugin
  BY <1>1, InvParts DEF Hosts
<1>4. UNCHANGED <<nodes, cables, slot, external, dormant, pending, registry, installed, file, history, published>>
  BY DEF StageRuns, Elsewhere
<1> QED
  BY <1>2, <1>3, <1>4, InstanceGiven

\* A sample is replaced or put back, an envelope edited.
LEMMA EditInstanceKeeps ==
    ASSUME WorkspaceInv, NEW id \in DOMAIN instance, NEW field \in {"sample", "env"}, NEW value,
           EditInstance(id, field, value)
    PROVE  WorkspaceInv'
<1>1. PICK r : r = [instance[id] EXCEPT ![field] = value]
  OBVIOUS
<1>2. instance' = [instance EXCEPT ![id] = r]
  BY <1>1, Zenon DEF EditInstance
<1>3. "plugin" \in DOMAIN r /\ r.plugin = instance[id].plugin
  <2>1. "plugin" \in DOMAIN instance[id] /\ field # "plugin"
    BY InvParts DEF Hosts
  <2> QED
    BY <1>1, <2>1, FieldSet
<1>4. /\ UNCHANGED <<nodes, cables, slot, external, dormant, pending, registry, installed, file>>
      /\ history' = Clear(history) /\ Publish
  BY DEF EditInstance, Elsewhere
<1> QED
  BY <1>2, <1>3, <1>4, InstanceGiven

\* The state of an external plugin changes in its editor.
LEMMA EditExternalKeeps ==
    ASSUME WorkspaceInv, NEW id \in DOMAIN external, EditExternal(id)
    PROVE  WorkspaceInv'
<1>1. PICK r : r = [external[id] EXCEPT !.state = 1]
  OBVIOUS
<1>2. external' = [external EXCEPT ![id] = r]
  BY <1>1, Zenon DEF EditExternal
<1>3. {"plugin", "bridged"} \subseteq DOMAIN r /\ r.plugin = external[id].plugin
  BY <1>1, InvParts DEF Hosts
<1>4. UNCHANGED <<nodes, cables, slot, instance, dormant, pending, registry, installed, file, history, published>>
  BY DEF EditExternal, Elsewhere
<1> QED
  BY <1>2, <1>3, <1>4, ExternalGiven

\* An external plugin goes out of the process, or comes in.
LEMMA SetBridgedKeeps ==
    ASSUME WorkspaceInv, NEW id \in DOMAIN external, NEW spawned, SetBridged(id, spawned)
    PROVE  WorkspaceInv'
<1>0. PICK b : b = ~external[id].bridged
  OBVIOUS
<1>1. PICK r : r = [external[id] EXCEPT !.bridged = b]
  OBVIOUS
<1>2. external' = [external EXCEPT ![id] = r]
  BY <1>0, <1>1, Zenon DEF SetBridged
<1>3. {"plugin", "bridged"} \subseteq DOMAIN r /\ r.plugin = external[id].plugin
  BY <1>1, InvParts DEF Hosts
<1>4. UNCHANGED <<nodes, cables, slot, instance, dormant, pending, registry, installed, file, history>> /\ Publish
  BY DEF SetBridged, Elsewhere
<1> QED
  BY <1>2, <1>3, <1>4, ExternalGiven

\* The device starts or stops.
LEMMA DeviceKeeps == ASSUME WorkspaceInv, DeviceToggles PROVE WorkspaceInv'
<1>1. UNCHANGED <<nodes, cables, slot, instance, external, dormant, pending, registry, installed, file, history, published>>
  BY DEF DeviceToggles, graphVars
<1>2. Held'
  BY <1>1 DEF WorkspaceInv, Held
<1>3. Hosts(Shapes(nodes), instance', external')
  BY <1>1, InvParts
<1>4. UNCHANGED <<nodes, cables, slot>>
  BY <1>1
<1> QED
  BY <1>1, <1>2, <1>3, <1>4, GraphStays

\* What is saved is a file.
LEMMA SaveKeeps == ASSUME WorkspaceInv, Save PROVE WorkspaceInv'
<1>1. /\ UNCHANGED <<nodes, cables, slot, instance, external, dormant, pending, registry, installed, history, published>>
      /\ file' = Extras
  BY DEF Save
<1>2. IsFile(file')
  BY <1>1, SavedIsFile, Zenon
<1>3. Held'
  BY <1>1, <1>2 DEF WorkspaceInv, Held
<1>4. Hosts(Shapes(nodes), instance', external')
  BY <1>1, InvParts
<1>5. UNCHANGED <<nodes, cables, slot>>
  BY <1>1
<1> QED
  BY <1>1, <1>3, <1>4, <1>5, GraphStays

\* What the graph shows.
LEMMA GraphParts ==
    /\ Graph.nodes = nodes /\ Graph.cables = cables /\ Graph.slot = slot
    /\ \A s : PatchShows(Graph, s) => s.nodes = Shapes(nodes) /\ s.cables = Range(cables) /\ s.slot = slot
<1>1. Graph.nodes = nodes /\ Graph.cables = cables /\ Graph.slot = slot
  BY DEF Graph
<1> QED
  BY <1>1, Zenon DEF PatchShows

\* The strip of a node is turned.
LEMMA SetStripKeeps == ASSUME WorkspaceInv, NEW i, SetStrip(i) PROVE WorkspaceInv'
<1>1. PICK n, ns : n = [nodes[i] EXCEPT !.strip = 1] /\ ns = nodes'
  OBVIOUS
<1>2. i \in DOMAIN nodes /\ ns = [nodes EXCEPT ![i] = n]
  BY <1>1, Zenon DEF SetStrip
<1>3. IsNode(n) /\ n.id = nodes[i].id /\ n.plugin = nodes[i].plugin
  <2>1. PICK id, plugin, strip : nodes[i] = [id |-> id, plugin |-> plugin, strip |-> strip]
    BY <1>2, InvParts DEF IsNode
  <2>2. n = [id |-> id, plugin |-> plugin, strip |-> 1]
    BY <1>1, <2>1
  <2>3. IsNode(n)
    BY <2>2, Zenon DEF IsNode
  <2> QED
    BY <2>1, <2>2, <2>3
<1>4. DOMAIN ns = DOMAIN nodes /\ ns[i] = n /\ (\A j \in DOMAIN nodes : j # i => ns[j] = nodes[j])
  BY <1>2
<1>5. ns = [j \in DOMAIN nodes |-> ns[j]]
  BY <1>2
<1>6. \A j \in DOMAIN nodes : IsNode(ns[j]) /\ ns[j].id = nodes[j].id /\ ns[j].plugin = nodes[j].plugin
  <2> SUFFICES ASSUME NEW j \in DOMAIN nodes PROVE IsNode(ns[j]) /\ ns[j].id = nodes[j].id /\ ns[j].plugin = nodes[j].plugin
    OBVIOUS
  <2>1. CASE j = i
    BY <1>3, <1>4, <2>1
  <2>2. CASE j # i
    <3>1. ns[j] = nodes[j]
      BY <1>4, <2>2
    <3> QED
      BY <3>1, InvParts, Zenon
  <2> QED
    BY <2>1, <2>2
<1>7. GraphOK(ns, cables) /\ Shapes(ns) = Shapes(nodes) /\ Shape(ns) = Shape(nodes)
  BY <1>5, <1>6, InvParts, NodesDressed
<1>8. UNCHANGED <<cables, dormant, instance, external, pending, slot, history, published, registry, installed, file>>
  BY DEF SetStrip, Elsewhere
<1>9. Rig'
  BY <1>1, <1>7, <1>8, InvParts, Zenon DEF Rig
<1>10. Held'
  BY <1>8 DEF WorkspaceInv, Held
<1>11. Told'
  <2>1. PICK s : history.depth = 0 /\ PatchShows(Graph, s) /\ Patch!HistoryOf(history, s)
    BY Zenon DEF WorkspaceInv, Told
  <2>2. PICK g : g = Graph'
    OBVIOUS
  <2>3. g = [nodes |-> ns, cables |-> cables, slot |-> slot]
    BY <1>1, <1>8, <2>2, Zenon DEF Graph
  <2>4. IsGraph(g)
    BY <2>3, Zenon DEF IsGraph
  <2>5. PatchShows(g, s)
    BY <1>7, <2>1, <2>3, <2>4, GraphParts DEF PatchShows
  <2> QED
    BY <1>8, <2>1, <2>2, <2>5, Zenon DEF Told
<1>12. PublishedIsCurrent'
  BY <1>1, <1>7, <1>8, Zenon DEF WorkspaceInv, PublishedIsCurrent
<1> QED
  BY <1>9, <1>10, <1>11, <1>12, Zenon DEF WorkspaceInv

\* A utility is added.
LEMMA AddUtilityKeeps == ASSUME WorkspaceInv, NEW prefix \in Utilities, AddUtility(prefix) PROVE WorkspaceInv'
<1>1. PICK id, e : id = NextNode(nodes, prefix) /\ e = Edit("utility", id, 0, 0)
  OBVIOUS
<1>2. e.op = "utility" /\ e.what = id /\ e.what[1] = prefix
  BY <1>1 DEF Edit, NextNode
<1>3. PICK after : after = [Graph EXCEPT !.nodes = Append(@, Node(id, prefix))]
  OBVIOUS
<1>4. Undoable(after, e)
  BY <1>1, <1>3, Zenon DEF AddUtility
<1>5. after = Repeated(Graph, e)
  <2>1. Repeated(Graph, e) = [Graph EXCEPT !.nodes = Append(@, Node(e.what, e.what[1]))]
    BY <1>2 DEF Repeated
  <2> QED
    BY <1>2, <1>3, <2>1, Zenon
<1>6. ASSUME NEW s, PatchShows(Graph, s) PROVE \E t : PatchLinks(e, s, t)
  <2>1. s.nodes = Shapes(nodes) /\ s.cables = Range(cables)
    BY <1>6, GraphParts
  <2>2. \A x \in s.nodes : x[1] # id
    <3>1. \A q : <<id, q>> \notin Shapes(nodes)
      BY <1>1, InvParts, NewNode
    <3>2. ASSUME NEW x \in Shapes(nodes) PROVE x[1] # id
      <4>1. PICK j \in DOMAIN nodes : x = <<nodes[j].id, nodes[j].plugin>>
        BY <3>2, InvParts, ShapesFacts
      <4> QED
        BY <3>1, <4>1
    <3> QED
      BY <2>1, <3>2
  <2>3. \A c \in s.cables : c.src.node # id /\ c.dst.node # id
    <3> SUFFICES ASSUME NEW c \in s.cables PROVE c.src.node # id /\ c.dst.node # id
      OBVIOUS
    <3>1. Fits(s.nodes, c.src, c.dst)
      BY <2>1, InvParts DEF GraphOK
    <3>2. PICK p, q : <<c.src.node, p>> \in s.nodes /\ <<c.dst.node, q>> \in s.nodes
      BY <3>1 DEF Fits
    <3> QED
      BY <2>2, <3>2
  <2>4. PICK t : t = [nodes |-> s.nodes \cup {<<id, id[1]>>}, cables |-> s.cables, slot |-> s.slot]
    OBVIOUS
  <2>5. Places(id, s, t)
    BY <1>2, <2>2, <2>3, <2>4 DEF Places
  <2> QED
    BY <1>2, <2>5, Zenon DEF PatchLinks
<1> QED
  BY <1>4, <1>5, <1>6, EditKept

\* A cable is drawn.
LEMMA AddCableKeeps == ASSUME WorkspaceInv, NEW src, NEW dst, NEW mode, AddCable(src, dst, mode) PROVE WorkspaceInv'
<1>1. PICK c, e : c = Cable(NextCable(cables), src, dst, mode) /\ e = Edit("connect", c, 0, 0)
  OBVIOUS
<1>2. e.op = "connect" /\ e.what = c
  BY <1>1 DEF Edit
<1>3. PICK after : after = [Graph EXCEPT !.cables = Connect(nodes, @, c)]
  OBVIOUS
<1>4. Undoable(after, e) /\ CanConnect(nodes, cables, src, dst, c.id)
  BY <1>1, <1>3, Zenon DEF AddCable
<1>5. after = Repeated(Graph, e)
  <2>1. Repeated(Graph, e) = [Graph EXCEPT !.cables = Connect(Graph.nodes, @, e.what)]
    BY <1>2 DEF Repeated
  <2> QED
    BY <1>2, <1>3, <2>1, GraphParts, Zenon
<1>6. ASSUME NEW s, PatchShows(Graph, s) PROVE \E t : PatchLinks(e, s, t)
  <2>1. s.nodes = Shapes(nodes) /\ s.cables = Range(cables)
    BY <1>6, GraphParts
  <2>2. IsCable(c) /\ c.src = src /\ c.dst = dst
    <3>1. IsCable(c)
      BY <1>1, Zenon DEF Cable, IsCable
    <3> QED
      BY <1>1, <3>1 DEF Cable
  <2>3. ~HasCable(cables, c.id) /\ Fits(s.nodes, c.src, c.dst)
    BY <1>4, <2>1, <2>2, InvParts, ConnectsIfFits
  <2>4. \A d \in s.cables : d.id # c.id
    BY <2>1, <2>3 DEF HasCable, Range
  <2>5. PICK t : t = [nodes |-> s.nodes, cables |-> s.cables \cup {c}, slot |-> s.slot]
    OBVIOUS
  <2>6. Adds(c, s, t)
    BY <2>2, <2>3, <2>4, <2>5 DEF Adds
  <2> QED
    BY <1>2, <2>6, Zenon DEF PatchLinks
<1> QED
  BY <1>4, <1>5, <1>6, EditKept

\* Cables told apart by their ids.
LEMMA CableOfId ==
    ASSUME WorkspaceInv, NEW i \in DOMAIN cables, NEW d \in Range(cables), d.id = cables[i].id
    PROVE  d = cables[i]
<1>1. PICK j \in DOMAIN cables : d = cables[j]
  BY DEF Range
<1> QED
  BY <1>1, InvParts DEF AreCables, Distinct

\* A cable is taken away.
LEMMA RemoveCableKeeps == ASSUME WorkspaceInv, NEW id, RemoveCable(id) PROVE WorkspaceInv'
<1>1. PICK i \in DOMAIN cables : /\ cables[i].id = id
                                 /\ Undoable([Graph EXCEPT !.cables = Disconnect(@, id)], Edit("disconnect", cables[i], 0, 0))
  BY DEF RemoveCable
<1>2. PICK c, e : c = cables[i] /\ e = Edit("disconnect", c, 0, 0)
  OBVIOUS
<1>3. e.op = "disconnect" /\ e.what = c
  BY <1>2 DEF Edit
<1>4. PICK after : after = [Graph EXCEPT !.cables = Disconnect(@, id)]
  OBVIOUS
<1>5. Undoable(after, e)
  BY <1>1, <1>2, <1>4, Zenon
<1>6. after = Repeated(Graph, e)
  <2>1. Repeated(Graph, e) = [Graph EXCEPT !.cables = Disconnect(@, e.what.id)]
    BY <1>3 DEF Repeated
  <2> QED
    BY <1>1, <1>2, <1>3, <1>4, <2>1, Zenon
<1>7. ASSUME NEW s, PatchShows(Graph, s) PROVE \E t : PatchLinks(e, s, t)
  <2>1. s.nodes = Shapes(nodes) /\ s.cables = Range(cables)
    BY <1>7, GraphParts
  <2>2. IsCable(c) /\ c \in s.cables /\ c.id = id /\ Fits(s.nodes, c.src, c.dst)
    BY <1>1, <1>2, <2>1, InvParts DEF GraphOK
  <2>3. PICK t : t = [nodes |-> s.nodes, cables |-> {d \in s.cables : d.id # id}, slot |-> s.slot]
    OBVIOUS
  <2>4. \A d \in s.cables : d.id = id => d = c
    BY <1>1, <1>2, <2>1, CableOfId
  <2>5. s.cables = t.cables \cup {c} /\ \A d \in t.cables : d.id # c.id
    BY <2>2, <2>3, <2>4
  <2>6. Adds(c, t, s)
    BY <2>2, <2>3, <2>5 DEF Adds
  <2> QED
    BY <1>3, <2>6, Zenon DEF PatchLinks
<1> QED
  BY <1>5, <1>6, <1>7, EditKept

\* A cable is made to tap, or to reroute.
LEMMA SetCableModeKeeps == ASSUME WorkspaceInv, NEW id, NEW mode, SetCableMode(id, mode) PROVE WorkspaceInv'
<1>1. PICK i \in DOMAIN cables : /\ cables[i].id = id
                                 /\ Undoable([Graph EXCEPT !.cables = SetMode(@, id, mode)], Edit("mode", id, cables[i].mode, mode))
  BY DEF SetCableMode
<1>2. PICK old, e : old = cables[i].mode /\ e = Edit("mode", id, old, mode)
  OBVIOUS
<1>3. e.op = "mode" /\ e.what = id /\ e.before = old /\ e.after = mode
  BY <1>2 DEF Edit
<1>4. PICK after : after = [Graph EXCEPT !.cables = SetMode(@, id, mode)]
  OBVIOUS
<1>5. Undoable(after, e)
  BY <1>1, <1>2, <1>4, Zenon
<1>6. after = Repeated(Graph, e)
  <2>1. Repeated(Graph, e) = [Graph EXCEPT !.cables = SetMode(@, e.what, e.after)]
    BY <1>3 DEF Repeated
  <2> QED
    BY <1>3, <1>4, <2>1, Zenon
<1>7. ASSUME NEW s, PatchShows(Graph, s) PROVE \E t : PatchLinks(e, s, t)
  <2>1. s.cables = Range(cables)
    BY <1>7, GraphParts
  <2>2. \A d \in s.cables : IsCable(d)
    BY <2>1, InvParts DEF AreCables
  <2>3. \A d \in s.cables : d.id = id => d.mode = old
    BY <1>1, <1>2, <2>1, CableOfId
  <2>4. PICK t : t = [nodes |-> s.nodes, cables |-> {Turned(d, id, mode) : d \in s.cables}, slot |-> s.slot]
    OBVIOUS
  <2>5. t.nodes = s.nodes /\ t.cables = {Turned(d, id, mode) : d \in s.cables} /\ t.slot = s.slot
    BY <2>4
  <2>6. Turns(e, s, t)
    BY <1>3, <2>2, <2>3, <2>5, Zenon DEF Turns
  <2> QED
    BY <1>3, <2>6, Zenon DEF PatchLinks
<1> QED
  BY <1>5, <1>6, <1>7, EditKept

\* An entry of the instrument table is written.
LEMMA SetEntryKeeps == ASSUME WorkspaceInv, NEW entry, SetInstrumentEntry(entry) PROVE WorkspaceInv'
<1>1. PICK e : e = Edit("entry", 1, slot, entry)
  OBVIOUS
<1>2. e.op = "entry" /\ e.before = slot /\ e.after = entry
  BY <1>1 DEF Edit
<1>3. PICK after : after = [Graph EXCEPT !.slot = entry]
  OBVIOUS
<1>4. Undoable(after, e)
  BY <1>1, <1>3, Zenon DEF SetInstrumentEntry
<1>5. after = Repeated(Graph, e)
  <2>1. Repeated(Graph, e) = [Graph EXCEPT !.slot = e.after]
    BY <1>2 DEF Repeated
  <2> QED
    BY <1>2, <1>3, <2>1, Zenon
<1>6. ASSUME NEW s, PatchShows(Graph, s) PROVE \E t : PatchLinks(e, s, t)
  <2>1. s.slot = slot
    BY <1>6, GraphParts
  <2>2. PICK t : t = [nodes |-> s.nodes, cables |-> s.cables, slot |-> entry]
    OBVIOUS
  <2>3. Enters(e, s, t)
    BY <1>2, <2>1, <2>2 DEF Enters
  <2> QED
    BY <1>2, <2>3, Zenon DEF PatchLinks
<1> QED
  BY <1>4, <1>5, <1>6, EditKept

\* The graph is a record of its parts.
LEMMA GraphIsGraph == IsGraph(Graph)
BY Zenon DEF Graph, IsGraph

\* Undo leads the graph back along its history.
LEMMA UndoKeeps == ASSUME WorkspaceInv, Undo PROVE WorkspaceInv'
<1>1. PICK s : history.depth = 0 /\ PatchShows(Graph, s) /\ Patch!HistoryOf(history, s)
  BY Zenon DEF WorkspaceInv, Told
<1>2. Patch!CanUndo(history)
  BY Zenon DEF Undo, CanUndo, Patch!CanUndo
<1>3. PICK t : /\ Patch!Path(Patch!Last(history.past).edits, t, s)
               /\ Patch!HistoryOf(Undone(history), t) /\ Undone(history).depth = 0
  BY <1>1, <1>2, HistoryAssumption, Patch!UndoLeads, PatchOperations
<1>4. PICK list : list = Last(history.past).edits
  OBVIOUS
<1>5. Patch!Path(list, t, s)
  BY <1>3, <1>4, Zenon DEF Last, Patch!Last
<1>6. PICK g, edited : g = FoldLeft(Restored, Graph, UndoneEdits(history)) /\ edited = UndoneEdits(history)
  OBVIOUS
<1>7. PatchShows(Patch!Unmade(Graph, list), t)
  BY <1>1, <1>5, PatchBack, HistoryAssumption, Patch!BackAlong
<1>8. FoldLeft(Restored, Graph, Reverse(list)) = Patch!Unmade(Graph, list)
  BY ZenonT(60) DEF Patch!Unmade, FoldLeft, MapThenFoldSet, Patch!FoldLeft, Patch!MapThenFoldSet, Max, Patch!Max,
                    Reverse, Patch!Reverse
<1>9. edited = Reverse(list)
  BY <1>4, <1>6, Zenon DEF UndoneEdits
<1>10. PatchShows(g, t)
  BY <1>6, <1>7, <1>8, <1>9, Zenon
<1>11. HostedIn(t) = HostedIn(s)
  BY <1>5, PathKeepsHosted
<1>12. (\A i \in DOMAIN edited : edited[i].op = "entry") => g.nodes = nodes /\ g.cables = cables
  <2> SUFFICES ASSUME \A i \in DOMAIN edited : edited[i].op = "entry" PROVE g.nodes = nodes /\ g.cables = cables
    OBVIOUS
  <2>1. PICK D : list \in Seq(D)
    BY <1>5, Zenon DEF Patch!Path
  <2>2. Reverse(list) = Patch!Reverse(list)
    BY Zenon DEF Reverse, Patch!Reverse
  <2>3. edited \in Seq(D)
    BY <1>9, <2>1, <2>2, Patch!ReverseFacts, HistoryAssumption
  <2>4. FoldLeft(Restored, Graph, edited).nodes = Graph.nodes /\ FoldLeft(Restored, Graph, edited).cables = Graph.cables
    BY <2>3, GraphIsGraph, EntriesLeave
  <2> QED
    BY <1>6, <2>4, GraphParts, Zenon
<1>13. PICK h : h = Undone(history)
  OBVIOUS
<1>14. history' = h /\ Step(g, edited)
  BY <1>6, <1>13, Zenon DEF Undo
<1>15. h.depth = 0 /\ Patch!HistoryOf(h, t)
  BY <1>3, <1>13
<1> QED
  BY <1>1, <1>10, <1>11, <1>12, <1>14, <1>15, StepKept

\* Redo leads it forth again.
LEMMA RedoKeeps == ASSUME WorkspaceInv, Redo PROVE WorkspaceInv'
<1>1. PICK s : history.depth = 0 /\ PatchShows(Graph, s) /\ Patch!HistoryOf(history, s)
  BY Zenon DEF WorkspaceInv, Told
<1>2. Patch!CanRedo(history)
  BY Zenon DEF Redo, CanRedo, Patch!CanRedo
<1>3. PICK t : /\ Patch!Path(Patch!Last(history.future).edits, s, t)
               /\ Patch!HistoryOf(Redone(history), t) /\ Redone(history).depth = 0
  BY <1>1, <1>2, HistoryAssumption, Patch!RedoLeads, PatchOperations
<1>4. PICK list : list = Last(history.future).edits
  OBVIOUS
<1>5. Patch!Path(list, s, t)
  BY <1>3, <1>4, Zenon DEF Last, Patch!Last
<1>6. PICK g, edited : g = FoldLeft(Repeated, Graph, RedoneEdits(history)) /\ edited = RedoneEdits(history)
  OBVIOUS
<1>7. PatchShows(Patch!Remade(Graph, list), t)
  BY <1>1, <1>5, PatchForth, HistoryAssumption, Patch!ForthAlong
<1>8. FoldLeft(Repeated, Graph, list) = Patch!Remade(Graph, list)
  BY ZenonT(60) DEF Patch!Remade, FoldLeft, MapThenFoldSet, Patch!FoldLeft, Patch!MapThenFoldSet, Max, Patch!Max
<1>9. edited = list
  BY <1>4, <1>6, Zenon DEF RedoneEdits
<1>10. PatchShows(g, t)
  BY <1>6, <1>7, <1>8, <1>9, Zenon
<1>11. HostedIn(t) = HostedIn(s)
  BY <1>5, PathKeepsHosted
<1>12. (\A i \in DOMAIN edited : edited[i].op = "entry") => g.nodes = nodes /\ g.cables = cables
  <2> SUFFICES ASSUME \A i \in DOMAIN edited : edited[i].op = "entry" PROVE g.nodes = nodes /\ g.cables = cables
    OBVIOUS
  <2>1. PICK D : edited \in Seq(D)
    BY <1>5, <1>9, Zenon DEF Patch!Path
  <2>2. FoldLeft(Repeated, Graph, edited).nodes = Graph.nodes /\ FoldLeft(Repeated, Graph, edited).cables = Graph.cables
    BY <2>1, GraphIsGraph, EntriesLeave
  <2> QED
    BY <1>6, <2>2, GraphParts, Zenon
<1>13. PICK h : h = Redone(history)
  OBVIOUS
<1>14. history' = h /\ Step(g, edited)
  BY <1>6, <1>13, Zenon DEF Redo
<1>15. h.depth = 0 /\ Patch!HistoryOf(h, t)
  BY <1>3, <1>13
<1> QED
  BY <1>1, <1>10, <1>11, <1>12, <1>14, <1>15, StepKept

\* What is loaded is sound, whatever the file.
LEMMA LoadKeeps == ASSUME WorkspaceInv, NEW f \in ForeignFiles \cup {file}, NEW spawned, Load(f, spawned) PROVE WorkspaceInv'
<1>1. IsFile(f)
  <2>1. f # NoFile
    BY DEF Load
  <2> QED
    BY <2>1, WorkspaceAssumption DEF WorkspaceInv, Held
<1>2. PICK known : known = registry' /\ known = registry \cup f.archives
  BY DEF Load
<1>3. known \subseteq Ntp /\ installed \subseteq External
  BY <1>1, <1>2, InvParts DEF IsFile
<1>4. PICK now : now = Loaded(f, known, installed, spawned) /\ Become(now)
                 /\ history' = IF DOMAIN now.external = {} THEN Reset(history) ELSE Clear(history)
  BY <1>2, Zenon DEF Load
<1>5. LoadOK(now)
  BY <1>1, <1>3, <1>4, LoadedOK, Zenon
<1>6. nodes' = now.nodes /\ cables' = now.cables /\ dormant' = now.dormant /\ instance' = now.instance
      /\ external' = now.external /\ pending' = now.pending
  BY <1>4 DEF Become
<1>7. UNCHANGED <<installed, file>> /\ Publish
  BY DEF Load
<1>8. Rig'
  BY <1>5, <1>6, Zenon DEF Rig, LoadOK
<1>9. Held'
  BY <1>2, <1>3, <1>5, <1>6, <1>7 DEF WorkspaceInv, Held, LoadOK
<1>10. history' \in {Clear(history), Reset(history), NoHistory}
  BY <1>4
<1> QED
  BY <1>7, <1>8, <1>9, <1>10, Rebuilt

\* The workspace made blank.
LEMMA BlankKept ==
    ASSUME WorkspaceInv, Become(Blank), Publish, NEW h, history' \in {Clear(h), Reset(h), NoHistory},
           UNCHANGED file, registry' \subseteq Ntp, installed' \subseteq External
    PROVE  WorkspaceInv'
<1>1. PICK s : s = Blank
  OBVIOUS
<1>2. LoadOK(s)
  BY <1>1, BlankOK
<1>3. nodes' = s.nodes /\ cables' = s.cables /\ dormant' = s.dormant /\ instance' = s.instance
      /\ external' = s.external /\ pending' = s.pending
  BY <1>1 DEF Become
<1>4. Rig'
  BY <1>2, <1>3, Zenon DEF Rig, LoadOK
<1>5. Held'
  BY <1>2, <1>3 DEF WorkspaceInv, Held, LoadOK
<1> QED
  BY <1>4, <1>5, Rebuilt

\* A new project, and a restart.
LEMMA BlankKeeps == ASSUME WorkspaceInv, NewProject \/ Restart PROVE WorkspaceInv'
<1>1. CASE NewProject
  <2>1. Become(Blank) /\ Publish /\ history' = Reset(history) /\ UNCHANGED <<file, registry, installed>>
    BY <1>1 DEF NewProject, Elsewhere
  <2>2. registry' \subseteq Ntp /\ installed' \subseteq External
    BY <2>1, InvParts
  <2> QED
    BY <2>1, <2>2, BlankKept
<1>2. CASE Restart
  <2>1. /\ Become(Blank) /\ Publish /\ history' = NoHistory /\ UNCHANGED file
        /\ registry' \subseteq Ntp /\ installed' \subseteq External
    BY <1>2 DEF Restart
  <2> QED
    BY <2>1, BlankKept
<1> QED
  BY <1>1, <1>2

\* The program starts with the built-in nodes.
LEMMA InitHolds == ASSUME WorkspaceInit PROVE WorkspaceInv
<1>1. /\ nodes = Builtins /\ cables = <<>> /\ dormant = NoDormant /\ instance = <<>> /\ external = <<>>
      /\ pending = NoPending /\ history = NoHistory /\ file = NoFile
      /\ registry \subseteq Ntp /\ installed \subseteq External
      /\ published = [nodes |-> Shape(nodes), cables |-> cables, slot |-> NoNode]
  BY DEF WorkspaceInit
<1>2. GraphOK(nodes, cables) /\ Hosts(Shapes(nodes), instance, external)
  BY <1>1, BlankOK, Zenon
<1>3. IsDormant(dormant) /\ IsPending(pending)
  <2>1. IsList(<<>>)
    BY DEF IsList, Range
  <2> QED
    BY <1>1, <2>1, Zenon DEF NoDormant, NoPending, IsDormant, IsPending
<1>4. Told
  <2>1. PICK g : g = Graph
    OBVIOUS
  <2>2. PICK s : PatchShows(g, s)
    BY <1>2, <2>1, GraphShown, Zenon DEF Graph
  <2>3. Patch!HistoryOf(history, s)
    BY <1>1, HistoryAssumption, Patch!WipedIsHistory, PatchOperations
  <2>4. history.depth = 0
    BY <1>1 DEF NoHistory
  <2> QED
    BY <2>1, <2>2, <2>3, <2>4, Zenon DEF Told
<1>5. PublishedIsCurrent
  BY <1>1 DEF PublishedIsCurrent
<1> QED
  BY <1>1, <1>2, <1>3, <1>4, <1>5, Zenon DEF WorkspaceInv, Rig, Held

\* Every call of the session keeps the invariant.
LEMMA NextKeeps == ASSUME WorkspaceInv, WorkspaceNext PROVE WorkspaceInv'
<1>1. CASE \E p \in Ntp : AddPlugin(p)
  BY <1>1, AddPluginKeeps
<1>2. CASE \E x \in External, bridged, spawned \in BOOLEAN : AddExternal(x, bridged, spawned)
  BY <1>2, AddExternalKeeps
<1>3. CASE \E id \in DOMAIN external, spawned \in BOOLEAN : SetBridged(id, spawned)
  BY <1>3, SetBridgedKeeps
<1>4. CASE \E id \in Ids : RemoveWorkspaceNode(id)
  BY <1>4, RemoveKeeps
<1>5. CASE \E prefix \in NewUtilities : AddUtility(prefix)
  BY <1>5, AddUtilityKeeps, WorkspaceAssumption
<1>6. CASE \E wire \in Wires : AddCable(wire[1], wire[2], "tap")
  BY <1>6, AddCableKeeps
<1>7. CASE \E i \in DOMAIN cables : RemoveCable(cables[i].id)
  BY <1>7, RemoveCableKeeps
<1>8. CASE \E i \in DOMAIN cables, mode \in {"tap", "reroute"} : SetCableMode(cables[i].id, mode)
  BY <1>8, SetCableModeKeeps
<1>9. CASE \E entry \in Entries : SetInstrumentEntry(entry)
  BY <1>9, SetEntryKeeps
<1>10. CASE Undo \/ Redo
  BY <1>10, UndoKeeps, RedoKeeps
<1>11. CASE \E id \in DOMAIN instance : SetParam(id) \/ StageRuns(id)
  BY <1>11, SetParamKeeps, StageRunsKeeps
<1>12. CASE SetStrip(Len(nodes))
  BY <1>12, SetStripKeeps
<1>13. CASE \E id \in DOMAIN external : EditExternal(id)
  BY <1>13, EditExternalKeeps
<1>14. CASE \E id \in DOMAIN instance, field \in {"sample", "env"}, value \in {0, 1} : EditInstance(id, field, value)
  BY <1>14, EditInstanceKeeps
<1>15. CASE DeviceToggles \/ Save
  BY <1>15, DeviceKeeps, SaveKeeps
<1>16. CASE \E f \in ForeignFiles \cup {file}, spawned \in BOOLEAN : Load(f, spawned)
  BY <1>16, LoadKeeps
<1>17. CASE NewProject \/ Restart
  BY <1>17, BlankKeeps
<1> QED
  BY <1>1, <1>2, <1>3, <1>4, <1>5, <1>6, <1>7, <1>8, <1>9, <1>10, <1>11, <1>12, <1>13, <1>14, <1>15, <1>16, <1>17,
     Zenon DEF WorkspaceNext

\* And so does a step that leaves all as it was.
LEMMA StutterKeeps == ASSUME WorkspaceInv, UNCHANGED workspaceVars PROVE WorkspaceInv'
<1>1. UNCHANGED <<nodes, cables, slot, instance, external, dormant, pending, registry, installed, file, history, published>>
  BY DEF workspaceVars, graphVars
<1>2. Held'
  BY <1>1 DEF WorkspaceInv, Held
<1>3. Hosts(Shapes(nodes), instance', external')
  BY <1>1, InvParts
<1>4. UNCHANGED <<nodes, cables, slot>>
  BY <1>1
<1> QED
  BY <1>1, <1>2, <1>3, <1>4, GraphStays

\* The graph is one the compiler and the runner can take.
LEMMA InvIsSound == ASSUME WorkspaceInv PROVE GraphSound
<1>1. Cardinality(Ids) = Len(nodes)
  BY InvParts, DistinctCount, Zenon DEF Ids, AreNodes
<1>2. Cardinality({cables[i].id : i \in DOMAIN cables}) = Len(cables)
  BY InvParts, DistinctCount, Zenon DEF AreCables
<1>3. ASSUME NEW i \in DOMAIN cables PROVE CanConnect(nodes, <<>>, cables[i].src, cables[i].dst, 0)
  <2>1. PICK src, dst, c : c = cables[i] /\ src = c.src /\ dst = c.dst
    OBVIOUS
  <2>2. Fits(Shapes(nodes), src, dst)
    BY <2>1, InvParts DEF GraphOK
  <2>3. ~HasCable(<<>>, 0)
    BY DEF HasCable
  <2>4. CanConnect(nodes, <<>>, src, dst, 0)
    BY <2>2, <2>3, InvParts, ConnectsIfFits
  <2> QED
    BY <2>1, <2>4
<1>4. \A id, p : <<id, p>> \in Shapes(nodes) <=> \E i \in DOMAIN nodes : nodes[i].id = id /\ nodes[i].plugin = p
  <2> SUFFICES ASSUME NEW id, NEW p
               PROVE  <<id, p>> \in Shapes(nodes) <=> \E i \in DOMAIN nodes : nodes[i].id = id /\ nodes[i].plugin = p
    OBVIOUS
  <2>1. <<id, p>> \in Shapes(nodes) <=> \E i \in DOMAIN nodes : <<id, p>> = <<nodes[i].id, nodes[i].plugin>>
    BY InvParts, ShapesFacts
  <2>2. \A i \in DOMAIN nodes : <<id, p>> = <<nodes[i].id, nodes[i].plugin>> <=> nodes[i].id = id /\ nodes[i].plugin = p
    OBVIOUS
  <2> QED
    BY <2>1, <2>2, Zenon
<1>5. ASSUME NEW p \in Ntp
      PROVE  {nodes[i].id : i \in {j \in DOMAIN nodes : nodes[j].plugin = p}} = {id \in DOMAIN instance : instance[id].plugin = p}
  <2>1. \A id : (\E i \in DOMAIN nodes : nodes[i].id = id /\ nodes[i].plugin = p)
                  <=> id \in DOMAIN instance /\ instance[id].plugin = p
    <3>1. \A id : <<id, p>> \in Shapes(nodes) <=> id \in DOMAIN instance /\ instance[id].plugin = p
      BY <1>5, InvParts DEF Hosts
    <3>2. \A id : <<id, p>> \in Shapes(nodes) <=> \E i \in DOMAIN nodes : nodes[i].id = id /\ nodes[i].plugin = p
      BY <1>4
    <3> QED
      BY <3>1, <3>2
  <2> QED
    BY <2>1
<1>6. ASSUME NEW p \in External
      PROVE  {nodes[i].id : i \in {j \in DOMAIN nodes : nodes[j].plugin = p}} = {id \in DOMAIN external : external[id].plugin = p}
  <2>1. \A id : (\E i \in DOMAIN nodes : nodes[i].id = id /\ nodes[i].plugin = p)
                  <=> id \in DOMAIN external /\ external[id].plugin = p
    <3>1. \A id : <<id, p>> \in Shapes(nodes) <=> id \in DOMAIN external /\ external[id].plugin = p
      BY <1>6, InvParts DEF Hosts
    <3>2. \A id : <<id, p>> \in Shapes(nodes) <=> \E i \in DOMAIN nodes : nodes[i].id = id /\ nodes[i].plugin = p
      BY <1>4
    <3> QED
      BY <3>1, <3>2
  <2> QED
    BY <2>1
<1> QED
  BY <1>1, <1>2, <1>3, <1>5, <1>6, Zenon DEF GraphSound

\* Undoing all the history holds, and redoing it, gives the graph back.
LEMMA InvIsReversible == ASSUME WorkspaceInv PROVE HistoryReversible
<1>1. PICK s : history.depth = 0 /\ PatchShows(Graph, s) /\ Patch!HistoryOf(history, s)
  BY Zenon DEF WorkspaceInv, Told
<1>2. Patch!Past(history.past, s)
  <2>1. history.group = <<>>
    BY <1>1, Zenon DEF Patch!HistoryOf, Patch!IsHistory
  <2> QED
    BY <1>1, <2>1, Patch!OutsideGroup, HistoryAssumption
<1>3. PICK t : Patch!Path(Patch!EditsOf(history.past), t, s)
  BY <1>2, Patch!PastIsPath, HistoryAssumption
<1>4. PICK list : list = AllEdits
  OBVIOUS
<1>5. list = Patch!EditsOf(history.past)
  BY <1>4, ZenonT(60) DEF AllEdits, Patch!EditsOf, FoldLeft, MapThenFoldSet, Patch!FoldLeft, Patch!MapThenFoldSet,
     Max, Patch!Max
<1>6. Patch!Path(list, t, s)
  BY <1>3, <1>5, Zenon
<1>7. PatchShows(Patch!Unmade(Graph, list), t)
  BY <1>1, <1>6, PatchBack, HistoryAssumption, Patch!BackAlong
<1>8. PICK undone, redone : undone = FoldLeft(Restored, Graph, Reverse(list)) /\ redone = FoldLeft(Repeated, undone, list)
  OBVIOUS
<1>9. FoldLeft(Restored, Graph, Reverse(list)) = Patch!Unmade(Graph, list)
  BY ZenonT(60) DEF Patch!Unmade, FoldLeft, MapThenFoldSet, Patch!FoldLeft, Patch!MapThenFoldSet, Max, Patch!Max,
                    Reverse, Patch!Reverse
<1>10. PatchShows(undone, t)
  BY <1>7, <1>8, <1>9, Zenon
<1>11. PatchShows(Patch!Remade(undone, list), s)
  BY <1>6, <1>10, PatchForth, HistoryAssumption, Patch!ForthAlong
<1>12. FoldLeft(Repeated, undone, list) = Patch!Remade(undone, list)
  BY ZenonT(60) DEF Patch!Remade, FoldLeft, MapThenFoldSet, Patch!FoldLeft, Patch!MapThenFoldSet, Max, Patch!Max
<1>13. PatchShows(redone, s)
  BY <1>8, <1>11, <1>12, Zenon
<1>14. Windowless(redone) = Windowless(Graph)
  <2>1. /\ Shapes(redone.nodes) = Shapes(Graph.nodes) /\ Range(redone.cables) = Range(Graph.cables)
        /\ redone.slot = Graph.slot
    BY <1>1, <1>13, Zenon DEF PatchShows
  <2> QED
    BY <2>1, Zenon DEF Windowless, Shapes
<1> QED
  BY <1>4, <1>8, <1>14, Zenon DEF HistoryReversible

\* The invariant of the workspace: ids tell nodes and cables apart, the cables fit, the nodes of plugins are those
\* that have one, what waits is lists, and the entries of the history lead up to the graph.
THEOREM WorkspaceInvariant == WorkspaceSpec => []WorkspaceInv
<1>1. WorkspaceInit => WorkspaceInv
  BY InitHolds
<1>2. WorkspaceInv /\ [WorkspaceNext]_workspaceVars => WorkspaceInv'
  BY NextKeeps, StutterKeeps
<1> QED
  BY <1>1, <1>2, PTL DEF WorkspaceSpec

\* The graph is one the compiler and the runner can take, whatever was loaded, undone or removed.
THEOREM GraphSoundHolds == WorkspaceSpec => []GraphSound
BY WorkspaceInvariant, InvIsSound, PTL

\* What the audio thread renders is the graph on the screen.
THEOREM PublishedIsCurrentHolds == WorkspaceSpec => []PublishedIsCurrent
<1>1. WorkspaceInv => PublishedIsCurrent
  BY DEF WorkspaceInv
<1> QED
  BY <1>1, WorkspaceInvariant, PTL

\* No call the history does not take pulls the ground from under one that it does.
THEOREM HistoryReversibleHolds == WorkspaceSpec => []HistoryReversible
BY WorkspaceInvariant, InvIsReversible, PTL
==============================================================================
