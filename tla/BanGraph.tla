------------------------------ MODULE BanGraph ------------------------------
(***************************************************************************)
(* The reasoning graph of internal/ban/graph.go: typed nodes found by      *)
(* identifier and by semantic fingerprint, and a set of directed edges.    *)
(* AddNode and AddEdge each hold the graph's mutex for their whole body,   *)
(* so each is one atomic step.  The statuses live in the nodes, which      *)
(* AddNode and Get hand out as pointers: a holder writes them without the  *)
(* mutex.                                                                  *)
(***************************************************************************)
EXTENDS Naturals, FiniteSets

CONSTANTS
    Ids,           \* identifiers callers may pass to the graph
    NoId,          \* the absent identifier
    Fingerprints,  \* semantic fingerprints of proposals
    Answers,       \* answer fingerprints
    AnswerOf,      \* the answer fingerprint of each semantic fingerprint
    Statuses,      \* statuses a holder of a node may write
    MaxDepth,
    MaxNodes

ASSUME GraphAssumption ==
    /\ NoId \notin Ids
    /\ AnswerOf \in [Fingerprints -> Answers]
    /\ {"PROPOSED", "PRUNED"} \subseteq Statuses
    /\ MaxDepth \in Nat
    /\ MaxNodes \in Nat

VARIABLES
    nodes,   \* identifier -> node, for the stored identifiers
    edges,   \* stored <<from, to>> pairs
    status   \* identifier -> status of the node

graphVars == <<nodes, edges, status>>

Stored == DOMAIN nodes

NodeRecords == [fp : Fingerprints, depth : 0..MaxDepth,
                convergesWith : Ids \cup {NoId}]

-----------------------------------------------------------------------------
(***************************************************************************)
(* Reading the graph.                                                      *)
(***************************************************************************)

\* The node that already carries the fingerprint, or NoId.
HolderOf(fp) ==
    IF \E n \in Stored : nodes[n].fp = fp
    THEN CHOOSE n \in Stored : nodes[n].fp = fp
    ELSE NoId

\* Faulty: every new node takes over the answer index.
FirstWithAnswerOverwritten(a) ==
    IF \E n \in Stored : AnswerOf[nodes[n].fp] = a
    THEN CHOOSE n \in Stored : /\ AnswerOf[nodes[n].fp] = a
                               /\ \A m \in Stored : nodes[m].convergesWith # n
    ELSE NoId

\* The node recorded first for an answer: later nodes with that answer are
\* marked as converging with it and leave the answer index alone.
FirstWithAnswer(a) ==
    IF \E n \in Stored : AnswerOf[nodes[n].fp] = a
    THEN CHOOSE n \in Stored : /\ AnswerOf[nodes[n].fp] = a
                               /\ nodes[n].convergesWith = NoId
    ELSE NoId

\* No edge leaves S.
Closed(S, es) == \A e \in es : e[1] \in S => e[2] \in S

\* The depth-first search of reaches finds b from a exactly when b is in
\* every closed set around a.
Reaches(a, b) ==
    \A S \in SUBSET (Stored \cup {a}) : a \in S /\ Closed(S, edges) => b \in S

-----------------------------------------------------------------------------
(***************************************************************************)
(* Operations.                                                             *)
(***************************************************************************)

\* Faulty: the node budget is compared one too late.
AddNodeResultOverBudget(id, fp, depth) ==
    IF depth > MaxDepth                        THEN "maximum depth exceeded"
    ELSE IF HolderOf(fp) # NoId                THEN "duplicate"
    ELSE IF Cardinality(Stored) > MaxNodes     THEN "maximum nodes exceeded"
    ELSE IF id \in Stored                      THEN "duplicate id"
    ELSE "added"

\* Faulty: only identifiers are compared.
AddNodeResultById(id, fp, depth) ==
    IF depth > MaxDepth                        THEN "maximum depth exceeded"
    ELSE IF Cardinality(Stored) >= MaxNodes    THEN "maximum nodes exceeded"
    ELSE IF id \in Stored                      THEN "duplicate id"
    ELSE "added"

\* The checks of AddNode, in its order.
AddNodeResult(id, fp, depth) ==
    IF depth > MaxDepth                        THEN "maximum depth exceeded"
    ELSE IF HolderOf(fp) # NoId                THEN "duplicate"
    ELSE IF Cardinality(Stored) >= MaxNodes    THEN "maximum nodes exceeded"
    ELSE IF id \in Stored                      THEN "duplicate id"
    ELSE "added"

NodeErrors == {"maximum depth exceeded", "maximum nodes exceeded", "duplicate id"}

\* The node AddNode returns: the existing one for a duplicate.
AddNodeReturns(id, fp) == IF HolderOf(fp) # NoId THEN HolderOf(fp) ELSE id

Extend(f, k, v) == [x \in DOMAIN f \cup {k} |-> IF x = k THEN v ELSE f[x]]

Insert(id, fp, depth) ==
    /\ nodes' = Extend(nodes, id, [fp |-> fp, depth |-> depth,
                                   convergesWith |-> FirstWithAnswer(AnswerOf[fp])])
    /\ status' = Extend(status, id, "PROPOSED")
    /\ UNCHANGED edges

AddNode(id, fp, depth) ==
    IF AddNodeResult(id, fp, depth) = "added"
    THEN Insert(id, fp, depth)
    ELSE UNCHANGED graphVars

\* Faulty: edges may leave the graph.
AddEdgeResultUnchecked(from, to) ==
    IF from = to \/ Reaches(to, from) THEN "cycle rejected" ELSE "ok"

\* Faulty: only an edge back to its own source is a cycle.
AddEdgeResultLoopsOnly(from, to) ==
    IF from = to                        THEN "cycle rejected"
    ELSE IF {from, to} \subseteq Stored THEN "ok"
    ELSE "unknown node"

AddEdgeResult(from, to) ==
    IF from = to \/ Reaches(to, from)   THEN "cycle rejected"
    ELSE IF {from, to} \subseteq Stored THEN "ok"
    ELSE "unknown node"

\* An edge that exists already is accepted and not stored again.
AddEdge(from, to) ==
    /\ edges' = IF AddEdgeResult(from, to) = "ok"
                THEN edges \cup {<<from, to>>}
                ELSE edges
    /\ UNCHANGED <<nodes, status>>

Prune(id) ==
    /\ status' = IF id \in Stored THEN [status EXCEPT ![id] = "PRUNED"] ELSE status
    /\ UNCHANGED <<nodes, edges>>

\* Any holder of node pointers may write their statuses.
WriteStatus ==
    /\ status' \in [Stored -> Statuses]
    /\ UNCHANGED <<nodes, edges>>

-----------------------------------------------------------------------------
Init ==
    /\ nodes = [n \in {} |-> NoId]
    /\ edges = {}
    /\ status = [n \in {} |-> "PROPOSED"]

Next ==
    \/ \E id \in Ids, fp \in Fingerprints, d \in 0..(MaxDepth + 1) : AddNode(id, fp, d)
    \/ \E from, to \in Ids : AddEdge(from, to)
    \/ \E id \in Ids : Prune(id)
    \/ WriteStatus

Spec == Init /\ [][Next]_graphVars

-----------------------------------------------------------------------------
(***************************************************************************)
(* Properties.                                                             *)
(***************************************************************************)

\* The stored nodes, edges and statuses fit together: every edge joins two
\* stored nodes and exactly the stored nodes have a status.
TypeOK ==
    /\ IsFiniteSet(Stored)
    /\ Stored \subseteq Ids
    /\ nodes \in [Stored -> NodeRecords]
    /\ edges \subseteq Stored \X Stored
    /\ status \in [Stored -> Statuses]

\* However AddNode and AddEdge calls interleave, no edge closes a path back
\* to its source: the traces of a run and the recursion of reaches rely on it.
Acyclic == \A e \in edges : ~ Reaches(e[2], e[1])

\* The node budget of a run is never exceeded.
NodeBound == Cardinality(Stored) <= MaxNodes

\* Two stored nodes never carry the same semantic fingerprint, whatever
\* identifiers callers choose (graph.go drops the second as a duplicate).
DistinctFingerprints ==
    \A m, n \in Stored : nodes[m].fp = nodes[n].fp => m = n

\* Nodes with one answer converge on the single first node of that answer, in
\* one hop: the answer index never moves to a later node.
ConvergenceIsFlat ==
    /\ \A n \in Stored : nodes[n].convergesWith # NoId =>
          LET first == nodes[n].convergesWith
          IN  /\ first \in Stored
              /\ AnswerOf[nodes[first].fp] = AnswerOf[nodes[n].fp]
              /\ nodes[first].convergesWith = NoId
    /\ \A m, n \in Stored :
          /\ AnswerOf[nodes[m].fp] = AnswerOf[nodes[n].fp]
          /\ nodes[m].convergesWith = NoId
          /\ nodes[n].convergesWith = NoId
          => m = n
=============================================================================
