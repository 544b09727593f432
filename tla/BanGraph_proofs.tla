-------------------------- MODULE BanGraph_proofs --------------------------
(***************************************************************************)
(* What the graph guarantees whatever its callers do, for every set of     *)
(* identifiers, fingerprints and statuses and all bounds.                  *)
(*                                                                         *)
(* A step either leaves the nodes alone or is an Insert that passed the    *)
(* checks of AddNode, so the invariants about nodes need one lemma on      *)
(* Insert.  TypeOK is not inductive alone: the node FirstWithAnswer        *)
(* chooses exists only because of ConvergenceIsFlat.                       *)
(***************************************************************************)
EXTENDS BanGraph, FiniteSetTheorems, TLAPS

\* The facts about nodes, inductive together.
NodeInv == TypeOK /\ NodeBound /\ DistinctFingerprints /\ ConvergenceIsFlat

-----------------------------------------------------------------------------
\* AddNode either refuses and changes nothing, or every check has passed.
LEMMA AddNodeCases ==
    ASSUME TypeOK,
           NEW id \in Ids, NEW fp \in Fingerprints, NEW d \in Nat,
           AddNode(id, fp, d)
    PROVE  \/ UNCHANGED graphVars
           \/ /\ d \in 0..MaxDepth
              /\ \A n \in Stored : nodes[n].fp # fp
              /\ Cardinality(Stored) < MaxNodes
              /\ id \notin Stored
              /\ Insert(id, fp, d)
<1>1. CASE AddNodeResult(id, fp, d) # "added"
    BY <1>1 DEF AddNode
<1>2. CASE AddNodeResult(id, fp, d) = "added"
    <2>1. /\ d <= MaxDepth
          /\ HolderOf(fp) = NoId
          /\ ~ (Cardinality(Stored) >= MaxNodes)
          /\ id \notin Stored
        BY <1>2, GraphAssumption DEF AddNodeResult
    <2>2. ASSUME NEW n \in Stored, nodes[n].fp = fp PROVE FALSE
        <3>1. HolderOf(fp) \in Stored
            BY <2>2 DEF HolderOf
        <3> QED
            BY <3>1, <2>1, GraphAssumption DEF TypeOK
    <2>3. Cardinality(Stored) \in Nat
        BY FS_CardinalityType DEF TypeOK
    <2>4. Cardinality(Stored) < MaxNodes /\ d \in 0..MaxDepth
        BY <2>1, <2>3, GraphAssumption
    <2>5. Insert(id, fp, d)
        BY <1>2 DEF AddNode
    <2> QED
        BY <2>1, <2>2, <2>4, <2>5
<1> QED
    BY <1>1, <1>2

\* The node an answer converges with is the unconverged one of that answer.
LEMMA FirstOfAnswer ==
    ASSUME TypeOK, ConvergenceIsFlat, NEW a
    PROVE  \/ /\ FirstWithAnswer(a) = NoId
              /\ \A n \in Stored : AnswerOf[nodes[n].fp] # a
           \/ /\ FirstWithAnswer(a) \in Stored
              /\ AnswerOf[nodes[FirstWithAnswer(a)].fp] = a
              /\ nodes[FirstWithAnswer(a)].convergesWith = NoId
<1>1. CASE \A n \in Stored : AnswerOf[nodes[n].fp] # a
    BY <1>1 DEF FirstWithAnswer
<1>2. ASSUME NEW n \in Stored, AnswerOf[nodes[n].fp] = a
      PROVE  /\ FirstWithAnswer(a) \in Stored
             /\ AnswerOf[nodes[FirstWithAnswer(a)].fp] = a
             /\ nodes[FirstWithAnswer(a)].convergesWith = NoId
    <2>1. \E m \in Stored : AnswerOf[nodes[m].fp] = a /\ nodes[m].convergesWith = NoId
        BY <1>2 DEF ConvergenceIsFlat
    <2> QED
        BY <1>2, <2>1 DEF FirstWithAnswer
<1> QED
    BY <1>1, <1>2

\* An insertion that passed the checks keeps the facts about nodes.
LEMMA InsertNode ==
    ASSUME NodeInv,
           NEW id \in Ids, NEW fp \in Fingerprints, NEW d \in 0..MaxDepth,
           \A n \in Stored : nodes[n].fp # fp,
           Cardinality(Stored) < MaxNodes,
           id \notin Stored,
           Insert(id, fp, d)
    PROVE  NodeInv'
<1> DEFINE first == FirstWithAnswer(AnswerOf[fp])
           node  == [fp |-> fp, depth |-> d, convergesWith |-> first]
<1>1. /\ Stored' = Stored \cup {id}
      /\ nodes'[id] = node
      /\ \A n \in Stored : nodes'[n] = nodes[n]
    BY DEF Insert, Extend, Stored
<1>2. /\ DOMAIN status' = Stored \cup {id}
      /\ status'[id] = "PROPOSED"
      /\ \A n \in Stored : status'[n] = status[n]
    BY DEF Insert, Extend, NodeInv, TypeOK
<1>3. \/ first = NoId /\ \A n \in Stored : AnswerOf[nodes[n].fp] # AnswerOf[fp]
      \/ /\ first \in Stored
         /\ AnswerOf[nodes[first].fp] = AnswerOf[fp]
         /\ nodes[first].convergesWith = NoId
    BY FirstOfAnswer DEF NodeInv
<1>4. TypeOK'
    <2>1. IsFiniteSet(Stored') /\ Stored' \subseteq Ids
        BY <1>1, FS_AddElement DEF NodeInv, TypeOK
    <2>2. node \in NodeRecords
        BY <1>3 DEF NodeRecords, NodeInv, TypeOK
    <2>3. nodes' = [n \in Stored' |-> nodes'[n]]
        BY DEF Insert, Extend, Stored
    <2>4. nodes' \in [Stored' -> NodeRecords]
        BY <1>1, <2>2, <2>3 DEF NodeInv, TypeOK
    <2>5. edges' \subseteq Stored' \X Stored'
        BY <1>1 DEF Insert, NodeInv, TypeOK
    <2>6. status' = [n \in Stored' |-> status'[n]]
        BY <1>1 DEF Insert, Extend, NodeInv, TypeOK
    <2>7. status' \in [Stored' -> Statuses]
        BY <1>1, <1>2, <2>6, GraphAssumption DEF NodeInv, TypeOK
    <2> QED
        BY <2>1, <2>4, <2>5, <2>7 DEF TypeOK, NodeRecords
<1>5. NodeBound'
    <2>1. Cardinality(Stored') = Cardinality(Stored) + 1 /\ Cardinality(Stored) \in Nat
        BY <1>1, FS_AddElement, FS_CardinalityType DEF NodeInv, TypeOK
    <2> QED
        BY <2>1, GraphAssumption DEF NodeBound
<1>6. DistinctFingerprints'
    BY <1>1 DEF DistinctFingerprints, NodeInv
<1>7. ConvergenceIsFlat'
    BY <1>1, <1>3, GraphAssumption DEF ConvergenceIsFlat, NodeInv, TypeOK
<1> QED
    BY <1>4, <1>5, <1>6, <1>7 DEF NodeInv

\* The empty graph satisfies it.
LEMMA NodeInvInit == Init => NodeInv
<1> SUFFICES ASSUME Init PROVE NodeInv
    OBVIOUS
<1>1. Stored = {}
    BY DEF Init, Stored
<1>2. IsFiniteSet(Stored) /\ Cardinality(Stored) = 0
    BY <1>1, FS_EmptySet
<1>3. TypeOK
    BY <1>1, <1>2 DEF Init, TypeOK
<1> QED
    BY <1>1, <1>2, <1>3, GraphAssumption
    DEF NodeInv, NodeBound, DistinctFingerprints, ConvergenceIsFlat

\* A step that touches only edges and statuses keeps the facts about nodes.
LEMMA NodesUntouched ==
    ASSUME NodeInv, UNCHANGED nodes,
           edges' \subseteq Stored \X Stored,
           status' \in [Stored -> Statuses]
    PROVE  NodeInv'
BY DEF NodeInv, TypeOK, NodeBound, DistinctFingerprints, ConvergenceIsFlat,
       Stored, NodeRecords

\* Every operation of the graph preserves it.
LEMMA NodeInvStep == NodeInv /\ [Next]_graphVars => NodeInv'
<1> SUFFICES ASSUME NodeInv, [Next]_graphVars PROVE NodeInv'
    OBVIOUS
<1> USE DEF NodeInv
<1>1. ASSUME NEW id \in Ids, NEW fp \in Fingerprints, NEW d \in 0..(MaxDepth + 1),
             AddNode(id, fp, d)
      PROVE  NodeInv'
    <2>1. d \in Nat
        BY GraphAssumption
    <2>2. CASE UNCHANGED graphVars
        BY <2>2, NodesUntouched DEF graphVars, TypeOK
    <2> QED
        BY <1>1, <2>1, <2>2, AddNodeCases, InsertNode
<1>2. ASSUME NEW from \in Ids, NEW to \in Ids, AddEdge(from, to)
      PROVE  NodeInv'
    <2>1. edges' \subseteq Stored \X Stored
        BY <1>2 DEF AddEdge, AddEdgeResult, TypeOK
    <2> QED
        BY <1>2, <2>1, NodesUntouched DEF AddEdge, TypeOK
<1>3. ASSUME NEW id \in Ids, Prune(id) PROVE NodeInv'
    BY <1>3, NodesUntouched, GraphAssumption DEF Prune, TypeOK
<1>4. CASE WriteStatus
    BY <1>4, NodesUntouched DEF WriteStatus, TypeOK
<1>5. CASE UNCHANGED graphVars
    BY <1>5, NodesUntouched DEF graphVars, TypeOK
<1> QED
    BY <1>1, <1>2, <1>3, <1>4, <1>5 DEF Next

\* The graph's data fit together in every behaviour: each edge joins stored
\* nodes, each convergence names an identifier, depths stay within the bound.
THEOREM TypeCorrect == Spec => []TypeOK
<1>1. NodeInv => TypeOK
    BY DEF NodeInv
<1> QED
    BY <1>1, NodeInvInit, NodeInvStep, PTL DEF Spec

\* The node budget holds whatever callers ask for.
THEOREM NodeBoundHolds == Spec => []NodeBound
<1>1. NodeInv => NodeBound
    BY DEF NodeInv
<1> QED
    BY <1>1, NodeInvInit, NodeInvStep, PTL DEF Spec

\* No two stored nodes carry one semantic fingerprint, for every choice of
\* identifiers by the callers.
THEOREM FingerprintsStayDistinct == Spec => []DistinctFingerprints
<1>1. NodeInv => DistinctFingerprints
    BY DEF NodeInv
<1> QED
    BY <1>1, NodeInvInit, NodeInvStep, PTL DEF Spec

\* Nodes of one answer converge on its first node, in one hop, for ever.
THEOREM ConvergenceStaysFlat == Spec => []ConvergenceIsFlat
<1>1. NodeInv => ConvergenceIsFlat
    BY DEF NodeInv
<1> QED
    BY <1>1, NodeInvInit, NodeInvStep, PTL DEF Spec

-----------------------------------------------------------------------------
(***************************************************************************)
(* No cycles.  That b cannot be reached from a is witnessed by a closed    *)
(* set around a without b.  The check of AddEdge(from, to) provides a      *)
(* closed T around to without from; with T, a witness S for an old edge    *)
(* yields one that the new edge does not leave.                            *)
(***************************************************************************)

\* S separates b from a in a graph with edges es and nodes in ns.
Separates(S, a, b, es) == a \in S /\ b \notin S /\ Closed(S, es)

\* Unless b is reached from a, some closed set around a keeps b out.
LEMMA SeparatedOrReached ==
    ASSUME NEW a, NEW b
    PROVE  ~ Reaches(a, b) <=>
              \E S \in SUBSET (Stored \cup {a}) : Separates(S, a, b, edges)
BY DEF Reaches, Separates

\* Storing a node leaves every witness of an old edge in place.
LEMMA InsertKeepsAcyclic ==
    ASSUME TypeOK, Acyclic, UNCHANGED edges, Stored \subseteq Stored'
    PROVE  Acyclic'
<1> SUFFICES ASSUME NEW e \in edges PROVE (~ Reaches(e[2], e[1]))'
    BY DEF Acyclic
<1>1. PICK S \in SUBSET (Stored \cup {e[2]}) : Separates(S, e[2], e[1], edges)
    BY SeparatedOrReached DEF Acyclic
<1>2. S \in SUBSET (Stored' \cup {e[2]})
    BY <1>1
<1> QED
    BY <1>1, <1>2 DEF Reaches, Separates

\* The edge that passed the check of AddEdge closes no cycle.
LEMMA EdgeKeepsAcyclic ==
    ASSUME TypeOK, Acyclic, NEW from \in Stored, NEW to \in Stored,
           ~ Reaches(to, from),
           edges' = edges \cup {<<from, to>>},
           UNCHANGED nodes
    PROVE  Acyclic'
<1> DEFINE Avoids(S, a, b) == Separates(S, a, b, edges \cup {<<from, to>>})
<1>1. PICK T \in SUBSET (Stored \cup {to}) : Separates(T, to, from, edges)
    BY SeparatedOrReached
<1>2. ASSUME NEW e \in edges \cup {<<from, to>>}
      PROVE  \E S \in SUBSET (Stored \cup {e[2]}) : Avoids(S, e[2], e[1])
    <2>1. CASE e = <<from, to>>
        BY <1>1, <2>1 DEF Separates, Closed
    <2>2. CASE e \in edges
        <3>1. e[1] \in Stored /\ e[2] \in Stored
            BY <2>2 DEF TypeOK
        <3>2. PICK S \in SUBSET (Stored \cup {e[2]}) : Separates(S, e[2], e[1], edges)
            BY <2>2, SeparatedOrReached DEF Acyclic
        <3>3. CASE from \notin S
            BY <3>2, <3>3 DEF Separates, Closed
        <3>4. CASE from \in S /\ e[2] \in T
            <4>1. Avoids(S \cap T, e[2], e[1])
                BY <1>1, <3>2, <3>4 DEF Separates, Closed
            <4> QED
                BY <4>1, <3>2
        <3>5. CASE from \in S /\ e[2] \notin T
            <4>1. e[1] \notin T
                BY <1>1, <2>2, <3>5 DEF Separates, Closed
            <4>2. Avoids(S \cup T, e[2], e[1])
                BY <1>1, <3>2, <4>1 DEF Separates, Closed
            <4>3. S \cup T \in SUBSET (Stored \cup {e[2]})
                BY <1>1, <3>2
            <4> QED
                BY <4>2, <4>3
        <3> QED
            BY <3>3, <3>4, <3>5
    <2> QED
        BY <2>1, <2>2
<1>3. Stored' = Stored
    BY DEF Stored
<1> QED
    BY <1>2, <1>3 DEF Acyclic, Reaches, Separates

\* No interleaving of AddNode and AddEdge calls ever closes a cycle.
THEOREM AcyclicHolds == Spec => []Acyclic
<1>1. Init => Acyclic
    BY DEF Init, Acyclic
<1>2. NodeInv /\ Acyclic /\ [Next]_graphVars => Acyclic'
    <2> SUFFICES ASSUME NodeInv, Acyclic, [Next]_graphVars PROVE Acyclic'
        OBVIOUS
    <2> USE DEF NodeInv
    <2>1. ASSUME NEW id \in Ids, NEW fp \in Fingerprints, NEW d \in 0..(MaxDepth + 1),
                 AddNode(id, fp, d)
          PROVE  Acyclic'
        <3>1. UNCHANGED edges /\ Stored \subseteq Stored'
            BY <2>1 DEF AddNode, Insert, Extend, graphVars, Stored
        <3> QED
            BY <3>1, InsertKeepsAcyclic
    <2>2. ASSUME NEW from \in Ids, NEW to \in Ids, AddEdge(from, to)
          PROVE  Acyclic'
        <3>1. CASE AddEdgeResult(from, to) = "ok"
            <4>1. from \in Stored /\ to \in Stored /\ ~ Reaches(to, from)
                BY <3>1 DEF AddEdgeResult
            <4> QED
                BY <2>2, <3>1, <4>1, EdgeKeepsAcyclic DEF AddEdge
        <3>2. CASE AddEdgeResult(from, to) # "ok"
            BY <2>2, <3>2, InsertKeepsAcyclic DEF AddEdge, Stored
        <3> QED
            BY <3>1, <3>2
    <2>3. CASE UNCHANGED <<nodes, edges>>
        BY <2>3, InsertKeepsAcyclic DEF Stored
    <2> QED
        BY <2>1, <2>2, <2>3 DEF Next, Prune, WriteStatus, graphVars
<1> QED
    BY <1>1, <1>2, NodeInvInit, NodeInvStep, PTL DEF Spec
=============================================================================
