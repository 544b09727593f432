------------------------- MODULE Selection_proofs -------------------------
(***************************************************************************)
(* For every size of the search, what a run of the engine does to its      *)
(* graph, what it selects, rejects and learns, and what the row of an      *)
(* experiment may tell of it.                                              *)
(*                                                                         *)
(* A run changes its graph by the graph's own operations only (it          *)
(* implements BanGraph), and inherits what BanGraph_proofs shows.  For     *)
(* this EngineInv joins the facts about the graph's nodes to LoopInv: the  *)
(* lists and indices of Run refer to stored branches, and the identifiers  *)
(* it invents stay within Ids.                                             *)
(*                                                                         *)
(* RunInv adds to EngineInv, one on top of the other: the types of the     *)
(* evidence (EvidenceTypes); that no branch is listed twice and a branch   *)
(* that awaits its evaluation is as AddNode left it (ListInv); that the    *)
(* place the run has reached tells which branches have a verdict, each     *)
(* with one measurement, and that every branch is pruned or listed         *)
(* (CaseInv); that the lists are tried in descending order (OrderInv);     *)
(* what the wells have learned; and the result (ResultInv).                *)
(***************************************************************************)
EXTENDS PairedRow, FiniteSetTheorems, SequenceTheorems, TLAPS

GraphProofs == INSTANCE BanGraph_proofs

-----------------------------------------------------------------------------
(***************************************************************************)
(* The graph's theorems, read as statements about the engine's graph.      *)
(***************************************************************************)

GraphInv == /\ Graph!TypeOK
            /\ Graph!NodeBound
            /\ Graph!DistinctFingerprints
            /\ Graph!ConvergenceIsFlat

\* The invariant of the graph module and the one over the run's variables are
\* the same formula.
LEMMA SameInv == GraphProofs!NodeInv <=> GraphInv
BY DEF GraphInv, GraphProofs!NodeInv,
       GraphProofs!TypeOK, Graph!TypeOK,
       GraphProofs!NodeBound, Graph!NodeBound,
       GraphProofs!DistinctFingerprints, Graph!DistinctFingerprints,
       GraphProofs!ConvergenceIsFlat, Graph!ConvergenceIsFlat,
       GraphProofs!NodeRecords, Graph!NodeRecords,
       GraphProofs!Stored, Graph!Stored,
       GraphProofs!IsFiniteSet, Graph!IsFiniteSet,
       GraphProofs!Cardinality, Graph!Cardinality

\* So are the initial states ...
LEMMA SameInit == GraphProofs!Init <=> Graph!Init
BY DEF GraphProofs!Init, Graph!Init

\* ... and the steps.
LEMMA SameNext == [GraphProofs!Next]_(GraphProofs!graphVars) <=> [Graph!Next]_(Graph!graphVars)
BY DEF GraphProofs!Next, Graph!Next, GraphProofs!AddNode, Graph!AddNode,
       GraphProofs!AddEdge, Graph!AddEdge, GraphProofs!Prune, Graph!Prune,
       GraphProofs!WriteStatus, Graph!WriteStatus,
       GraphProofs!AddNodeResult, Graph!AddNodeResult,
       GraphProofs!AddEdgeResult, Graph!AddEdgeResult,
       GraphProofs!HolderOf, Graph!HolderOf,
       GraphProofs!FirstWithAnswer, Graph!FirstWithAnswer,
       GraphProofs!Insert, Graph!Insert, GraphProofs!Extend, Graph!Extend,
       GraphProofs!Reaches, Graph!Reaches, GraphProofs!Closed, Graph!Closed,
       GraphProofs!Stored, Graph!Stored,
       GraphProofs!Cardinality, Graph!Cardinality,
       GraphProofs!graphVars, Graph!graphVars

\* The identifiers and statuses of a run satisfy what the graph assumes.
LEMMA GraphConstants == GraphProofs!GraphAssumption
BY SearchAssumption DEF GraphProofs!GraphAssumption, Ids, NoId, Statuses

\* An empty graph satisfies the graph's invariant.
LEMMA GraphInvInit == Graph!Init => GraphInv
BY GraphConstants, GraphProofs!NodeInvInit, SameInit, SameInv

\* Every step of the graph preserves it.
LEMMA GraphInvStep == GraphInv /\ [Graph!Next]_(Graph!graphVars) => GraphInv'
<1>1. (GraphProofs!NodeInv)' <=> GraphInv'
    BY SameInv, PTL
<1> QED
    BY <1>1, GraphConstants, GraphProofs!NodeInvStep, SameNext, SameInv

-----------------------------------------------------------------------------
(***************************************************************************)
(* The lists and indices of Run.                                           *)
(***************************************************************************)

LoopInv ==
    /\ pending \in Seq(Fingerprints)
    /\ batch \in Seq(Stored)
    /\ candidates \in Seq(Stored)
    /\ at \in Nat \ {0}
    /\ linking.node \in Stored \cup {NoId}
    /\ winner \in Stored \cup {NoId}
    /\ pc = "store" => at + Len(pending) <= InitialBranches + 1
    /\ pc = "generate" => at = 1
    /\ pc = "regenerate" => Len(batch) < RetainBranches
    /\ pc \in {"child", "link"} => at <= Len(candidates)
    /\ pc \in {"link", "recoverLink"} => linking.node \in Stored
    /\ pc = "select" => winner \in Stored

EngineInv == GraphInv /\ LoopInv

\* The run and the graph agree on what is stored.
LEMMA StoredIsGraphs == Stored = Graph!Stored
BY DEF Stored, Graph!Stored

\* A run never runs out of names: the next one is an identifier.
LEMMA NextIdInRange ==
    ASSUME GraphInv
    PROVE  NextId \in Ids
<1>1. IsFiniteSet(Stored) <=> Graph!IsFiniteSet(Graph!Stored)
    BY StoredIsGraphs DEF IsFiniteSet, Graph!IsFiniteSet
<1>2. Cardinality(Stored) = Graph!Cardinality(Graph!Stored)
    BY StoredIsGraphs DEF Cardinality, Graph!Cardinality
<1>3. Cardinality(Stored) \in Nat
    BY <1>1, FS_CardinalityType DEF GraphInv, Graph!TypeOK
<1> QED
    BY <1>2, <1>3, SearchAssumption DEF GraphInv, Graph!NodeBound, NextId, Ids

\* The engine stores the proposal at the head of pending as the graph does.
LEMMA ProposeIsGraphStep ==
    ASSUME LoopInv, pending # <<>>, NEW id \in Ids, NEW d \in 0..(MaxDepth + 1),
           Propose(id, d)
    PROVE  Graph!Next /\ Stored \subseteq Stored'
<1>1. Head(pending) \in Fingerprints
    BY HeadTailProperties DEF LoopInv
<1>2. Graph!AddNode(id, Head(pending), d)
    BY DEF Propose
<1>3. Stored \subseteq Stored'
    BY <1>2 DEF Graph!AddNode, Graph!Insert, Graph!Extend, Graph!graphVars, Stored
<1> QED
    BY <1>1, <1>2, <1>3 DEF Graph!Next

\* So does every step that only writes statuses of stored branches.
LEMMA WritingIsGraphStep ==
    ASSUME UNCHANGED <<nodes, edges>>, status' \in [Stored -> Statuses]
    PROVE  Graph!Next
BY StoredIsGraphs DEF Graph!Next, Graph!WriteStatus

\* Every stored node has one of the statuses.
LEMMA StatusType == ASSUME GraphInv PROVE status \in [Stored -> Statuses]
BY StoredIsGraphs DEF GraphInv, Graph!TypeOK

\* What an action owes: it is a step of the graph, or leaves it alone, and it
\* preserves LoopInv.
Preserves == [Graph!Next]_(Graph!graphVars) /\ LoopInv'

\* The lists survive when the graph grows.
LEMMA ListsGrow ==
    ASSUME LoopInv, Stored \subseteq Stored'
    PROVE  /\ batch \in Seq(Stored')
           /\ candidates \in Seq(Stored')
           /\ linking.node \in Stored' \cup {NoId}
           /\ winner \in Stored' \cup {NoId}
BY SeqMonotonic DEF LoopInv

\* A function on 1..n into a set is a sequence over it.
LEMMA FunctionIsSeq ==
    ASSUME NEW S, NEW n \in Nat, NEW r \in [1..n -> S]
    PROVE  r \in Seq(S)
BY SeqDef

\* Ranking and filtering a list yields a list of the same things.
LEMMA RankedAreListed ==
    ASSUME NEW S, NEW s \in Seq(S), NEW r \in RankedViable(s)
    PROVE  r \in Seq(S)
<1> DEFINE viable == {i \in DOMAIN s : status[s[i]] \notin Rejectable}
           size   == Cardinality(viable)
<1>1. PICK q \in [1..size -> viable] : r = [i \in 1..size |-> s[q[i]]]
    BY DEF RankedViable
<1>2. DOMAIN s = 1..Len(s) /\ Len(s) \in Nat
    BY LenProperties
<1>3. size \in Nat
    <2>1. IsFiniteSet(1..Len(s))
        BY <1>2, FS_Interval
    <2>2. viable \in SUBSET (1..Len(s))
        BY <1>2
    <2> QED
        BY <2>1, <2>2, FS_Subset, FS_CardinalityType
<1>4. \A i \in 1..size : s[q[i]] \in S
    BY <1>2, ElementOfSeq
<1>5. r \in [1..size -> S]
    BY <1>1, <1>4
<1> HIDE DEF size
<1> QED
    BY <1>3, <1>5, FunctionIsSeq

\* A list that Retain keeps is made of viable branches.
LEMMA RetainedAreListed ==
    ASSUME NEW S, NEW s \in Seq(S)
    PROVE  Retained(s) \in Seq(S)
<1> DEFINE m == AtMost(RetainBranches, Len(s))
           leading == SubSeq(s, 1, m)
<1>1. Len(s) \in Nat /\ RetainBranches \in Nat /\ m \in Nat /\ m <= Len(s)
    BY LenProperties, SearchAssumption DEF AtMost
<1>2. \A i \in 1..m : s[i] \in S
    BY <1>1, ElementOfSeq
<1>3. leading \in Seq(S) /\ Len(leading) = m
    BY <1>1, <1>2, SubSeqProperties
<1>4. ASSUME Len(s) > Len(leading) PROVE Append(leading, s[Len(leading) + 1]) \in Seq(S)
    <2>1. Len(leading) + 1 \in 1..Len(s)
        BY <1>1, <1>3, <1>4
    <2>2. s[Len(leading) + 1] \in S
        BY <2>1, ElementOfSeq
    <2> QED
        BY <1>3, <2>2, AppendProperties
<1> QED
    BY <1>3, <1>4 DEF Retained

-----------------------------------------------------------------------------
(***************************************************************************)
(* The steps the phases share.                                             *)
(***************************************************************************)

\* Returning forgets the locals and leaves the graph alone.
LEMMA ReturnPreserves ==
    ASSUME EngineInv, NEW error, Return(error)
    PROVE  Preserves
<1>1. UNCHANGED Graph!graphVars /\ Stored' = Stored
    BY DEF Return, Graph!graphVars, Stored
<1>2. <<>> \in Seq(Fingerprints) /\ <<>> \in Seq(Stored)
    BY EmptySeq
<1> QED
    BY <1>1, <1>2 DEF Return, Preserves, EngineInv, LoopInv, resultVars, Unlinked

\* A call for n proposals, and the statement it goes on to.
LEMMA GeneratePreserves ==
    ASSUME EngineInv, NEW n \in Nat, NEW next, Generate(n, next),
           next \in {"store", "restore", "child", "recoverNode"},
           next = "store" => n = InitialBranches /\ at = 1,
           next = "child" => at <= Len(candidates)
    PROVE  Preserves
<1>1. ASSUME NEW error, Return(error) PROVE Preserves
    BY <1>1, ReturnPreserves
<1>2. CASE /\ pending' \in [1..n -> Fingerprints]
           /\ pc' = next
           /\ UNCHANGED <<nodes, edges, status, evidenceVars, batch, candidates,
                          at, linking, resultVars, failure, wells, dropped>>
    <2>1. UNCHANGED Graph!graphVars /\ Stored' = Stored
        BY <1>2 DEF Graph!graphVars, Stored
    <2>2. pending' \in Seq(Fingerprints)
        BY <1>2, FunctionIsSeq
    <2>3. Len(pending') = n
        BY <1>2, <2>2, LenProperties
    <2>4. next = "store" => at + Len(pending') <= InitialBranches + 1
        BY <2>3, SearchAssumption
    <2> QED
        BY <1>2, <2>1, <2>2, <2>4 DEF Preserves, EngineInv, LoopInv, resultVars
<1> QED
    BY <1>1, <1>2 DEF Generate

\* An evaluation writes statuses of stored branches only.
LEMMA EvaluatePreserves ==
    ASSUME EngineInv, NEW next, Evaluate(next),
           next \in {"retain", "collect", "recoverRank"}
    PROVE  Preserves
<1>1. CASE Return("provider")
    BY <1>1, ReturnPreserves
<1>2. ASSUME NEW ev \in [Members(batch) -> Evaluations],
             status' = [n \in Stored |->
                          IF n \notin Members(batch) THEN status[n]
                          ELSE IF ev[n].hard THEN "PRUNED" ELSE "EVALUATED"],
             pc' = next,
             UNCHANGED <<nodes, edges, measurements, verdict, loopVars,
                         resultVars, failure, dropped>>
      PROVE  Preserves
    <2>1. status' \in [Stored -> Statuses]
        BY <1>2, StatusType DEF EngineInv, Statuses
    <2>2. Graph!Next
        BY <1>2, <2>1, WritingIsGraphStep
    <2> QED
        BY <1>2, <2>2 DEF Preserves, EngineInv, LoopInv, loopVars, resultVars, Stored
<1> QED
    BY <1>1, <1>2 DEF Evaluate

\* A verdict writes the status of one stored branch.
LEMMA JudgePreserves ==
    ASSUME EngineInv, NEW n, NEW v, NEW o, NEW st \in Statuses, Judge(n, v, o, st),
           at' \in Nat \ {0},
           winner' \in Stored \cup {NoId},
           pc' \in {"verify", "recoverVerify", "select"},
           pc' = "select" => winner' \in Stored
    PROVE  Preserves
<1>1. status' \in [Stored -> Statuses]
    BY StatusType DEF Judge, EngineInv
<1>2. Graph!Next
    BY <1>1, WritingIsGraphStep DEF Judge
<1> QED
    BY <1>2 DEF Preserves, Judge, EngineInv, LoopInv, Stored

-----------------------------------------------------------------------------
(***************************************************************************)
(* The actions, phase by phase.                                            *)
(***************************************************************************)

\* Run moves on: the graph stays as it is.
LEMMA GraphUntouched ==
    ASSUME UNCHANGED <<nodes, edges, status>>
    PROVE  [Graph!Next]_(Graph!graphVars) /\ Stored' = Stored
BY DEF Graph!graphVars, Stored

\* Each step from the first model call to the retained branches maps to the graph.
LEMMA InitialPhasePreserves == EngineInv /\ InitialPhase => Preserves
<1> SUFFICES ASSUME EngineInv, InitialPhase PROVE Preserves
    OBVIOUS
<1> USE DEF EngineInv
<1>1. CASE GenerateInitial
    BY <1>1, GeneratePreserves, SearchAssumption DEF GenerateInitial, LoopInv
<1>2. CASE StoreInitial
    <2>1. at \in Ids /\ 0 \in 0..(MaxDepth + 1)
        <3>1. Len(pending) \in Nat \ {0}
            BY <1>2, EmptySeq DEF StoreInitial, LoopInv
        <3> QED
            BY <1>2, <3>1, SearchAssumption DEF StoreInitial, LoopInv, Ids
    <2>2. Graph!Next /\ Stored \subseteq Stored'
        BY <1>2, <2>1, ProposeIsGraphStep DEF StoreInitial
    <2>3. batch' \in Seq(Stored')
        <3>1. batch \in Seq(Stored')
            BY <2>2, ListsGrow
        <3>2. CASE Outcome(at, 0) = "added"
            <4>1. at \in Stored'
                BY <1>2, <3>2 DEF StoreInitial, Propose, Outcome, Graph!AddNode,
                                  Graph!Insert, Graph!Extend, Stored
            <4> QED
                BY <1>2, <3>1, <3>2, <4>1, AppendProperties DEF StoreInitial
        <3>3. CASE Outcome(at, 0) # "added"
            BY <1>2, <3>1, <3>3 DEF StoreInitial
        <3> QED
            BY <3>2, <3>3
    <2>4. pending' \in Seq(Fingerprints) /\ Len(pending') = Len(pending) - 1
        BY <1>2, HeadTailProperties DEF StoreInitial, LoopInv
    <2>5. Len(pending) \in Nat
        BY LenProperties DEF LoopInv
    <2>6. at' + Len(pending') <= InitialBranches + 1
        BY <1>2, <2>4, <2>5, SearchAssumption DEF StoreInitial, LoopInv
    <2> QED
        BY <1>2, <2>2, <2>3, <2>4, <2>6, ListsGrow
        DEF StoreInitial, Preserves, LoopInv, resultVars
<1>3. CASE InitialStored
    BY <1>3, GraphUntouched
    DEF InitialStored, Preserves, LoopInv, loopVars, resultVars
<1>4. CASE Regenerate
    <2>1. RetainBranches - Len(batch) \in Nat
        BY <1>4, LenProperties, SearchAssumption DEF Regenerate, LoopInv
    <2> QED
        BY <1>4, <2>1, GeneratePreserves DEF Regenerate
<1>5. CASE StoreRegenerated
    <2>1. NextId \in Ids /\ 0 \in 0..(MaxDepth + 1)
        BY NextIdInRange, SearchAssumption
    <2>2. Graph!Next /\ Stored \subseteq Stored'
        BY <1>5, <2>1, ProposeIsGraphStep DEF StoreRegenerated
    <2>3. batch' \in Seq(Stored')
        <3>1. batch \in Seq(Stored')
            BY <2>2, ListsGrow
        <3>2. CASE Outcome(NextId, 0) = "added"
            <4>1. NextId \in Stored'
                BY <1>5, <3>2 DEF StoreRegenerated, Propose, Outcome, Graph!AddNode,
                                  Graph!Insert, Graph!Extend, Stored
            <4> QED
                BY <1>5, <3>1, <3>2, <4>1, AppendProperties DEF StoreRegenerated
        <3>3. CASE Outcome(NextId, 0) # "added"
            BY <1>5, <3>1, <3>3 DEF StoreRegenerated
        <3> QED
            BY <3>2, <3>3
    <2>4. pending' \in Seq(Fingerprints)
        BY <1>5, HeadTailProperties DEF StoreRegenerated, LoopInv
    <2> QED
        BY <1>5, <2>2, <2>3, <2>4, ListsGrow
        DEF StoreRegenerated, Preserves, LoopInv, resultVars
<1>6. CASE InitialRefused
    BY <1>6, ReturnPreserves DEF InitialRefused
<1>10. CASE RegeneratedRefused
    BY <1>10, ReturnPreserves DEF RegeneratedRefused
<1>7. CASE Regenerated
    <2>1. CASE pc' = "failed"
        BY <1>7, <2>1, ReturnPreserves DEF Regenerated
    <2>2. CASE pc' # "failed"
        BY <1>7, <2>2, GraphUntouched
        DEF Regenerated, Return, Preserves, LoopInv, loopVars, resultVars
    <2> QED
        BY <2>1, <2>2
<1>8. CASE EvaluateInitial
    BY <1>8, EvaluatePreserves DEF EvaluateInitial
<1>9. CASE Retain
    <2>1. PICK viable \in RankedViable(batch) :
            \/ Return("all branches rejected")
            \/ /\ candidates' = Retained(viable)
               /\ status' = [n \in Stored |->
                               IF n \in Members(Retained(viable)) THEN "ACTIVE"
                               ELSE IF n \in Members(batch) THEN "PRUNED"
                               ELSE status[n]]
               /\ batch' = <<>>
               /\ at' = 1
               /\ pc' = "expand"
               /\ UNCHANGED <<nodes, edges, pending, linking, winner>>
        BY <1>9 DEF Retain
    <2>2. CASE Return("all branches rejected")
        BY <2>2, ReturnPreserves
    <2>3. CASE pc' = "expand" /\ candidates' = Retained(viable)
        <3>1. viable \in Seq(Stored)
            BY RankedAreListed DEF LoopInv
        <3>2. candidates' \in Seq(Stored) /\ batch' \in Seq(Stored)
            BY <2>1, <2>3, <3>1, RetainedAreListed, EmptySeq DEF Return
        <3>3. status' \in [Stored -> Statuses]
            BY <2>1, <2>3, StatusType DEF Statuses, Return
        <3>4. Graph!Next
            BY <2>1, <2>3, <3>3, WritingIsGraphStep DEF Return
        <3> QED
            BY <2>1, <2>3, <3>2, <3>4 DEF Return, Preserves, LoopInv, Stored
    <2> QED
        BY <2>1, <2>2, <2>3
<1> QED
    BY <1>1, <1>2, <1>3, <1>4, <1>5, <1>6, <1>7, <1>8, <1>9, <1>10 DEF InitialPhase

\* A list element is a stored branch, hence an identifier.
LEMMA ListedAreIds ==
    ASSUME EngineInv, NEW s \in Seq(Stored), NEW i \in Nat \ {0}, i <= Len(s)
    PROVE  s[i] \in Stored /\ s[i] \in Ids
<1>1. i \in 1..Len(s)
    BY LenProperties
<1>2. s[i] \in Stored
    BY <1>1, ElementOfSeq
<1> QED
    BY <1>2, StoredIsGraphs DEF EngineInv, GraphInv, Graph!TypeOK

\* Linking two identifiers is an AddEdge of the graph.
LEMMA LinkIsGraphStep ==
    ASSUME NEW from \in Ids, NEW to \in Ids, Graph!AddEdge(from, to)
    PROVE  Graph!Next /\ Stored' = Stored
BY DEF Graph!Next, Graph!AddEdge, Stored

\* Each step of the expansion maps to the graph.
LEMMA ExpansionPhasePreserves == EngineInv /\ ExpansionPhase => Preserves
<1> SUFFICES ASSUME EngineInv, ExpansionPhase PROVE Preserves
    OBVIOUS
<1> USE DEF EngineInv
<1>1. CASE ExpandLeader
    <2>1. at <= Len(candidates)
        <3>1. Len(candidates) \in Nat
            BY LenProperties DEF LoopInv
        <3> QED
            BY <1>1, <3>1, SearchAssumption DEF ExpandLeader, Leaders, AtMost, LoopInv
    <2> QED
        BY <1>1, <2>1, GeneratePreserves DEF ExpandLeader
<1>2. CASE SkipDeepLeader
    BY <1>2, GraphUntouched DEF SkipDeepLeader, Preserves, LoopInv, resultVars
<1>3. CASE StoreChild
    <2>1. Parent \in Stored
        BY <1>3, ListedAreIds DEF StoreChild, LoopInv, Parent
    <2>2. ChildDepth \in Nat /\ Outcome(NextId, ChildDepth) \notin Graph!NodeErrors
        <3>1. nodes[Parent] \in Graph!NodeRecords
            BY <2>1, StoredIsGraphs DEF GraphInv, Graph!TypeOK
        <3> QED
            BY <1>3, <3>1, SearchAssumption DEF StoreChild, ChildDepth, Graph!NodeRecords
    <2>3. NextId \in Ids /\ ChildDepth \in 0..(MaxDepth + 1)
        BY <2>2, NextIdInRange, SearchAssumption
           DEF Outcome, Graph!AddNodeResult, Graph!NodeErrors
    <2>4. Graph!Next /\ Stored \subseteq Stored'
        BY <1>3, <2>3, ProposeIsGraphStep DEF StoreChild
    <2>5. linking'.node \in Stored'
        <3>1. CASE Graph!HolderOf(Head(pending)) # NoId
            <4>1. Graph!HolderOf(Head(pending)) \in Stored
                BY <3>1, StoredIsGraphs DEF Graph!HolderOf
            <4> QED
                BY <1>3, <2>4, <3>1, <4>1 DEF StoreChild, Graph!AddNodeReturns
        <3>2. CASE Graph!HolderOf(Head(pending)) = NoId
            <4>1. Outcome(NextId, ChildDepth) = "added"
                BY <2>2, <3>2 DEF Outcome, Graph!AddNodeResult, Graph!NodeErrors
            <4>2. NextId \in Stored'
                BY <1>3, <4>1 DEF StoreChild, Propose, Outcome, Graph!AddNode,
                                  Graph!Insert, Graph!Extend, Stored
            <4> QED
                BY <1>3, <3>2, <4>2 DEF StoreChild, Graph!AddNodeReturns
        <3> QED
            BY <3>1, <3>2
    <2>6. pending' \in Seq(Fingerprints)
        BY <1>3, HeadTailProperties DEF StoreChild, LoopInv
    <2> QED
        BY <1>3, <2>4, <2>5, <2>6, ListsGrow DEF StoreChild, Preserves, LoopInv, resultVars
<1>4. CASE DropChild
    <2>1. pending' \in Seq(Fingerprints)
        BY <1>4, HeadTailProperties DEF DropChild, LoopInv
    <2> QED
        BY <1>4, <2>1, GraphUntouched DEF DropChild, Preserves, LoopInv, resultVars
<1>5. CASE LinkChild
    <2>1. Parent \in Ids /\ linking.node \in Stored /\ linking.node \in Ids
        <3>1. linking.node \in Stored
            BY <1>5 DEF LinkChild, LoopInv
        <3> QED
            BY <1>5, <3>1, ListedAreIds, StoredIsGraphs
            DEF LinkChild, LoopInv, Parent, GraphInv, Graph!TypeOK
    <2>2. Graph!Next /\ Stored' = Stored
        BY <1>5, <2>1, LinkIsGraphStep DEF LinkChild
    <2>3. batch' \in Seq(Stored)
        BY <1>5, <2>1, AppendProperties DEF LinkChild, LoopInv
    <2> QED
        BY <1>5, <2>2, <2>3 DEF LinkChild, Preserves, LoopInv, resultVars, Unlinked
<1>6. CASE LinkRefused
    BY <1>6, ReturnPreserves DEF LinkRefused
<1>7. CASE LeaderExpanded
    <2>1. status' \in [Stored -> Statuses]
        BY <1>7, StatusType DEF LeaderExpanded, Statuses
    <2>2. Graph!Next /\ Stored' = Stored
        BY <1>7, <2>1, WritingIsGraphStep DEF LeaderExpanded, Stored
    <2> QED
        BY <1>7, <2>2 DEF LeaderExpanded, Preserves, LoopInv, resultVars
<1>8. CASE ExpansionDone
    BY <1>8, GraphUntouched DEF ExpansionDone, Preserves, LoopInv, loopVars, resultVars
<1>9. CASE EvaluateChildren
    BY <1>9, EvaluatePreserves DEF EvaluateChildren
<1> QED
    BY <1>1, <1>2, <1>3, <1>4, <1>5, <1>6, <1>7, <1>8, <1>9 DEF ExpansionPhase

\* Each step of the main verification maps to the graph.
LEMMA VerificationPhasePreserves == EngineInv /\ VerificationPhase => Preserves
<1> SUFFICES ASSUME EngineInv, VerificationPhase PROVE Preserves
    OBVIOUS
<1> USE DEF EngineInv
<1>1. CASE Collect
    <2>1. candidates \o batch \in Seq(Stored)
        BY ConcatProperties DEF LoopInv
    <2>2. candidates' \in Seq(Stored) /\ batch' \in Seq(Stored)
        BY <1>1, <2>1, RankedAreListed, EmptySeq DEF Collect
    <2> QED
        BY <1>1, <2>2, GraphUntouched DEF Collect, Preserves, LoopInv, resultVars
<1>2. CASE Execute
    <2>1. PICK fp \in Computed :
            /\ Graph!AddNode(NextId, fp, 0)
            /\ candidates' = IF Graph!AddNodeResult(NextId, fp, 0) = "added"
                             THEN Append(candidates, NextId) ELSE candidates
        BY <1>2 DEF Execute
    <2>2. Graph!Next
        BY <2>1, NextIdInRange, SearchAssumption DEF Graph!Next
    <2>3. Stored \subseteq Stored'
        BY <2>1 DEF Graph!AddNode, Graph!Insert, Graph!Extend, Graph!graphVars, Stored
    <2>4. candidates \in Seq(Stored')
        BY <2>3, ListsGrow
    <2>5. candidates' \in Seq(Stored')
        <3>1. CASE Graph!AddNodeResult(NextId, fp, 0) = "added"
            <4>1. NextId \in Stored'
                BY <2>1, <3>1 DEF Graph!AddNode, Graph!Insert, Graph!Extend, Stored
            <4> QED
                BY <2>1, <2>4, <3>1, <4>1, AppendProperties
        <3>2. CASE Graph!AddNodeResult(NextId, fp, 0) # "added"
            BY <2>1, <2>4, <3>2
        <3> QED
            BY <3>1, <3>2
    <2> QED
        BY <1>2, <2>2, <2>3, <2>5, ListsGrow DEF Execute, Preserves, LoopInv, resultVars
<1>3. CASE NothingToExecute
    BY <1>3, GraphUntouched
    DEF NothingToExecute, Preserves, LoopInv, loopVars, resultVars
<1>4. CASE Challenge
    <2>1. CASE Return("provider")
        BY <2>1, ReturnPreserves
    <2>2. CASE pc' = "verify" /\ UNCHANGED <<nodes, edges, status, loopVars, resultVars>>
        BY <2>2, GraphUntouched DEF Preserves, LoopInv, loopVars, resultVars
    <2> QED
        BY <1>4, <2>1, <2>2 DEF Challenge
<1>5. CASE PassCandidate
    <2>1. candidates[at] \in Stored
        BY <1>5, ListedAreIds DEF PassCandidate, LoopInv
    <2> QED
        BY <1>5, <2>1, JudgePreserves DEF PassCandidate, LoopInv, Statuses
<1>6. CASE RejectCandidate
    <2>1. PICK o \in VerifierOutcomes \ {"SUPPORTED"} :
            Judge(candidates[at], "rejected", o,
                  IF o = "CONTRADICTED" THEN "FAILED" ELSE "EVALUATED")
        BY <1>6 DEF RejectCandidate
    <2> QED
        BY <1>6, <2>1, JudgePreserves DEF RejectCandidate, LoopInv, Statuses
<1>7. CASE CandidatesRejected
    <2>1. CASE Return("no candidate passed verification")
        BY <2>1, ReturnPreserves
    <2>2. CASE pc' = "recover" /\ UNCHANGED <<nodes, edges, status, loopVars, resultVars>>
        BY <2>2, GraphUntouched DEF Preserves, LoopInv, loopVars, resultVars
    <2> QED
        BY <1>7, <2>1, <2>2 DEF CandidatesRejected
<1> QED
    BY <1>1, <1>2, <1>3, <1>4, <1>5, <1>6, <1>7 DEF VerificationPhase

\* Each step of the recovery round maps to the graph.
LEMMA RecoveryPhasePreserves == EngineInv /\ RecoveryPhase => Preserves
<1> SUFFICES ASSUME EngineInv, RecoveryPhase PROVE Preserves
    OBVIOUS
<1> USE DEF EngineInv
<1>1. CASE GenerateRecovery
    BY <1>1, GeneratePreserves, SearchAssumption DEF GenerateRecovery
<1>2. CASE StoreRecovery
    <2>1. NextId \in Ids /\ 1 \in 0..(MaxDepth + 1)
        BY NextIdInRange, SearchAssumption
    <2>2. Graph!Next /\ Stored \subseteq Stored'
        BY <1>2, <2>1, ProposeIsGraphStep DEF StoreRecovery
    <2>3. NextId \in Stored'
        BY <1>2 DEF StoreRecovery, Propose, Outcome, Graph!AddNode,
                    Graph!Insert, Graph!Extend, Stored
    <2>4. pending' \in Seq(Fingerprints)
        BY <1>2, HeadTailProperties DEF StoreRecovery, LoopInv
    <2> QED
        BY <1>2, <2>2, <2>3, <2>4, ListsGrow
        DEF StoreRecovery, Preserves, LoopInv, resultVars
<1>3. CASE SkipRecoveryDuplicate
    <2>1. pending' \in Seq(Fingerprints)
        BY <1>3, HeadTailProperties DEF SkipRecoveryDuplicate, LoopInv
    <2> QED
        BY <1>3, <2>1, GraphUntouched
        DEF SkipRecoveryDuplicate, Preserves, LoopInv, resultVars
<1>4. CASE RecoveryRefused
    BY <1>4, ReturnPreserves DEF RecoveryRefused
<1>5. CASE LinkRecovery
    <2>1. /\ candidates[at] \in Ids
          /\ linking.node \in Stored
          /\ linking.node \in Ids
        <3>1. linking.node \in Stored
            BY <1>5 DEF LinkRecovery, LoopInv
        <3> QED
            BY <1>5, <3>1, ListedAreIds, StoredIsGraphs
            DEF LinkRecovery, LoopInv, GraphInv, Graph!TypeOK
    <2>2. Graph!Next /\ Stored' = Stored
        BY <1>5, <2>1, LinkIsGraphStep DEF LinkRecovery
    <2> QED
        BY <1>5, <2>1, <2>2 DEF LinkRecovery, Preserves, LoopInv, resultVars
<1>6. CASE RecoveryLinked
    <2>1. batch' \in Seq(Stored)
        BY <1>6, AppendProperties DEF RecoveryLinked, LoopInv
    <2> QED
        BY <1>6, <2>1, GraphUntouched
        DEF RecoveryLinked, Preserves, LoopInv, resultVars, Unlinked
<1>7. CASE RecoveryStored
    <2>1. CASE Return("no candidate passed verification")
        BY <2>1, ReturnPreserves
    <2>2. CASE pc' = "recoverEvaluate" /\ UNCHANGED <<nodes, edges, status, loopVars, resultVars>>
        BY <2>2, GraphUntouched DEF Preserves, LoopInv, loopVars, resultVars
    <2> QED
        BY <1>7, <2>1, <2>2 DEF RecoveryStored
<1>8. CASE EvaluateRecovery
    BY <1>8, EvaluatePreserves DEF EvaluateRecovery
<1>9. CASE RankRecovery
    <2>1. batch' \in Seq(Stored)
        BY <1>9, RankedAreListed DEF RankRecovery, LoopInv
    <2> QED
        BY <1>9, <2>1, GraphUntouched DEF RankRecovery, Preserves, LoopInv, resultVars
<1>10. CASE PassRecovery
    <2>1. batch[at] \in Stored
        BY <1>10, ListedAreIds DEF PassRecovery, LoopInv
    <2> QED
        BY <1>10, <2>1, JudgePreserves DEF PassRecovery, LoopInv, Statuses
<1>11. CASE RejectRecovery
    <2>1. PICK o \in VerifierOutcomes \ {"SUPPORTED"} :
            Judge(batch[at], "rejected", o, "FAILED")
        BY <1>11 DEF RejectRecovery
    <2> QED
        BY <1>11, <2>1, JudgePreserves DEF RejectRecovery, LoopInv, Statuses
<1>12. CASE RecoveryRejected
    BY <1>12, ReturnPreserves DEF RecoveryRejected
<1> QED
    BY <1>1, <1>2, <1>3, <1>4, <1>5, <1>6, <1>7, <1>8, <1>9, <1>10, <1>11, <1>12
    DEF RecoveryPhase

\* A run starts with an empty graph and empty lists.
LEMMA EngineInvInit == Init => EngineInv
<1> SUFFICES ASSUME Init PROVE EngineInv
    OBVIOUS
<1>1. GraphInv
    BY GraphInvInit DEF Init
<1>2. LoopInv
    BY EmptySeq, SearchAssumption DEF Init, LoopInv, Unlinked
<1> QED
    BY <1>1, <1>2 DEF EngineInv

\* Every step of the run maps to the graph and keeps the loops' lists in it.
LEMMA EngineStep == EngineInv /\ [Next]_vars => Preserves
<1> SUFFICES ASSUME EngineInv, [Next]_vars PROVE Preserves
    OBVIOUS
<1>1. CASE Select
    <2>1. status' \in [Stored -> Statuses]
        BY <1>1, StatusType DEF Select, Statuses, EngineInv
    <2>2. Graph!Next /\ Stored' = Stored
        BY <1>1, <2>1, WritingIsGraphStep DEF Select, Stored
    <2> QED
        BY <1>1, <2>2 DEF Select, Preserves, EngineInv, LoopInv, loopVars
<1>2. CASE WriteTrace
    <2>1. CASE Return("trace")
        BY <2>1, ReturnPreserves
    <2>2. CASE pc' = "selected" /\ UNCHANGED <<nodes, edges, status, loopVars, resultVars>>
        BY <2>2, GraphUntouched DEF Preserves, EngineInv, LoopInv, loopVars, resultVars
    <2> QED
        BY <1>2, <2>1, <2>2 DEF WriteTrace
<1>3. CASE UNCHANGED vars
    BY <1>3, GraphUntouched DEF vars, Preserves, EngineInv, LoopInv, loopVars, resultVars
<1> QED
    BY <1>1, <1>2, <1>3, InitialPhasePreserves, ExpansionPhasePreserves,
       VerificationPhasePreserves, RecoveryPhasePreserves DEF Next, Returned

\* The strengthened invariant is inductive.
LEMMA EngineInvStep == EngineInv /\ [Next]_vars => EngineInv'
BY EngineStep, GraphInvStep DEF EngineInv, Preserves

-----------------------------------------------------------------------------
(***************************************************************************)
(* Theorems.                                                               *)
(***************************************************************************)

\* Whatever the model proposes and wherever a call fails, a run of the engine
\* is a behaviour of the graph: it implements BanGraph.
THEOREM EngineImplementsGraph == Spec => ImplementsGraph
<1>1. Init => Graph!Init
    BY DEF Init
<1>2. EngineInv /\ [Next]_vars => [Graph!Next]_(Graph!graphVars)
    BY EngineStep DEF Preserves
<1> QED
    BY <1>1, <1>2, EngineInvInit, EngineInvStep, PTL
    DEF Spec, ImplementsGraph, Graph!Spec

\* So the graph of a run has no cycle: none of the edges to children, to
\* convergent nodes or from rejected candidates to recovery branches closes one.
THEOREM EngineGraphIsAcyclic == Spec => []Graph!Acyclic
<1>1. GraphProofs!Spec => []GraphProofs!Acyclic
    BY GraphConstants, GraphProofs!AcyclicHolds
<1>2. GraphProofs!Acyclic <=> Graph!Acyclic
    BY DEF GraphProofs!Acyclic, Graph!Acyclic, GraphProofs!Reaches, Graph!Reaches,
           GraphProofs!Closed, Graph!Closed, GraphProofs!Stored, Graph!Stored
<1> QED
    BY <1>1, <1>2, EngineImplementsGraph, SameInit, SameNext, PTL
    DEF ImplementsGraph, Graph!Spec, GraphProofs!Spec

\* And a run stores at most MaxNodes branches, of distinct fingerprints.
THEOREM EngineGraphIsBounded == Spec => [](Graph!NodeBound /\ Graph!DistinctFingerprints)
<1>1. EngineInv => Graph!NodeBound /\ Graph!DistinctFingerprints
    BY DEF EngineInv, GraphInv
<1> QED
    BY <1>1, EngineInvInit, EngineInvStep, PTL DEF Spec

-----------------------------------------------------------------------------
(***************************************************************************)
(* The types of what a run learns of its branches.                         *)
(***************************************************************************)

\* TypeOK without the graph and the lists, which EngineInv covers.
EvidenceTypes ==
    /\ pc \in Statements
    /\ score \in [Ids -> 0..MaxScore]
    /\ well \in [Ids -> Wells \cup {NoWell}]
    /\ measurements \in [Ids -> Seq(Results)]
    /\ verdict \in [Ids -> {"none", "passed", "rejected"}]
    /\ linking \in [node : Stored \cup {NoId}, fresh : BOOLEAN]
    /\ top \in Stored \cup {NoId}
    /\ recovered \in BOOLEAN
    /\ wells \in [Wells -> [applications : Nat, outcomes : Nat]]
    /\ dropped \subseteq Graph!NodeErrors

\* The members of a list of stored branches are stored.
LEMMA MembersStored ==
    ASSUME NEW S, NEW s \in Seq(S)
    PROVE  /\ Members(s) \subseteq S
           /\ IsFiniteSet(Members(s))
<1>1. DOMAIN s = 1..Len(s) /\ Len(s) \in Nat /\ \A i \in 1..Len(s) : s[i] \in S
    BY LenProperties, ElementOfSeq
<1>2. Members(s) \subseteq S
    BY <1>1 DEF Members
<1>3. IsFiniteSet(1..Len(s))
    BY <1>1, FS_Interval
<1>4. s \in Surjection(1..Len(s), Members(s))
    <2>1. s \in [1..Len(s) -> Members(s)]
        BY <1>1, SeqDef DEF Members
    <2> QED
        BY <1>1, <2>1 DEF Surjection, Members
<1> QED
    BY <1>2, <1>3, <1>4, FS_Surjection

\* The graph never forgets a branch.
LEMMA StoredGrows ==
    ASSUME EngineInv, [Next]_vars
    PROVE  Stored \subseteq Stored'
<1>1. [Graph!Next]_(Graph!graphVars)
    BY EngineStep DEF Preserves
<1>2. CASE UNCHANGED Graph!graphVars
    BY <1>2 DEF Graph!graphVars, Stored
<1>3. CASE Graph!Next
    BY <1>3 DEF Graph!Next, Graph!AddNode, Graph!Insert, Graph!Extend, Graph!AddEdge,
                Graph!Prune, Graph!WriteStatus, Graph!graphVars, Stored
<1> QED
    BY <1>1, <1>2, <1>3

\* What a verdict appends to the measurements of a branch is a result.
LEMMA MeasuredType ==
    ASSUME NEW ms \in Seq(Results), NEW o \in VerifierOutcomes
    PROVE  Measured(ms, o) \in Seq(Results)
<1>1. [outcome |-> o, authority |-> Contract.authority,
       independence |-> Contract.independence, identified |-> TRUE] \in Results
    BY SearchAssumption DEF Results, Outcomes, VerifierOutcomes, Contracts
<1> QED
    BY <1>1, AppendProperties DEF Measured

\* The counters of a well stay counters when one of them grows.
LEMMA CounterType ==
    ASSUME NEW r \in [applications : Nat, outcomes : Nat], NEW k \in Nat
    PROVE  /\ [r EXCEPT !.applications = @ + k] \in [applications : Nat, outcomes : Nat]
           /\ [r EXCEPT !.outcomes = @ + 1] \in [applications : Nat, outcomes : Nat]
OBVIOUS

\* An evaluation is a hard violation or a score with a well.
LEMMA EvaluationType ==
    ASSUME NEW e \in Evaluations
    PROVE  e.score \in 0..MaxScore /\ e.well \in Wells \cup {NoWell}
<1>1. CASE e = [hard |-> TRUE, score |-> 0, well |-> NoWell]
    BY <1>1, SearchAssumption
<1>2. CASE e \in [hard : {FALSE}, score : 0..MaxScore, well : Wells \cup {NoWell}]
    BY <1>2
<1> QED
    BY <1>1, <1>2 DEF Evaluations

\* A verdict keeps the types of the evidence.
LEMMA JudgeTypes ==
    ASSUME EvidenceTypes, NEW n \in Ids, NEW v \in {"passed", "rejected"},
           NEW o \in VerifierOutcomes, NEW st, Judge(n, v, o, st)
    PROVE  /\ measurements' \in [Ids -> Seq(Results)]
           /\ verdict' \in [Ids -> {"none", "passed", "rejected"}]
           /\ wells' \in [Wells -> [applications : Nat, outcomes : Nat]]
<1>1. measurements[n] \in Seq(Results)
    BY DEF EvidenceTypes
<1>2. Measured(measurements[n], o) \in Seq(Results)
    BY <1>1, MeasuredType
<1>3. measurements' \in [Ids -> Seq(Results)]
    BY <1>2 DEF Judge, EvidenceTypes
<1>4. verdict' \in [Ids -> {"none", "passed", "rejected"}]
    BY DEF Judge, EvidenceTypes
<1>5. wells' \in [Wells -> [applications : Nat, outcomes : Nat]]
    <2>1. wells' = wells \/ \E w \in Wells : wells' = [wells EXCEPT ![w].outcomes = @ + 1]
        BY DEF Judge, Trained
    <2>2. ASSUME NEW w \in Wells, wells' = [wells EXCEPT ![w].outcomes = @ + 1]
          PROVE  wells' \in [Wells -> [applications : Nat, outcomes : Nat]]
        <3>1. [wells[w] EXCEPT !.outcomes = @ + 1] \in [applications : Nat, outcomes : Nat]
            BY CounterType DEF EvidenceTypes
        <3> QED
            BY <2>2, <3>1 DEF EvidenceTypes
    <2> QED
        BY <2>1, <2>2 DEF EvidenceTypes
<1> QED
    BY <1>3, <1>4, <1>5

\* So does an evaluation.
LEMMA EvaluateTypes ==
    ASSUME EngineInv, EvidenceTypes,
           NEW next \in {"retain", "collect", "recoverRank"}, Evaluate(next)
    PROVE  /\ pc' \in Statements
           /\ score' \in [Ids -> 0..MaxScore]
           /\ well' \in [Ids -> Wells \cup {NoWell}]
           /\ wells' \in [Wells -> [applications : Nat, outcomes : Nat]]
           /\ UNCHANGED <<measurements, verdict, top, recovered, dropped>>
           /\ linking' \in {linking, Unlinked}
<1>1. CASE Return("provider")
    BY <1>1 DEF Return, EvidenceTypes, evidenceVars, resultVars, Statements
<1>2. ASSUME NEW ev \in [Members(batch) -> Evaluations],
             score' = [n \in Ids |-> IF n \in Members(batch) THEN ev[n].score ELSE score[n]],
             well' = [n \in Ids |-> IF n \in Members(batch) THEN ev[n].well ELSE well[n]],
             wells' = [w \in Wells |->
                         [wells[w] EXCEPT !.applications =
                            @ + Cardinality({n \in Members(batch) : ev[n].well = w})]]
      PROVE  /\ score' \in [Ids -> 0..MaxScore]
             /\ well' \in [Ids -> Wells \cup {NoWell}]
             /\ wells' \in [Wells -> [applications : Nat, outcomes : Nat]]
    <2>1. \A n \in Members(batch) : ev[n].score \in 0..MaxScore /\ ev[n].well \in Wells \cup {NoWell}
        BY <1>2, EvaluationType
    <2>2. score' \in [Ids -> 0..MaxScore] /\ well' \in [Ids -> Wells \cup {NoWell}]
        BY <1>2, <2>1 DEF EvidenceTypes
    <2>3. ASSUME NEW w \in Wells
          PROVE  Cardinality({n \in Members(batch) : ev[n].well = w}) \in Nat
        <3>1. batch \in Seq(Stored)
            BY DEF EngineInv, LoopInv
        <3>4. IsFiniteSet(Members(batch))
            BY <3>1, MembersStored
        <3>2. {n \in Members(batch) : ev[n].well = w} \in SUBSET Members(batch)
            OBVIOUS
        <3>3. IsFiniteSet({n \in Members(batch) : ev[n].well = w})
            BY <3>2, <3>4, FS_Subset
        <3> QED
            BY <3>3, FS_CardinalityType
    <2>4. wells' \in [Wells -> [applications : Nat, outcomes : Nat]]
        BY <1>2, <2>3, CounterType DEF EvidenceTypes
    <2> QED
        BY <2>2, <2>4
<1>3. CASE ~ Return("provider")
    <2>1. /\ pc' = next
          /\ UNCHANGED <<measurements, verdict, loopVars, resultVars, dropped>>
        BY <1>3 DEF Evaluate
    <2>2. PICK ev \in [Members(batch) -> Evaluations] :
             /\ score' = [n \in Ids |-> IF n \in Members(batch) THEN ev[n].score ELSE score[n]]
             /\ well' = [n \in Ids |-> IF n \in Members(batch) THEN ev[n].well ELSE well[n]]
             /\ wells' = [w \in Wells |->
                            [wells[w] EXCEPT !.applications =
                               @ + Cardinality({n \in Members(batch) : ev[n].well = w})]]
        BY <1>3 DEF Evaluate
    <2>3. /\ score' \in [Ids -> 0..MaxScore]
          /\ well' \in [Ids -> Wells \cup {NoWell}]
          /\ wells' \in [Wells -> [applications : Nat, outcomes : Nat]]
        BY <1>2, <2>2
    <2> QED
        BY <2>1, <2>3 DEF loopVars, resultVars, Statements
<1> QED
    BY <1>1, <1>3

\* What an action owes to the types of the evidence.
EvidenceTyped ==
    /\ pc' \in Statements
    /\ score' \in [Ids -> 0..MaxScore]
    /\ well' \in [Ids -> Wells \cup {NoWell}]
    /\ measurements' \in [Ids -> Seq(Results)]
    /\ verdict' \in [Ids -> {"none", "passed", "rejected"}]
    /\ \E n \in Stored' \cup {NoId}, b \in BOOLEAN : linking' = [node |-> n, fresh |-> b]
    /\ top' \in Stored' \cup {NoId}
    /\ recovered' \in BOOLEAN
    /\ wells' \in [Wells -> [applications : Nat, outcomes : Nat]]
    /\ dropped' \subseteq Graph!NodeErrors

\* An action that leaves the evidence and the result alone keeps their types.
LEMMA EvidenceKept ==
    ASSUME EvidenceTypes, Stored \subseteq Stored', pc' \in Statements,
           UNCHANGED <<evidenceVars, resultVars, wells>>,
           linking' \in {linking, Unlinked},
           dropped' \subseteq Graph!NodeErrors
    PROVE  EvidenceTyped
BY DEF EvidenceTypes, EvidenceTyped, evidenceVars, resultVars, Unlinked

\* A return keeps them.
LEMMA ReturnTyped ==
    ASSUME EvidenceTypes, NEW error, Return(error)
    PROVE  EvidenceTyped
<1>1. Stored \subseteq Stored'
    BY DEF Return, Stored
<1> QED
    BY <1>1, EvidenceKept DEF Return, EvidenceTypes, Statements

\* A call of the generator keeps them.
LEMMA GenerateTyped ==
    ASSUME EvidenceTypes, NEW n, NEW next \in Statements, Generate(n, next)
    PROVE  EvidenceTyped
<1>1. Stored \subseteq Stored'
    BY DEF Generate, Return, Stored
<1>2. CASE Return("provider") \/ Return("expected branches")
    BY <1>2, ReturnTyped
<1>3. CASE ~ (Return("provider") \/ Return("expected branches"))
    BY <1>1, <1>3, EvidenceKept DEF Generate, EvidenceTypes
<1> QED
    BY <1>2, <1>3

\* An evaluation keeps them.
LEMMA EvaluateTyped ==
    ASSUME EngineInv, EvidenceTypes,
           NEW next \in {"retain", "collect", "recoverRank"}, Evaluate(next)
    PROVE  EvidenceTyped
<1>1. Stored' = Stored
    BY DEF Evaluate, Return, Stored
<1> QED
    BY <1>1, EvaluateTypes DEF EvidenceTypes, EvidenceTyped, Unlinked

\* A verdict keeps them.
LEMMA JudgeTyped ==
    ASSUME EvidenceTypes, NEW n \in Ids, NEW v \in {"passed", "rejected"},
           NEW o \in VerifierOutcomes, NEW st, Judge(n, v, o, st),
           pc' \in Statements, recovered' \in BOOLEAN
    PROVE  EvidenceTyped
<1>1. Stored' = Stored
    BY DEF Judge, Stored
<1> QED
    BY <1>1, JudgeTypes DEF Judge, EvidenceTypes, EvidenceTyped

\* Each step from the first model call to the retained branches keeps them.
LEMMA InitialPhaseTyped ==
    EngineInv /\ EvidenceTypes /\ InitialPhase /\ Stored \subseteq Stored' => EvidenceTyped
<1> SUFFICES ASSUME EngineInv, EvidenceTypes, InitialPhase, Stored \subseteq Stored'
             PROVE  EvidenceTyped
    OBVIOUS
<1>0. pc \in Statements /\ dropped \subseteq Graph!NodeErrors
    BY DEF EvidenceTypes
<1>1. CASE GenerateInitial \/ Regenerate
    BY <1>1, GenerateTyped DEF GenerateInitial, Regenerate, Statements
<1>2. CASE StoreInitial \/ StoreRegenerated
    BY <1>0, <1>2, EvidenceKept DEF StoreInitial, StoreRegenerated
<1>3. CASE InitialRefused \/ RegeneratedRefused
    BY <1>3, ReturnTyped DEF InitialRefused, RegeneratedRefused
<1>4. CASE InitialStored
    BY <1>0, <1>4, EvidenceKept DEF InitialStored, loopVars, Statements
<1>5. CASE Regenerated
    <2>1. CASE Return("insufficient distinct branches")
        BY <2>1, ReturnTyped
    <2>2. CASE ~ Return("insufficient distinct branches")
        BY <1>0, <1>5, <2>2, EvidenceKept DEF Regenerated, loopVars, Statements
    <2> QED
        BY <2>1, <2>2
<1>6. CASE EvaluateInitial
    BY <1>6, EvaluateTyped DEF EvaluateInitial
<1>7. CASE Retain
    <2>1. PICK viable \in RankedViable(batch) :
            \/ Return("all branches rejected")
            \/ /\ viable # <<>>
               /\ top' = viable[1]
               /\ pc' = "expand"
               /\ UNCHANGED <<nodes, edges, evidenceVars, pending, linking,
                              winner, recovered, failure, wells, dropped>>
        BY <1>7 DEF Retain
    <2>2. CASE Return("all branches rejected")
        BY <2>2, ReturnTyped
    <2>3. CASE ~ Return("all branches rejected")
        <3>1. viable \in Seq(Stored)
            BY RankedAreListed DEF EngineInv, LoopInv
        <3>2. Len(viable) \in Nat /\ Len(viable) # 0
            BY <2>1, <2>3, <3>1, EmptySeq, LenProperties
        <3>3. viable[1] \in Stored
            BY <3>1, <3>2, ListedAreIds
        <3> QED
            BY <2>1, <2>3, <3>3
            DEF EvidenceTypes, EvidenceTyped, evidenceVars, Statements
    <2> QED
        BY <2>2, <2>3
<1> QED
    BY <1>1, <1>2, <1>3, <1>4, <1>5, <1>6, <1>7 DEF InitialPhase

\* What StoreChild and StoreRecovery are about to link is stored.
LEMMA LinkedIsStored ==
    ASSUME EngineInv, [Next]_vars
    PROVE  linking'.node \in Stored' \cup {NoId}
BY EngineStep DEF Preserves, LoopInv

\* Each step of the expansion keeps them.
LEMMA ExpansionPhaseTyped ==
    EngineInv /\ EvidenceTypes /\ ExpansionPhase /\ Stored \subseteq Stored' => EvidenceTyped
<1> SUFFICES ASSUME EngineInv, EvidenceTypes, ExpansionPhase, Stored \subseteq Stored'
             PROVE  EvidenceTyped
    OBVIOUS
<1>0. pc \in Statements /\ dropped \subseteq Graph!NodeErrors
    BY DEF EvidenceTypes
<1>1. CASE ExpandLeader
    BY <1>1, GenerateTyped DEF ExpandLeader, Statements
<1>2. CASE SkipDeepLeader \/ LeaderExpanded
    BY <1>0, <1>2, EvidenceKept DEF SkipDeepLeader, LeaderExpanded, Statements
<1>3. CASE StoreChild
    <2>1. linking'.node \in Stored' \cup {NoId}
        BY <1>3, LinkedIsStored DEF Next, ExpansionPhase
    <2> QED
        BY <1>3, <2>1 DEF StoreChild, EvidenceTypes, EvidenceTyped, evidenceVars,
                          resultVars, Statements
<1>4. CASE DropChild
    <2>1. dropped' \subseteq Graph!NodeErrors
        BY <1>0, <1>4 DEF DropChild
    <2> QED
        BY <1>0, <1>4, <2>1, EvidenceKept DEF DropChild
<1>5. CASE LinkChild
    BY <1>0, <1>5, EvidenceKept DEF LinkChild, Statements
<1>6. CASE LinkRefused
    BY <1>6, ReturnTyped DEF LinkRefused
<1>7. CASE ExpansionDone
    BY <1>0, <1>7, EvidenceKept DEF ExpansionDone, loopVars, Statements
<1>8. CASE EvaluateChildren
    BY <1>8, EvaluateTyped DEF EvaluateChildren
<1> QED
    BY <1>1, <1>2, <1>3, <1>4, <1>5, <1>6, <1>7, <1>8 DEF ExpansionPhase

\* Each step of the main verification keeps them.
LEMMA VerificationPhaseTyped ==
    EngineInv /\ EvidenceTypes /\ VerificationPhase /\ Stored \subseteq Stored' => EvidenceTyped
<1> SUFFICES ASSUME EngineInv, EvidenceTypes, VerificationPhase, Stored \subseteq Stored'
             PROVE  EvidenceTyped
    OBVIOUS
<1>0. pc \in Statements /\ dropped \subseteq Graph!NodeErrors /\ recovered \in BOOLEAN
    BY DEF EvidenceTypes
<1>1. CASE Collect
    BY <1>0, <1>1, EvidenceKept DEF Collect, Statements
<1>2. CASE Execute
    <2>1. dropped' \subseteq Graph!NodeErrors
        BY <1>0, <1>2 DEF Execute
    <2> QED
        BY <1>2, <2>1, EvidenceKept DEF Execute, Statements
<1>3. CASE NothingToExecute
    BY <1>0, <1>3, EvidenceKept DEF NothingToExecute, loopVars, Statements
<1>4. CASE Challenge
    <2>1. CASE Return("provider")
        BY <2>1, ReturnTyped
    <2>2. CASE ~ Return("provider")
        BY <1>0, <1>4, <2>2, EvidenceKept DEF Challenge, loopVars, Statements
    <2> QED
        BY <2>1, <2>2
<1>5. CASE PassCandidate
    <2>1. candidates[at] \in Ids
        BY <1>5, ListedAreIds DEF PassCandidate, EngineInv, LoopInv
    <2> QED
        BY <1>0, <1>5, <2>1, JudgeTyped DEF PassCandidate, VerifierOutcomes, Statements
<1>6. CASE RejectCandidate
    <2>1. candidates[at] \in Ids
        BY <1>6, ListedAreIds DEF RejectCandidate, EngineInv, LoopInv
    <2>2. PICK o \in VerifierOutcomes \ {"SUPPORTED"} :
            /\ Judge(candidates[at], "rejected", o,
                     IF o = "CONTRADICTED" THEN "FAILED" ELSE "EVALUATED")
            /\ recovered' = (recovered \/ (o = "CONTRADICTED" /\ candidates[at] = top))
        BY <1>6 DEF RejectCandidate
    <2>3. pc' \in Statements
        BY <1>0, <1>6 DEF RejectCandidate
    <2>4. recovered' \in BOOLEAN
        BY <1>0, <2>2
    <2> QED
        BY <2>1, <2>2, <2>3, <2>4, JudgeTyped
<1>7. CASE CandidatesRejected
    <2>1. CASE Return("no candidate passed verification")
        BY <2>1, ReturnTyped
    <2>2. CASE ~ Return("no candidate passed verification")
        BY <1>0, <1>7, <2>2, EvidenceKept DEF CandidatesRejected, loopVars, Statements
    <2> QED
        BY <2>1, <2>2
<1> QED
    BY <1>1, <1>2, <1>3, <1>4, <1>5, <1>6, <1>7 DEF VerificationPhase

\* Each step of the recovery round keeps them.
LEMMA RecoveryPhaseTyped ==
    EngineInv /\ EvidenceTypes /\ RecoveryPhase /\ Stored \subseteq Stored' => EvidenceTyped
<1> SUFFICES ASSUME EngineInv, EvidenceTypes, RecoveryPhase, Stored \subseteq Stored'
             PROVE  EvidenceTyped
    OBVIOUS
<1>0. pc \in Statements /\ dropped \subseteq Graph!NodeErrors /\ recovered \in BOOLEAN
    BY DEF EvidenceTypes
<1>1. CASE GenerateRecovery
    BY <1>1, GenerateTyped DEF GenerateRecovery, Statements
<1>2. CASE StoreRecovery
    <2>1. linking'.node \in Stored' \cup {NoId}
        BY <1>2, LinkedIsStored DEF Next, RecoveryPhase
    <2> QED
        BY <1>2, <2>1 DEF StoreRecovery, EvidenceTypes, EvidenceTyped, evidenceVars,
                          resultVars, Statements
<1>3. CASE SkipRecoveryDuplicate \/ LinkRecovery \/ RecoveryLinked \/ RankRecovery
    BY <1>0, <1>3, EvidenceKept DEF SkipRecoveryDuplicate, LinkRecovery, RecoveryLinked,
                                    RankRecovery, Statements
<1>4. CASE RecoveryRefused \/ RecoveryRejected
    BY <1>4, ReturnTyped DEF RecoveryRefused, RecoveryRejected
<1>5. CASE RecoveryStored
    <2>1. CASE Return("no candidate passed verification")
        BY <2>1, ReturnTyped
    <2>2. CASE ~ Return("no candidate passed verification")
        BY <1>0, <1>5, <2>2, EvidenceKept DEF RecoveryStored, loopVars, Statements
    <2> QED
        BY <2>1, <2>2
<1>6. CASE EvaluateRecovery
    BY <1>6, EvaluateTyped DEF EvaluateRecovery
<1>7. CASE PassRecovery
    <2>1. batch[at] \in Ids
        BY <1>7, ListedAreIds DEF PassRecovery, EngineInv, LoopInv
    <2> QED
        BY <1>0, <1>7, <2>1, JudgeTyped DEF PassRecovery, VerifierOutcomes, Statements
<1>8. CASE RejectRecovery
    <2>1. batch[at] \in Ids
        BY <1>8, ListedAreIds DEF RejectRecovery, EngineInv, LoopInv
    <2>2. PICK o \in VerifierOutcomes : Judge(batch[at], "rejected", o, "FAILED")
        BY <1>8 DEF RejectRecovery
    <2>3. pc' \in Statements /\ recovered' \in BOOLEAN
        BY <1>0, <1>8 DEF RejectRecovery
    <2> QED
        BY <2>1, <2>2, <2>3, JudgeTyped
<1> QED
    BY <1>1, <1>2, <1>3, <1>4, <1>5, <1>6, <1>7, <1>8 DEF RecoveryPhase

\* The types of the evidence are inductive over the lists of the engine.
LEMMA EvidenceTypesStep ==
    EngineInv /\ EvidenceTypes /\ [Next]_vars => EvidenceTypes'
<1> SUFFICES ASSUME EngineInv, EvidenceTypes, [Next]_vars PROVE EvidenceTyped
    BY DEF EvidenceTyped, EvidenceTypes
<1>0. Stored \subseteq Stored'
    BY StoredGrows
<1>1. CASE Select
    BY <1>0, <1>1 DEF Select, EvidenceTypes, EvidenceTyped, evidenceVars, loopVars, Statements
<1>2. CASE WriteTrace
    <2>1. CASE Return("trace")
        BY <2>1, ReturnTyped
    <2>2. CASE ~ Return("trace")
        BY <1>0, <1>2, <2>2, EvidenceKept DEF WriteTrace, EvidenceTypes, loopVars, Statements
    <2> QED
        BY <2>1, <2>2
<1>3. CASE UNCHANGED vars
    BY <1>0, <1>3, EvidenceKept DEF vars, EvidenceTypes, loopVars
<1> QED
    BY <1>0, <1>1, <1>2, <1>3, InitialPhaseTyped, ExpansionPhaseTyped,
       VerificationPhaseTyped, RecoveryPhaseTyped DEF Next, Returned

-----------------------------------------------------------------------------
(***************************************************************************)
(* Lists without repetition.                                               *)
(***************************************************************************)

Descending(s) == \A i, j \in DOMAIN s : i < j => score[s[j]] <= score[s[i]]

\* The empty list.
LEMMA EmptyList == IsInjective(<<>>) /\ Members(<<>>) = {} /\ Descending(<<>>)
BY DEF IsInjective, Members, Descending

\* A list is empty when it has no members.
LEMMA NoMembers ==
    ASSUME NEW S, NEW s \in Seq(S), Members(s) = {}
    PROVE  s = <<>>
<1>1. CASE s # <<>>
    <2>1. DOMAIN s = 1..Len(s) /\ Len(s) \in Nat \ {0}
        BY <1>1, LenProperties, EmptySeq
    <2>2. 1 \in DOMAIN s
        BY <2>1
    <2>3. s[1] \in Members(s)
        BY <2>2 DEF Members
    <2> QED
        BY <2>3
<1> QED
    BY <1>1

\* The elements of a list are its members.
LEMMA ElementIsMember ==
    ASSUME NEW S, NEW s \in Seq(S), NEW i \in Nat \ {0}, i <= Len(s)
    PROVE  i \in DOMAIN s /\ s[i] \in Members(s)
<1>1. i \in DOMAIN s
    BY LenProperties
<1> QED
    BY <1>1 DEF Members

\* Appending something new.
LEMMA AppendList ==
    ASSUME NEW S, NEW s \in Seq(S), NEW x \in S, x \notin Members(s), IsInjective(s)
    PROVE  /\ IsInjective(Append(s, x))
           /\ Members(Append(s, x)) = Members(s) \cup {x}
<1> DEFINE t == Append(s, x)
<1>1. DOMAIN s = 1..Len(s) /\ Len(s) \in Nat
    BY LenProperties
<1>2. /\ DOMAIN t = 1..(Len(s) + 1)
      /\ \A i \in 1..Len(s) : t[i] = s[i]
      /\ t[Len(s) + 1] = x
    BY AppendProperties, LenProperties
<1>3. Members(t) = Members(s) \cup {x}
    BY <1>1, <1>2 DEF Members
<1>4. IsInjective(t)
    BY <1>1, <1>2 DEF IsInjective, Members
<1> QED
    BY <1>3, <1>4

\* Joining two lists that share nothing.
LEMMA ConcatLists ==
    ASSUME NEW S, NEW s \in Seq(S), NEW t \in Seq(S), IsInjective(s), IsInjective(t),
           Members(s) \cap Members(t) = {}
    PROVE  /\ IsInjective(s \o t)
           /\ Members(s \o t) = Members(s) \cup Members(t)
<1> DEFINE u == s \o t
<1>1. /\ DOMAIN s = 1..Len(s) /\ Len(s) \in Nat
      /\ DOMAIN t = 1..Len(t) /\ Len(t) \in Nat
    BY LenProperties
<1>2. /\ DOMAIN u = 1..(Len(s) + Len(t))
      /\ \A i \in 1..(Len(s) + Len(t)) :
            u[i] = IF i <= Len(s) THEN s[i] ELSE t[i - Len(s)]
    BY ConcatProperties, LenProperties
<1>3. \A i \in DOMAIN u : \/ i \in DOMAIN s /\ u[i] = s[i]
                          \/ i - Len(s) \in DOMAIN t /\ u[i] = t[i - Len(s)]
    BY <1>1, <1>2
<1>4. \A j \in DOMAIN t : j + Len(s) \in DOMAIN u /\ u[j + Len(s)] = t[j]
    BY <1>1, <1>2
<1>5. \A i \in DOMAIN s : i \in DOMAIN u /\ u[i] = s[i]
    BY <1>1, <1>2
<1> HIDE DEF u
<1>6. Members(u) = Members(s) \cup Members(t)
    BY <1>3, <1>4, <1>5 DEF Members
<1>7. IsInjective(u)
    <2> SUFFICES ASSUME NEW i \in DOMAIN u, NEW j \in DOMAIN u, u[i] = u[j] PROVE i = j
        BY DEF IsInjective
    <2>1. i \in Nat /\ j \in Nat
        BY <1>1, <1>2
    <2>2. \A k \in DOMAIN s, l \in DOMAIN t : s[k] # t[l]
        BY DEF Members
    <2>3. CASE i \in DOMAIN s /\ u[i] = s[i] /\ j \in DOMAIN s /\ u[j] = s[j]
        BY <2>3 DEF IsInjective
    <2>4. CASE /\ i - Len(s) \in DOMAIN t /\ u[i] = t[i - Len(s)]
               /\ j - Len(s) \in DOMAIN t /\ u[j] = t[j - Len(s)]
        <3>1. i - Len(s) = j - Len(s)
            BY <2>4 DEF IsInjective
        <3> QED
            BY <1>1, <2>1, <3>1
    <2> QED
        BY <1>3, <2>2, <2>3, <2>4
<1> QED
    BY <1>6, <1>7 DEF u

\* rank and filterViable keep each viable branch once, best first.
LEMMA RankedFacts ==
    ASSUME EngineInv, EvidenceTypes, NEW s \in Seq(Stored), IsInjective(s),
           NEW r \in RankedViable(s)
    PROVE  /\ r \in Seq(Stored)
           /\ IsInjective(r)
           /\ Members(r) = {n \in Members(s) : status[n] \notin Rejectable}
           /\ Descending(r)
<1> DEFINE viable == {i \in DOMAIN s : status[s[i]] \notin Rejectable}
           size   == Cardinality(viable)
<1>1. PICK q \in [1..size -> viable] :
        /\ \A i, j \in 1..size : i < j => Before(s, q[i], q[j])
        /\ r = [i \in 1..size |-> s[q[i]]]
    BY DEF RankedViable
<1>2. DOMAIN s = 1..Len(s) /\ Len(s) \in Nat
    BY LenProperties
<1>3. IsFiniteSet(viable) /\ size \in Nat
    <2>1. IsFiniteSet(1..Len(s))
        BY <1>2, FS_Interval
    <2>2. viable \in SUBSET (1..Len(s))
        BY <1>2
    <2> QED
        BY <2>1, <2>2, FS_Subset, FS_CardinalityType
<1>4. \A k \in viable : s[k] \in Ids /\ score[s[k]] \in Nat
    BY <1>2, ListedAreIds, SearchAssumption DEF EvidenceTypes
<1> HIDE DEF size, viable
<1>5. \A i, j \in 1..size : i < j => q[i] # q[j]
    BY <1>1, <1>4 DEF Before, viable
<1>6. q \in Injection(1..size, viable)
    <2>1. ASSUME NEW i \in 1..size, NEW j \in 1..size, q[i] = q[j] PROVE i = j
        BY <1>3, <1>5, <2>1
    <2> QED
        BY <2>1 DEF Injection, IsInjective
<1>7. q \in Surjection(1..size, viable)
    <2>1. IsFiniteSet(1..size) /\ Cardinality(1..size) = size
        BY <1>3, FS_Interval
    <2> QED
        BY <1>3, <1>6, <2>1, FS_Injection DEF size
<1>8. \A k \in viable : \E i \in 1..size : q[i] = k
    BY <1>7 DEF Surjection
<1>9. DOMAIN r = 1..size /\ \A i \in 1..size : r[i] = s[q[i]] /\ q[i] \in viable
    BY <1>1
<1>10. IsInjective(r)
    <2>1. \A i, j \in 1..size : q[i] = q[j] => i = j
        BY <1>6 DEF Injection, IsInjective
    <2>2. viable \subseteq DOMAIN s
        BY DEF viable
    <2> QED
        BY <1>9, <2>1, <2>2 DEF IsInjective
<1>11. Members(r) = {n \in Members(s) : status[n] \notin Rejectable}
    BY <1>8, <1>9 DEF Members, viable
<1>12. Descending(r)
    BY <1>1, <1>4, <1>9 DEF Descending, Before
<1>13. r \in Seq(Stored)
    BY RankedAreListed
<1> QED
    BY <1>10, <1>11, <1>12, <1>13

\* The branches Retain keeps are some of the viable ones, each once.
LEMMA RetainedFacts ==
    ASSUME NEW S, NEW s \in Seq(S), IsInjective(s)
    PROVE  /\ Retained(s) \in Seq(S)
           /\ IsInjective(Retained(s))
           /\ Members(Retained(s)) \subseteq Members(s)
<1> DEFINE m == AtMost(RetainBranches, Len(s))
           leading == SubSeq(s, 1, m)
<1>1. Len(s) \in Nat /\ DOMAIN s = 1..Len(s) /\ RetainBranches \in Nat /\ m \in Nat /\ m <= Len(s)
    BY LenProperties, SearchAssumption DEF AtMost
<1>2. \A i \in 1..m : s[i] \in S
    BY <1>1, ElementOfSeq
<1>3. leading \in Seq(S) /\ Len(leading) = m /\ \A i \in 1..m : leading[i] = s[i]
    BY <1>1, <1>2, SubSeqProperties
<1>4. DOMAIN leading = 1..m
    BY <1>3, LenProperties
<1> HIDE DEF leading, m
<1>5. IsInjective(leading) /\ Members(leading) \subseteq Members(s)
    BY <1>1, <1>3, <1>4 DEF IsInjective, Members
<1>6. ASSUME Len(s) > Len(leading)
      PROVE  LET x == s[Len(leading) + 1]
             IN  x \in S /\ x \in Members(s) /\ x \notin Members(leading)
    <2>1. m + 1 \in DOMAIN s
        BY <1>1, <1>3, <1>6
    <2>2. s[m + 1] \in S /\ s[m + 1] \in Members(s)
        BY <2>1, <1>1, ElementOfSeq DEF Members
    <2>3. s[m + 1] \notin Members(leading)
        BY <1>1, <1>3, <1>4, <2>1 DEF IsInjective, Members
    <2> QED
        BY <1>3, <2>2, <2>3
<1>7. Retained(s) = leading \/ (Len(s) > Len(leading) /\ Retained(s) = Append(leading, s[Len(leading) + 1]))
    BY DEF Retained, leading, m
<1>8. CASE Retained(s) = leading
    BY <1>3, <1>5, <1>8
<1>9. CASE Len(s) > Len(leading) /\ Retained(s) = Append(leading, s[Len(leading) + 1])
    BY <1>3, <1>5, <1>6, <1>9, AppendList, AppendProperties
<1> QED
    BY <1>7, <1>8, <1>9

-----------------------------------------------------------------------------
(***************************************************************************)
(* No branch is in Run's lists twice, and a branch that waits for its      *)
(* evaluation is as AddNode left it.                                       *)
(***************************************************************************)

Proposing   == {"generate", "store", "regenerate", "restore", "evaluate"}
Expanding   == {"expand", "child", "link", "assess"}
Recovering  == {"recover", "recoverNode", "recoverLink", "recoverEvaluate"}
Unevaluated == Proposing \cup Expanding \cup Recovering
BatchIsSpent == {"generate", "execute", "challenge", "verify", "recover"}

Listed == Members(batch) \cup Members(candidates)

\* The branch created for the current proposal and not listed yet.
Fresh == IF pc \in {"link", "recoverLink"} /\ linking.fresh THEN {linking.node} ELSE {}

ListInv ==
    /\ IsInjective(batch) /\ IsInjective(candidates)
    /\ Members(batch) \cap Members(candidates) = {}
    /\ Fresh \cap Listed = {}
    /\ \A n \in Fresh : status[n] = "PROPOSED"
    /\ pc = "recoverLink" => linking.fresh
    /\ pc \in Unevaluated => \A n \in Members(batch) : status[n] = "PROPOSED"
    /\ pc \in Proposing \cup {"retain"} => candidates = <<>>
    /\ pc \in BatchIsSpent => batch = <<>>

SearchInv == EngineInv /\ EvidenceTypes /\ ListInv

\* AddNode stores a new node as proposed, or changes nothing.
LEMMA AddNodeEffect ==
    ASSUME GraphInv, NEW id, NEW fp, NEW d, Graph!AddNode(id, fp, d)
    PROVE  \/ /\ Graph!AddNodeResult(id, fp, d) = "added"
              /\ Graph!HolderOf(fp) = NoId
              /\ id \notin Stored
              /\ Stored' = Stored \cup {id}
              /\ status'[id] = "PROPOSED"
              /\ \A n \in Stored : status'[n] = status[n]
           \/ /\ Graph!AddNodeResult(id, fp, d) # "added"
              /\ UNCHANGED <<nodes, edges, status>>
              /\ Stored' = Stored
<1>1. CASE Graph!AddNodeResult(id, fp, d) = "added"
    <2>1. Graph!HolderOf(fp) = NoId /\ id \notin Stored
        BY <1>1, StoredIsGraphs DEF Graph!AddNodeResult
    <2>2. Stored' = Stored \cup {id}
        BY <1>1 DEF Graph!AddNode, Graph!Insert, Graph!Extend, Stored
    <2>3. DOMAIN status = Stored
        BY StatusType
    <2> QED
        BY <1>1, <2>1, <2>2, <2>3 DEF Graph!AddNode, Graph!Insert, Graph!Extend
<1>2. CASE Graph!AddNodeResult(id, fp, d) # "added"
    BY <1>2 DEF Graph!AddNode, Graph!graphVars, Stored
<1> QED
    BY <1>1, <1>2

\* Listed branches, and the fresh one, are stored.
LEMMA ListedAreStored ==
    ASSUME EngineInv
    PROVE  /\ batch \in Seq(Stored) /\ candidates \in Seq(Stored)
           /\ Members(batch) \subseteq Stored
           /\ Members(candidates) \subseteq Stored
           /\ Fresh \subseteq Stored
BY MembersStored DEF EngineInv, LoopInv, Fresh

\* Moving on with the same lists.
LEMMA ListsKept ==
    ASSUME ListInv, UNCHANGED <<batch, candidates>>,
           \/ UNCHANGED status
           \/ pc' \notin Unevaluated,
           pc' \notin {"link", "recoverLink"},
           pc' \in Unevaluated => pc \in Unevaluated \/ batch = <<>>,
           pc' \in Proposing \cup {"retain"} => pc \in Proposing,
           pc' \in BatchIsSpent => batch = <<>>
    PROVE  ListInv'
BY EmptyList DEF ListInv, Fresh, Listed

\* A return forgets the lists.
LEMMA ReturnLists ==
    ASSUME NEW error, Return(error)
    PROVE  ListInv'
BY EmptyList DEF Return, ListInv, Fresh, Listed, Unevaluated, Proposing, Expanding,
                 Recovering, BatchIsSpent

\* A call of the generator leaves them alone.
LEMMA GenerateLists ==
    ASSUME ListInv, NEW n, NEW next, Generate(n, next),
           \/ pc \in Proposing /\ next \in {"store", "restore"}
           \/ pc = "expand" /\ next = "child"
           \/ pc = "recover" /\ next = "recoverNode"
    PROVE  ListInv'
<1>1. CASE Return("provider") \/ Return("expected branches")
    BY <1>1, ReturnLists
<1>2. CASE ~ (Return("provider") \/ Return("expected branches"))
    BY <1>2, ListsKept
    DEF Generate, Unevaluated, Proposing, Expanding, Recovering, BatchIsSpent
<1> QED
    BY <1>1, <1>2

\* An evaluation leaves them alone.
LEMMA EvaluateLists ==
    ASSUME ListInv, NEW next, Evaluate(next),
           \/ pc = "evaluate" /\ next = "retain"
           \/ pc = "assess" /\ next = "collect"
           \/ pc = "recoverEvaluate" /\ next = "recoverRank"
    PROVE  ListInv'
<1>1. CASE Return("provider")
    BY <1>1, ReturnLists
<1>2. CASE ~ Return("provider")
    BY <1>2, ListsKept DEF Evaluate, loopVars, Unevaluated, Proposing, Expanding,
                           Recovering, BatchIsSpent
<1> QED
    BY <1>1, <1>2

\* A proposal that is added to the batch.
LEMMA BatchedProposal ==
    ASSUME SearchInv, NEW id \in Ids, NEW fp, NEW d, Graph!AddNode(id, fp, d),
           batch' = IF Graph!AddNodeResult(id, fp, d) = "added" THEN Append(batch, id) ELSE batch,
           candidates = <<>>, candidates' = candidates,
           pc \in {"store", "restore"}, pc' = pc
    PROVE  ListInv'
<1>1. GraphInv /\ batch \in Seq(Stored) /\ Members(batch) \subseteq Stored
    BY ListedAreStored DEF SearchInv, EngineInv
<1>2. CASE Graph!AddNodeResult(id, fp, d) = "added"
    <2>1. /\ id \notin Stored
          /\ Stored' = Stored \cup {id}
          /\ status'[id] = "PROPOSED"
          /\ \A n \in Stored : status'[n] = status[n]
        BY <1>1, <1>2, AddNodeEffect
    <2>2. batch \in Seq(Stored') /\ id \in Stored' /\ id \notin Members(batch)
        BY <1>1, <2>1, SeqMonotonic
    <2>3. IsInjective(batch') /\ Members(batch') = Members(batch) \cup {id}
        BY <1>2, <2>2, AppendList DEF SearchInv, ListInv
    <2> QED
        BY <1>1, <2>1, <2>3, EmptyList
        DEF SearchInv, ListInv, Fresh, Listed, Unevaluated, Proposing, BatchIsSpent
<1>3. CASE Graph!AddNodeResult(id, fp, d) # "added"
    <2>1. UNCHANGED status
        BY <1>1, <1>3, AddNodeEffect
    <2> QED
        BY <1>3, <2>1, ListsKept DEF SearchInv, Unevaluated, Proposing, BatchIsSpent
<1> QED
    BY <1>2, <1>3

\* Each step from the first model call to the retained branches keeps the lists.
LEMMA InitialPhaseLists == SearchInv /\ InitialPhase => ListInv'
<1> SUFFICES ASSUME SearchInv, InitialPhase PROVE ListInv'
    OBVIOUS
<1>0. ListInv /\ EngineInv /\ EvidenceTypes
    BY DEF SearchInv
<1> USE DEF Unevaluated, Proposing, Expanding, Recovering, BatchIsSpent
<1>1. CASE GenerateInitial \/ Regenerate
    BY <1>0, <1>1, GenerateLists DEF GenerateInitial, Regenerate
<1>2. CASE StoreInitial
    <2>1. at \in Ids
        <3>1. Len(pending) \in Nat \ {0}
            BY <1>0, <1>2, EmptySeq DEF StoreInitial, EngineInv, LoopInv
        <3> QED
            BY <1>0, <1>2, <3>1, SearchAssumption DEF StoreInitial, EngineInv, LoopInv, Ids
    <2>2. /\ Graph!AddNode(at, Head(pending), 0)
          /\ batch' = IF Graph!AddNodeResult(at, Head(pending), 0) = "added"
                      THEN Append(batch, at) ELSE batch
          /\ candidates = <<>> /\ candidates' = candidates
          /\ pc \in {"store", "restore"} /\ pc' = pc
        BY <1>0, <1>2 DEF StoreInitial, Propose, Outcome, ListInv
    <2> QED
        BY <2>1, <2>2, BatchedProposal
<1>3. CASE StoreRegenerated
    <2>1. NextId \in Ids
        BY <1>0, NextIdInRange DEF EngineInv
    <2>2. /\ Graph!AddNode(NextId, Head(pending), 0)
          /\ batch' = IF Graph!AddNodeResult(NextId, Head(pending), 0) = "added"
                      THEN Append(batch, NextId) ELSE batch
          /\ candidates = <<>> /\ candidates' = candidates
          /\ pc \in {"store", "restore"} /\ pc' = pc
        BY <1>0, <1>3 DEF StoreRegenerated, Propose, Outcome, ListInv
    <2> QED
        BY <2>1, <2>2, BatchedProposal
<1>4. CASE InitialRefused \/ RegeneratedRefused
    BY <1>4, ReturnLists DEF InitialRefused, RegeneratedRefused
<1>5. CASE InitialStored
    BY <1>0, <1>5, ListsKept DEF InitialStored, loopVars
<1>6. CASE Regenerated
    <2>1. CASE Return("insufficient distinct branches")
        BY <2>1, ReturnLists
    <2>2. CASE ~ Return("insufficient distinct branches")
        BY <1>0, <1>6, <2>2, ListsKept DEF Regenerated, loopVars
    <2> QED
        BY <2>1, <2>2
<1>7. CASE EvaluateInitial
    BY <1>0, <1>7, EvaluateLists DEF EvaluateInitial
<1>8. CASE Retain
    <2>1. PICK viable \in RankedViable(batch) :
            \/ Return("all branches rejected")
            \/ /\ candidates' = Retained(viable)
               /\ batch' = <<>>
               /\ pc' = "expand"
        BY <1>8 DEF Retain
    <2>2. CASE Return("all branches rejected")
        BY <2>2, ReturnLists
    <2>3. CASE ~ Return("all branches rejected")
        <3>1. batch \in Seq(Stored) /\ IsInjective(batch)
            BY <1>0, ListedAreStored DEF ListInv
        <3>2. viable \in Seq(Stored) /\ IsInjective(viable)
            BY <1>0, <3>1, RankedFacts
        <3>3. IsInjective(candidates')
            BY <2>1, <2>3, <3>2, RetainedFacts
        <3> QED
            BY <2>1, <2>3, <3>3, EmptyList DEF ListInv, Fresh, Listed
    <2> QED
        BY <2>2, <2>3
<1> QED
    BY <1>1, <1>2, <1>3, <1>4, <1>5, <1>6, <1>7, <1>8 DEF InitialPhase

\* Each step of the expansion keeps them.
LEMMA ExpansionPhaseLists == SearchInv /\ ExpansionPhase => ListInv'
<1> SUFFICES ASSUME SearchInv, ExpansionPhase PROVE ListInv'
    OBVIOUS
<1>0. ListInv /\ EngineInv /\ EvidenceTypes /\ GraphInv
    BY DEF SearchInv, EngineInv
<1>9. /\ batch \in Seq(Stored) /\ candidates \in Seq(Stored)
      /\ Members(batch) \subseteq Stored
      /\ Members(candidates) \subseteq Stored
    BY <1>0, ListedAreStored
<1> USE DEF Unevaluated, Proposing, Expanding, Recovering, BatchIsSpent
<1>1. CASE ExpandLeader
    BY <1>0, <1>1, GenerateLists DEF ExpandLeader
<1>2. CASE SkipDeepLeader \/ DropChild \/ ExpansionDone
    BY <1>0, <1>2, ListsKept DEF SkipDeepLeader, DropChild, ExpansionDone, loopVars
<1>3. CASE StoreChild
    <2>1. Graph!AddNode(NextId, Head(pending), ChildDepth)
        BY <1>3 DEF StoreChild, Propose
    <2>2. CASE Outcome(NextId, ChildDepth) = "added"
        <3>1. /\ NextId \notin Stored
              /\ status'[NextId] = "PROPOSED"
              /\ \A n \in Stored : status'[n] = status[n]
              /\ Graph!HolderOf(Head(pending)) = NoId
            BY <1>0, <2>1, <2>2, AddNodeEffect DEF Outcome
        <3>2. linking' = [node |-> NextId, fresh |-> TRUE]
            BY <1>3, <2>2, <3>1 DEF StoreChild, Graph!AddNodeReturns
        <3> QED
            BY <1>0, <1>3, <1>9, <3>1, <3>2 DEF StoreChild, ListInv, Fresh, Listed
    <2>3. CASE Outcome(NextId, ChildDepth) # "added"
        <3>1. UNCHANGED status
            BY <1>0, <2>1, <2>3, AddNodeEffect DEF Outcome
        <3>2. linking'.fresh = FALSE
            BY <1>3, <2>3 DEF StoreChild
        <3> QED
            BY <1>0, <1>3, <3>1, <3>2 DEF StoreChild, ListInv, Fresh, Listed
    <2> QED
        BY <2>2, <2>3
<1>4. CASE LinkChild
    <2>1. /\ UNCHANGED <<status, candidates>> /\ pc = "link" /\ pc' = "child"
          /\ batch' = IF linking.fresh THEN Append(batch, linking.node) ELSE batch
        BY <1>4 DEF LinkChild, Graph!AddEdge
    <2>2. CASE linking.fresh
        <3>1. linking.node \in Stored /\ linking.node \notin Listed /\ status[linking.node] = "PROPOSED"
            BY <1>0, <2>1, <2>2 DEF ListInv, Fresh, EngineInv, LoopInv
        <3>2. IsInjective(batch') /\ Members(batch') = Members(batch) \cup {linking.node}
            BY <1>0, <1>9, <2>1, <2>2, <3>1, AppendList DEF ListInv, Listed
        <3> QED
            BY <1>0, <2>1, <3>1, <3>2 DEF ListInv, Fresh, Listed
    <2>3. CASE ~ linking.fresh
        BY <1>0, <2>1, <2>3, ListsKept
    <2> QED
        BY <2>2, <2>3
<1>5. CASE LinkRefused
    BY <1>5, ReturnLists DEF LinkRefused
<1>6. CASE LeaderExpanded
    <2>1. Parent \in Members(candidates)
        BY <1>0, <1>6, <1>9, ElementIsMember DEF LeaderExpanded, Parent, EngineInv, LoopInv
    <2>2. \A n \in Members(batch) : status'[n] = status[n]
        BY <1>0, <1>6, <1>9, <2>1, StatusType DEF LeaderExpanded, ListInv
    <2> QED
        BY <1>0, <1>6, <2>2 DEF LeaderExpanded, ListInv, Fresh, Listed
<1>7. CASE EvaluateChildren
    BY <1>0, <1>7, EvaluateLists DEF EvaluateChildren
<1> QED
    BY <1>1, <1>2, <1>3, <1>4, <1>5, <1>6, <1>7 DEF ExpansionPhase

\* Each step of the main verification keeps them.
LEMMA VerificationPhaseLists == SearchInv /\ VerificationPhase => ListInv'
<1> SUFFICES ASSUME SearchInv, VerificationPhase PROVE ListInv'
    OBVIOUS
<1>0. ListInv /\ EngineInv /\ EvidenceTypes /\ GraphInv
    BY DEF SearchInv, EngineInv
<1>9. /\ batch \in Seq(Stored) /\ candidates \in Seq(Stored)
      /\ Members(batch) \subseteq Stored
      /\ Members(candidates) \subseteq Stored
    BY <1>0, ListedAreStored
<1> USE DEF Unevaluated, Proposing, Expanding, Recovering, BatchIsSpent
<1>1. CASE Collect
    <2>1. candidates \o batch \in Seq(Stored) /\ IsInjective(candidates \o batch)
        BY <1>0, <1>9, ConcatLists, ConcatProperties DEF ListInv
    <2>2. IsInjective(candidates')
        BY <1>0, <1>1, <2>1, RankedFacts DEF Collect
    <2> QED
        BY <1>1, <2>2, EmptyList DEF Collect, ListInv, Fresh, Listed
<1>2. CASE Execute
    <2>1. PICK fp \in Computed :
            /\ Graph!AddNode(NextId, fp, 0)
            /\ candidates' = IF Graph!AddNodeResult(NextId, fp, 0) = "added"
                             THEN Append(candidates, NextId) ELSE candidates
        BY <1>2 DEF Execute
    <2>2. IsInjective(candidates')
        <3>1. CASE Graph!AddNodeResult(NextId, fp, 0) = "added"
            <4>1. NextId \notin Stored /\ Stored' = Stored \cup {NextId}
                BY <1>0, <2>1, <3>1, AddNodeEffect
            <4>2. candidates \in Seq(Stored') /\ NextId \in Stored'
                BY <1>9, <4>1, SeqMonotonic
            <4> QED
                BY <1>0, <1>9, <2>1, <3>1, <4>1, <4>2, AppendList DEF ListInv
        <3>2. CASE Graph!AddNodeResult(NextId, fp, 0) # "added"
            BY <1>0, <2>1, <3>2 DEF ListInv
        <3> QED
            BY <3>1, <3>2
    <2> QED
        BY <1>0, <1>2, <2>2, EmptyList DEF Execute, ListInv, Fresh, Listed
<1>3. CASE NothingToExecute
    BY <1>0, <1>3, ListsKept DEF NothingToExecute, loopVars, ListInv
<1>4. CASE Challenge
    <2>1. CASE Return("provider")
        BY <2>1, ReturnLists
    <2>2. CASE ~ Return("provider")
        BY <1>0, <1>4, <2>2, ListsKept DEF Challenge, loopVars, ListInv
    <2> QED
        BY <2>1, <2>2
<1>5. CASE PassCandidate \/ RejectCandidate
    BY <1>0, <1>5, ListsKept DEF PassCandidate, RejectCandidate, Judge, ListInv
<1>6. CASE CandidatesRejected
    <2>1. CASE Return("no candidate passed verification")
        BY <2>1, ReturnLists
    <2>2. CASE ~ Return("no candidate passed verification")
        BY <1>0, <1>6, <2>2, ListsKept DEF CandidatesRejected, loopVars, ListInv
    <2> QED
        BY <2>1, <2>2
<1> QED
    BY <1>1, <1>2, <1>3, <1>4, <1>5, <1>6 DEF VerificationPhase

\* Each step of the recovery round keeps them.
LEMMA RecoveryPhaseLists == SearchInv /\ RecoveryPhase => ListInv'
<1> SUFFICES ASSUME SearchInv, RecoveryPhase PROVE ListInv'
    OBVIOUS
<1>0. ListInv /\ EngineInv /\ EvidenceTypes /\ GraphInv
    BY DEF SearchInv, EngineInv
<1>9. /\ batch \in Seq(Stored) /\ candidates \in Seq(Stored)
      /\ Members(batch) \subseteq Stored
      /\ Members(candidates) \subseteq Stored
    BY <1>0, ListedAreStored
<1> USE DEF Unevaluated, Proposing, Expanding, Recovering, BatchIsSpent
<1>1. CASE GenerateRecovery
    BY <1>0, <1>1, GenerateLists DEF GenerateRecovery
<1>2. CASE StoreRecovery
    <2>1. Graph!AddNode(NextId, Head(pending), 1)
          /\ Graph!AddNodeResult(NextId, Head(pending), 1) = "added"
        BY <1>2 DEF StoreRecovery, Propose, Outcome
    <2>2. /\ NextId \notin Stored
          /\ status'[NextId] = "PROPOSED"
          /\ \A n \in Stored : status'[n] = status[n]
        BY <1>0, <2>1, AddNodeEffect
    <2> QED
        BY <1>0, <1>2, <1>9, <2>2 DEF StoreRecovery, ListInv, Fresh, Listed
<1>3. CASE SkipRecoveryDuplicate
    BY <1>0, <1>3, ListsKept DEF SkipRecoveryDuplicate
<1>4. CASE RecoveryRefused \/ RecoveryRejected
    BY <1>4, ReturnLists DEF RecoveryRefused, RecoveryRejected
<1>5. CASE LinkRecovery
    BY <1>0, <1>5 DEF LinkRecovery, Graph!AddEdge, ListInv, Fresh, Listed
<1>6. CASE RecoveryLinked
    <2>1. /\ linking.node \in Stored /\ linking.node \notin Listed
          /\ status[linking.node] = "PROPOSED"
        BY <1>0, <1>6 DEF RecoveryLinked, ListInv, Fresh, EngineInv, LoopInv
    <2>2. IsInjective(batch') /\ Members(batch') = Members(batch) \cup {linking.node}
        BY <1>0, <1>6, <1>9, <2>1, AppendList DEF RecoveryLinked, ListInv, Listed
    <2> QED
        BY <1>0, <1>6, <2>1, <2>2 DEF RecoveryLinked, ListInv, Fresh, Listed
<1>7. CASE RecoveryStored
    <2>1. CASE Return("no candidate passed verification")
        BY <2>1, ReturnLists
    <2>2. CASE ~ Return("no candidate passed verification")
        BY <1>0, <1>7, <2>2, ListsKept DEF RecoveryStored, loopVars
    <2> QED
        BY <2>1, <2>2
<1>8. CASE EvaluateRecovery
    BY <1>0, <1>8, EvaluateLists DEF EvaluateRecovery
<1>10. CASE RankRecovery
    <2>1. IsInjective(batch') /\ Members(batch') \subseteq Members(batch)
        BY <1>0, <1>9, <1>10, RankedFacts DEF RankRecovery, ListInv
    <2> QED
        BY <1>0, <1>10, <2>1 DEF RankRecovery, ListInv, Fresh, Listed
<1>11. CASE PassRecovery \/ RejectRecovery
    BY <1>0, <1>11, ListsKept DEF PassRecovery, RejectRecovery, Judge
<1> QED
    BY <1>1, <1>2, <1>3, <1>4, <1>5, <1>6, <1>7, <1>8, <1>10, <1>11 DEF RecoveryPhase

\* The lists stay without repetition.
LEMMA ListInvStep == SearchInv /\ [Next]_vars => ListInv'
<1> SUFFICES ASSUME SearchInv, [Next]_vars PROVE ListInv'
    OBVIOUS
<1>0. ListInv
    BY DEF SearchInv
<1> USE DEF Unevaluated, Proposing, Expanding, Recovering, BatchIsSpent
<1>1. CASE Select
    BY <1>0, <1>1, ListsKept DEF Select, loopVars
<1>2. CASE WriteTrace
    <2>1. CASE Return("trace")
        BY <2>1, ReturnLists
    <2>2. CASE ~ Return("trace")
        BY <1>0, <1>2, <2>2, ListsKept DEF WriteTrace, loopVars
    <2> QED
        BY <2>1, <2>2
<1>3. CASE UNCHANGED vars
    BY <1>0, <1>3 DEF vars, loopVars, ListInv, Fresh, Listed
<1> QED
    BY <1>1, <1>2, <1>3, InitialPhaseLists, ExpansionPhaseLists,
       VerificationPhaseLists, RecoveryPhaseLists DEF Next, Returned

\* A run starts with nothing learnt and nothing listed.
LEMMA SearchInvInit == Init => SearchInv
<1> SUFFICES ASSUME Init PROVE SearchInv
    OBVIOUS
<1>1. EngineInv
    BY EngineInvInit
<1>2. EvidenceTypes
    <2>1. <<>> \in Seq(Results) /\ 0 \in 0..MaxScore
        BY EmptySeq, SearchAssumption
    <2>2. linking \in [node : Stored \cup {NoId}, fresh : BOOLEAN]
        BY DEF Init, Unlinked
    <2>3. wells \in [Wells -> [applications : Nat, outcomes : Nat]]
        BY DEF Init
    <2> QED
        BY <2>1, <2>2, <2>3 DEF Init, EvidenceTypes, Statements
<1>3. ListInv
    BY EmptyList DEF Init, ListInv, Fresh, Listed, Unevaluated, Proposing, Expanding,
                     Recovering, BatchIsSpent
<1> QED
    BY <1>1, <1>2, <1>3 DEF SearchInv

\* Lists and evidence keep their form.
LEMMA SearchInvStep == SearchInv /\ [Next]_vars => SearchInv'
BY EngineInvStep, EvidenceTypesStep, ListInvStep DEF SearchInv

-----------------------------------------------------------------------------
(***************************************************************************)
(* Verdicts, statuses and who is still to be tried.                        *)
(***************************************************************************)

\* The run still looks for a branch.
Open == pc \notin {"select", "trace", "selected", "failed"}

\* What the current loop has put to the verifier of its list.
TriedOf(s) == {s[i] : i \in {j \in DOMAIN s : j < at}}

\* What the run has put to the verifier, all of it in vain while it is open.
Tried == IF pc = "verify" THEN TriedOf(candidates)
         ELSE IF pc \in Recovering \cup {"recoverRank"} THEN Members(candidates)
         ELSE IF pc = "recoverVerify" THEN Members(candidates) \cup TriedOf(batch)
         ELSE {}

\* Verdicts and measurements tell which branches were tried, each once.
VerdictInv ==
    /\ Open => \A n \in Ids : verdict[n] = IF n \in Tried THEN "rejected" ELSE "none"
    /\ \A n \in Ids : verdict[n] = "none" => measurements[n] = <<>>
    /\ \A n \in Ids : verdict[n] = "passed" => measurements[n] = Measured(<<>>, "SUPPORTED")
    /\ pc \in {"select", "trace", "selected"} => \A n \in Ids : verdict[n] = "passed" <=> n = winner
    /\ pc \in {"execute", "challenge"} => at = 1

\* What is still to be tried has not been rejected, and nothing is selected
\* before the end.
StatusInv ==
    /\ Open => \A n \in Stored : status[n] \notin {"VERIFIED", "SELECTED"}
    /\ \A n \in Stored : status[n] = "FAILED" => verdict[n] = "rejected"
    /\ \A n \in Members(candidates) : verdict[n] = "none" => status[n] \notin Rejectable
    /\ pc = "recoverVerify" =>
          \A n \in Members(batch) : verdict[n] = "none" => status[n] \notin Rejectable
    /\ pc = "select" => status[winner] = "VERIFIED" /\ \A n \in Stored : status[n] # "SELECTED"
    /\ pc \in {"trace", "selected"} => \A n \in Stored : status[n] = "SELECTED" <=> n = winner

\* No branch gets lost: each is pruned, listed, or about to be listed.
AccountInv ==
    /\ Open => \A n \in Stored : status[n] = "PRUNED" \/ n \in Listed \cup Fresh
    /\ pc # "failed" => failure = "none"
    /\ NothingUntried

CaseInv == VerdictInv /\ StatusInv /\ AccountInv

\* What a step owes: the invariant, and the two action properties.
Final == \A n \in Stored : status[n] \in Rejectable => status'[n] = status[n]

Once == \A n \in Stored : verdict[n] # "none" =>
            /\ verdict'[n] = verdict[n]
            /\ measurements'[n] = measurements[n]

CaseStep == CaseInv' /\ Final /\ Once

\* A return leaves the evidence, and may say that nothing is left to try.
LEMMA ReturnCase ==
    ASSUME SearchInv, CaseInv, NEW error, Return(error),
           error = "no candidate passed verification" => \A n \in Stored : ~ Untried(n)
    PROVE  CaseStep
<1>1. UNCHANGED <<nodes, status, verdict, measurements, winner>> /\ pc' = "failed"
      /\ candidates' = <<>> /\ failure' = error
    BY DEF Return, evidenceVars, resultVars
<1>2. Stored' = Stored
    BY <1>1 DEF Stored
<1>3. VerdictInv'
    BY <1>1 DEF CaseInv, VerdictInv, Open
<1>4. StatusInv'
    BY <1>1, <1>2, EmptyList DEF CaseInv, StatusInv, Open
<1>5. AccountInv'
    BY <1>1, <1>2 DEF AccountInv, Open, NothingUntried, Untried
<1> QED
    BY <1>1, <1>3, <1>4, <1>5 DEF CaseStep, CaseInv, Final, Once

\* Moving on within the search.
LEMMA MoveCase ==
    ASSUME SearchInv, CaseInv, Open, Open', pc' # "recoverVerify",
           UNCHANGED <<nodes, status, verdict, measurements, batch, candidates, failure>>,
           Tried' = Tried, Fresh' = Fresh,
           pc' \in {"execute", "challenge"} => at' = 1
    PROVE  CaseStep
<1>1. Stored' = Stored /\ pc # "failed" /\ pc' # "failed" /\ failure = "none"
    BY DEF Stored, Open, CaseInv, AccountInv
<1>2. VerdictInv'
    BY DEF CaseInv, VerdictInv, Open
<1>3. StatusInv'
    BY <1>1 DEF CaseInv, StatusInv, Open
<1>4. AccountInv'
    BY <1>1 DEF CaseInv, AccountInv, Open, NothingUntried, Listed
<1> QED
    BY <1>2, <1>3, <1>4 DEF CaseStep, CaseInv, Final, Once

\* Storing a proposal: the new branch is listed, or about to be.
LEMMA StoreCase ==
    ASSUME SearchInv, CaseInv, Open, Open', pc' # "recoverVerify",
           NEW id \in Ids,
           id \notin Stored, Stored' = Stored \cup {id},
           status'[id] = "PROPOSED", \A n \in Stored : status'[n] = status[n],
           UNCHANGED <<verdict, measurements, failure>>,
           Members(candidates) \subseteq Members(candidates'),
           Members(candidates') \subseteq Members(candidates) \cup {id},
           Members(batch) \subseteq Members(batch'),
           Fresh \subseteq Fresh' \cup Members(batch'),
           id \in Members(batch') \cup Members(candidates') \cup Fresh',
           Tried' = Tried,
           pc' \in {"execute", "challenge"} => at' = 1
    PROVE  CaseStep
<1>1. pc # "failed" /\ pc' # "failed" /\ failure = "none"
    BY DEF Open, CaseInv, AccountInv
<1>2. VerdictInv'
    BY DEF CaseInv, VerdictInv, Open
<1>3. Members(candidates) \subseteq Stored
    BY ListedAreStored DEF SearchInv
<1>4. StatusInv'
    BY <1>1, <1>3 DEF CaseInv, StatusInv, Open, Rejectable
<1>5. AccountInv'
    BY <1>1 DEF CaseInv, AccountInv, Open, NothingUntried, Listed
<1> QED
    BY <1>2, <1>4, <1>5 DEF CaseStep, CaseInv, Final, Once

\* A call of the generator.
LEMMA GenerateCase ==
    ASSUME SearchInv, CaseInv, NEW n, NEW next, Generate(n, next),
           \/ pc \in Proposing /\ next \in {"store", "restore"}
           \/ pc = "expand" /\ next = "child"
           \/ pc = "recover" /\ next = "recoverNode"
    PROVE  CaseStep
<1>1. CASE Return("provider") \/ Return("expected branches")
    BY <1>1, ReturnCase
<1>2. CASE ~ (Return("provider") \/ Return("expected branches"))
    <2>1. UNCHANGED <<nodes, status, verdict, measurements, batch, candidates, failure>>
          /\ pc' = next
        BY <1>2 DEF Generate, evidenceVars
    <2>2. Open /\ Open'
        BY <2>1 DEF Open, Proposing
    <2>3. Tried' = Tried /\ Fresh' = Fresh
        BY <2>1 DEF Tried, Fresh, Proposing, Recovering
    <2> QED
        BY <2>1, <2>2, <2>3, MoveCase
<1> QED
    BY <1>1, <1>2

\* An evaluation.
LEMMA EvaluateCase ==
    ASSUME SearchInv, CaseInv, NEW next, Evaluate(next),
           \/ pc = "evaluate" /\ next = "retain"
           \/ pc = "assess" /\ next = "collect"
           \/ pc = "recoverEvaluate" /\ next = "recoverRank"
    PROVE  CaseStep
<1>1. CASE Return("provider")
    BY <1>1, ReturnCase
<1>2. CASE ~ Return("provider")
    <2>1. /\ UNCHANGED <<nodes, verdict, measurements, batch, candidates, failure, winner>>
          /\ pc' = next /\ Stored' = Stored
          /\ \A n \in Stored : \/ n \notin Members(batch) /\ status'[n] = status[n]
                               \/ n \in Members(batch) /\ status'[n] \in {"PRUNED", "EVALUATED"}
        BY <1>2 DEF Evaluate, loopVars, resultVars, Stored
    <2>2. Open /\ Open' /\ failure = "none" /\ pc' # "failed" /\ Fresh = {}
        BY <2>1 DEF Open, CaseInv, AccountInv, Fresh
    <2>3. Tried' = Tried
        BY <2>1 DEF Tried, Recovering
    <2>4. VerdictInv'
        BY <2>1, <2>2, <2>3 DEF CaseInv, VerdictInv, Open
    <2>5. /\ \A n \in Members(batch) : status[n] = "PROPOSED"
          /\ Members(batch) \cap Members(candidates) = {}
          /\ Members(candidates) \subseteq Stored
        BY ListedAreStored DEF SearchInv, ListInv, Unevaluated, Proposing, Expanding, Recovering
    <2>6. StatusInv'
        BY <2>1, <2>2, <2>5 DEF CaseInv, StatusInv, Open
    <2>7. AccountInv'
        BY <2>1, <2>2 DEF CaseInv, AccountInv, Open, NothingUntried, Listed
    <2>8. Final /\ Once
        BY <2>1, <2>5 DEF Final, Once, Rejectable
    <2> QED
        BY <2>4, <2>6, <2>7, <2>8 DEF CaseStep, CaseInv
<1> QED
    BY <1>1, <1>2

\* One more element of a list without repetition is tried.
LEMMA TriedGrows ==
    ASSUME NEW S, NEW s \in Seq(S), IsInjective(s), NEW k \in Nat \ {0}, k <= Len(s)
    PROVE  /\ s[k] \notin {s[i] : i \in {j \in DOMAIN s : j < k}}
           /\ {s[i] : i \in {j \in DOMAIN s : j < k + 1}}
                = {s[i] : i \in {j \in DOMAIN s : j < k}} \cup {s[k]}
<1>1. DOMAIN s = 1..Len(s) /\ Len(s) \in Nat /\ k \in DOMAIN s
    BY LenProperties
<1>2. \A j \in DOMAIN s : j < k + 1 <=> j < k \/ j = k
    BY <1>1
<1>3. \A j \in DOMAIN s : s[j] = s[k] => ~ (j < k)
    BY <1>1 DEF IsInjective
<1> QED
    BY <1>1, <1>2, <1>3

\* Before the first element none is tried, after the last one all are.
LEMMA TriedEnds ==
    ASSUME NEW S, NEW s \in Seq(S)
    PROVE  /\ {s[i] : i \in {j \in DOMAIN s : j < 1}} = {}
           /\ \A k \in Nat : k > Len(s) => {s[i] : i \in {j \in DOMAIN s : j < k}} = Members(s)
<1>1. DOMAIN s = 1..Len(s) /\ Len(s) \in Nat
    BY LenProperties
<1> QED
    BY <1>1 DEF Members

\* The branch a loop is at has not been tried, and can be.
LEMMA NextToTry ==
    ASSUME SearchInv, CaseInv,
           NEW s, \/ pc = "verify" /\ s = candidates
                  \/ pc = "recoverVerify" /\ s = batch,
           at <= Len(s)
    PROVE  /\ s[at] \in Stored /\ s[at] \in Ids /\ s[at] \in Members(s)
           /\ s[at] \notin Tried
           /\ status[s[at]] \notin Rejectable
           /\ UNCHANGED <<pc, candidates, batch>> /\ at' = at + 1 => Tried' = Tried \cup {s[at]}
<1>1. s \in Seq(Stored) /\ IsInjective(s) /\ at \in Nat \ {0}
    BY DEF SearchInv, EngineInv, LoopInv, ListInv
<1>2. s[at] \in Stored /\ s[at] \in Ids /\ s[at] \in Members(s)
    BY <1>1, ListedAreIds, ElementIsMember DEF SearchInv
<1>3. s[at] \notin Tried
    BY <1>1, <1>2, TriedGrows DEF Tried, TriedOf, Recovering, SearchInv, ListInv
<1>4. verdict[s[at]] = "none"
    BY <1>2, <1>3 DEF CaseInv, VerdictInv, Open
<1>5. status[s[at]] \notin Rejectable
    BY <1>2, <1>4 DEF CaseInv, StatusInv
<1>6. ASSUME UNCHANGED <<pc, candidates, batch>>, at' = at + 1
      PROVE  Tried' = Tried \cup {s[at]}
    <2>1. {s[i] : i \in {j \in DOMAIN s : j < at'}} = {s[i] : i \in {j \in DOMAIN s : j < at}} \cup {s[at]}
        BY <1>1, <1>6, TriedGrows
    <2>2. CASE pc = "verify" /\ s = candidates
        <3>1. /\ Tried = {s[i] : i \in {j \in DOMAIN s : j < at}}
              /\ Tried' = {s[i] : i \in {j \in DOMAIN s : j < at'}}
            BY <1>6, <2>2 DEF Tried, TriedOf
        <3> QED
            BY <2>1, <3>1
    <2>3. CASE pc = "recoverVerify" /\ s = batch
        <3>1. /\ Tried = Members(candidates) \cup {s[i] : i \in {j \in DOMAIN s : j < at}}
              /\ Tried' = Members(candidates) \cup {s[i] : i \in {j \in DOMAIN s : j < at'}}
            BY <1>6, <2>3 DEF Tried, TriedOf, Recovering
        <3> QED
            BY <2>1, <3>1
    <2> QED
        BY <2>2, <2>3
<1> QED
    BY <1>2, <1>3, <1>5, <1>6

\* A verdict against a branch.
LEMMA RejectCase ==
    ASSUME SearchInv, CaseInv, pc \in {"verify", "recoverVerify"}, pc' = pc,
           NEW n \in Stored, n \in Ids, n \notin Tried, status[n] \notin Rejectable,
           NEW o, NEW st \in {"FAILED", "EVALUATED"}, Judge(n, "rejected", o, st),
           Tried' = Tried \cup {n}
    PROVE  CaseStep
<1>1. /\ verdict' = [verdict EXCEPT ![n] = "rejected"]
      /\ measurements' = [measurements EXCEPT ![n] = Measured(@, o)]
      /\ status' = [status EXCEPT ![n] = st]
      /\ UNCHANGED <<nodes, batch, candidates, failure>>
      /\ Stored' = Stored
    BY DEF Judge, Stored
<1>2. /\ DOMAIN verdict = Ids /\ DOMAIN measurements = Ids /\ DOMAIN status = Stored
      /\ Stored \subseteq Ids
    BY StatusType, StoredIsGraphs
    DEF SearchInv, EvidenceTypes, EngineInv, GraphInv, Graph!TypeOK
<1>3. Open /\ Open' /\ failure = "none" /\ pc' # "failed" /\ Fresh' = Fresh /\ Fresh = {}
    BY DEF Open, CaseInv, AccountInv, Fresh
<1>4. verdict[n] = "none"
    BY <1>2, <1>3 DEF CaseInv, VerdictInv
<1>5. VerdictInv'
    BY <1>1, <1>2, <1>3 DEF CaseInv, VerdictInv, Open
<1>6. StatusInv'
    BY <1>1, <1>2, <1>3 DEF CaseInv, StatusInv, Open
<1>7. AccountInv'
    BY <1>1, <1>2, <1>3 DEF CaseInv, AccountInv, Open, NothingUntried, Listed, Rejectable
<1>8. Final /\ Once
    BY <1>1, <1>2, <1>4 DEF Final, Once
<1> QED
    BY <1>5, <1>6, <1>7, <1>8 DEF CaseStep, CaseInv

\* The verdict for the winner.
LEMMA PassCase ==
    ASSUME SearchInv, CaseInv, pc \in {"verify", "recoverVerify"}, pc' = "select",
           NEW n \in Stored, n \in Ids, n \notin Tried, status[n] \notin Rejectable,
           Judge(n, "passed", "SUPPORTED", "VERIFIED"), winner' = n
    PROVE  CaseStep
<1>1. /\ verdict' = [verdict EXCEPT ![n] = "passed"]
      /\ measurements' = [measurements EXCEPT ![n] = Measured(@, "SUPPORTED")]
      /\ status' = [status EXCEPT ![n] = "VERIFIED"]
      /\ UNCHANGED <<nodes, batch, candidates, failure>>
      /\ Stored' = Stored
    BY DEF Judge, Stored
<1>2. /\ DOMAIN verdict = Ids /\ DOMAIN measurements = Ids /\ DOMAIN status = Stored
      /\ Stored \subseteq Ids
    BY StatusType, StoredIsGraphs
    DEF SearchInv, EvidenceTypes, EngineInv, GraphInv, Graph!TypeOK
<1>3. Open /\ ~ Open' /\ failure = "none" /\ pc' # "failed"
    BY DEF Open, CaseInv, AccountInv
<1>4. verdict[n] = "none" /\ measurements[n] = <<>>
    BY <1>2, <1>3 DEF CaseInv, VerdictInv
<1>5. VerdictInv'
    BY <1>1, <1>2, <1>3, <1>4 DEF CaseInv, VerdictInv, Open
<1>6. StatusInv'
    BY <1>1, <1>2, <1>3 DEF CaseInv, StatusInv, Open, Rejectable
<1>7. AccountInv'
    BY <1>1, <1>2, <1>3 DEF CaseInv, AccountInv, Open, NothingUntried
<1>8. Final /\ Once
    BY <1>1, <1>2, <1>4 DEF Final, Once
<1> QED
    BY <1>5, <1>6, <1>7, <1>8 DEF CaseStep, CaseInv

\* Nothing is tried before the verification.
LEMMA NoneTried ==
    ASSUME pc \notin {"verify", "recoverRank", "recoverVerify"} \cup Recovering
    PROVE  Tried = {}
BY DEF Tried

\* A proposal that is added to the batch.
LEMMA BatchedCase ==
    ASSUME SearchInv, CaseInv, NEW id \in Ids, NEW fp, NEW d, Graph!AddNode(id, fp, d),
           batch' = IF Graph!AddNodeResult(id, fp, d) = "added" THEN Append(batch, id) ELSE batch,
           pc \in {"store", "restore"}, pc' = pc,
           UNCHANGED <<candidates, verdict, measurements, failure>>
    PROVE  CaseStep
<1>1. GraphInv /\ batch \in Seq(Stored) /\ Members(batch) \subseteq Stored /\ IsInjective(batch)
    BY ListedAreStored DEF SearchInv, EngineInv, ListInv
<1>2. Open /\ Open' /\ Tried = {} /\ Tried' = {} /\ Fresh = {} /\ Fresh' = {}
    BY DEF Open, Tried, Fresh, Recovering
<1>3. CASE Graph!AddNodeResult(id, fp, d) = "added"
    <2>1. /\ id \notin Stored
          /\ Stored' = Stored \cup {id}
          /\ status'[id] = "PROPOSED"
          /\ \A n \in Stored : status'[n] = status[n]
        BY <1>1, <1>3, AddNodeEffect
    <2>2. batch \in Seq(Stored') /\ id \in Stored' /\ id \notin Members(batch)
        BY <1>1, <2>1, SeqMonotonic
    <2>3. Members(batch') = Members(batch) \cup {id}
        BY <1>1, <1>3, <2>2, AppendList
    <2> QED
        BY <1>2, <2>1, <2>3, StoreCase
<1>4. CASE Graph!AddNodeResult(id, fp, d) # "added"
    BY <1>1, <1>2, <1>4, AddNodeEffect, MoveCase
<1> QED
    BY <1>3, <1>4

\* Each step from the first model call to the retained branches.
LEMMA InitialPhaseCase == SearchInv /\ CaseInv /\ InitialPhase => CaseStep
<1> SUFFICES ASSUME SearchInv, CaseInv, InitialPhase PROVE CaseStep
    OBVIOUS
<1>1. CASE GenerateInitial \/ Regenerate
    BY <1>1, GenerateCase DEF GenerateInitial, Regenerate, Proposing
<1>2. CASE StoreInitial
    <2>1. at \in Ids
        <3>1. Len(pending) \in Nat \ {0}
            BY <1>2, EmptySeq DEF StoreInitial, SearchInv, EngineInv, LoopInv
        <3> QED
            BY <1>2, <3>1, SearchAssumption DEF StoreInitial, SearchInv, EngineInv, LoopInv, Ids
    <2>2. /\ Graph!AddNode(at, Head(pending), 0)
          /\ batch' = IF Graph!AddNodeResult(at, Head(pending), 0) = "added"
                      THEN Append(batch, at) ELSE batch
          /\ UNCHANGED <<candidates, verdict, measurements, failure>>
          /\ pc \in {"store", "restore"} /\ pc' = pc
        BY <1>2 DEF StoreInitial, Propose, Outcome, evidenceVars
    <2> QED
        BY <2>1, <2>2, BatchedCase
<1>3. CASE StoreRegenerated
    <2>1. NextId \in Ids
        BY NextIdInRange DEF SearchInv, EngineInv
    <2>2. /\ Graph!AddNode(NextId, Head(pending), 0)
          /\ batch' = IF Graph!AddNodeResult(NextId, Head(pending), 0) = "added"
                      THEN Append(batch, NextId) ELSE batch
          /\ UNCHANGED <<candidates, verdict, measurements, failure>>
          /\ pc \in {"store", "restore"} /\ pc' = pc
        BY <1>3 DEF StoreRegenerated, Propose, Outcome, evidenceVars
    <2> QED
        BY <2>1, <2>2, BatchedCase
<1>4. CASE InitialRefused \/ RegeneratedRefused
    BY <1>4, ReturnCase DEF InitialRefused, RegeneratedRefused, Graph!NodeErrors
<1>5. CASE InitialStored
    BY <1>5, MoveCase DEF InitialStored, loopVars, evidenceVars, Open, Tried, Fresh, Recovering
<1>6. CASE Regenerated
    <2>1. CASE Return("insufficient distinct branches")
        BY <2>1, ReturnCase
    <2>2. CASE ~ Return("insufficient distinct branches")
        BY <1>6, <2>2, MoveCase
        DEF Regenerated, loopVars, evidenceVars, Open, Tried, Fresh, Recovering
    <2> QED
        BY <2>1, <2>2
<1>7. CASE EvaluateInitial
    BY <1>7, EvaluateCase DEF EvaluateInitial
<1>8. CASE Retain
    <2>1. PICK viable \in RankedViable(batch) :
            \/ Return("all branches rejected")
            \/ /\ candidates' = Retained(viable)
               /\ status' = [n \in Stored |->
                               IF n \in Members(Retained(viable)) THEN "ACTIVE"
                               ELSE IF n \in Members(batch) THEN "PRUNED"
                               ELSE status[n]]
               /\ pc' = "expand"
               /\ UNCHANGED <<nodes, evidenceVars, failure>>
        BY <1>8 DEF Retain
    <2>2. CASE Return("all branches rejected")
        BY <2>2, ReturnCase
    <2>3. CASE ~ Return("all branches rejected")
        <3>1. batch \in Seq(Stored) /\ IsInjective(batch) /\ candidates = <<>> /\ pc = "retain"
            BY <1>8, ListedAreStored DEF Retain, SearchInv, ListInv
        <3>2. /\ viable \in Seq(Stored) /\ IsInjective(viable)
              /\ Members(viable) = {n \in Members(batch) : status[n] \notin Rejectable}
            BY <3>1, RankedFacts DEF SearchInv
        <3>3. Members(candidates') \subseteq Members(viable)
            BY <2>1, <2>3, <3>2, RetainedFacts
        <3>4. /\ UNCHANGED <<verdict, measurements, failure>> /\ Stored' = Stored
              /\ \A n \in Stored : status'[n] = IF n \in Members(candidates') THEN "ACTIVE"
                                                ELSE IF n \in Members(batch) THEN "PRUNED"
                                                ELSE status[n]
            BY <2>1, <2>3 DEF evidenceVars, Stored
        <3>5. /\ Open /\ Open' /\ Tried = {} /\ Tried' = {} /\ Fresh = {} /\ Fresh' = {}
              /\ pc' = "expand"
              /\ failure = "none" /\ Members(candidates) = {}
            BY <2>1, <2>3, <3>1, EmptyList
            DEF Open, Tried, Fresh, Recovering, CaseInv, AccountInv
        <3>6. \A n \in Stored : n \in Ids /\ verdict[n] = "none" /\ status[n] # "FAILED"
            BY <3>5, StoredIsGraphs
            DEF CaseInv, VerdictInv, StatusInv, SearchInv, EngineInv, GraphInv, Graph!TypeOK
        <3>7. VerdictInv'
            BY <3>4, <3>5 DEF CaseInv, VerdictInv
        <3>8. Members(candidates') \subseteq Stored
            BY <3>1, <3>2, <3>3, MembersStored
        <3>9. StatusInv'
            BY <3>4, <3>5, <3>6, <3>8 DEF CaseInv, StatusInv, Rejectable
        <3>10. AccountInv'
            BY <3>4, <3>5 DEF CaseInv, AccountInv, NothingUntried, Listed
        <3>11. Final /\ Once
            BY <3>2, <3>3, <3>4, <3>6 DEF Final, Once, Rejectable
        <3> QED
            BY <3>7, <3>9, <3>10, <3>11 DEF CaseStep, CaseInv
    <2> QED
        BY <2>2, <2>3
<1> QED
    BY <1>1, <1>2, <1>3, <1>4, <1>5, <1>6, <1>7, <1>8 DEF InitialPhase

\* A branch that is linked joins the batch, or was listed before.
LEMMA LinkedCase ==
    ASSUME SearchInv, CaseInv,
           \/ pc = "link" /\ pc' = "child"
           \/ pc = "recoverLink" /\ pc' = "recoverNode",
           batch' = IF linking.fresh THEN Append(batch, linking.node) ELSE batch,
           UNCHANGED <<nodes, status, verdict, measurements, candidates, failure>>
    PROVE  CaseStep
<1>1. /\ batch \in Seq(Stored) /\ IsInjective(batch)
      /\ linking.node \in Stored
      /\ linking.fresh => linking.node \notin Members(batch)
    BY DEF SearchInv, EngineInv, LoopInv, ListInv, Fresh, Listed
<1>2. Members(batch') = Members(batch) \cup Fresh
    BY <1>1, AppendList DEF Fresh
<1>3. /\ Open /\ Open' /\ Fresh' = {} /\ Tried' = Tried /\ Stored' = Stored
      /\ failure = "none" /\ pc' # "failed"
    BY DEF Open, Fresh, Tried, Recovering, CaseInv, AccountInv, Stored
<1>4. VerdictInv'
    BY <1>3 DEF CaseInv, VerdictInv
<1>5. StatusInv'
    BY <1>3 DEF CaseInv, StatusInv
<1>6. AccountInv'
    BY <1>2, <1>3 DEF CaseInv, AccountInv, NothingUntried, Listed
<1> QED
    BY <1>4, <1>5, <1>6 DEF CaseStep, CaseInv, Final, Once

\* Each step of the expansion.
LEMMA ExpansionPhaseCase == SearchInv /\ CaseInv /\ ExpansionPhase => CaseStep
<1> SUFFICES ASSUME SearchInv, CaseInv, ExpansionPhase PROVE CaseStep
    OBVIOUS
<1>0. /\ GraphInv /\ Members(candidates) \subseteq Stored
      /\ DOMAIN status = Stored
    BY ListedAreStored, StatusType DEF SearchInv, EngineInv
<1>1. CASE ExpandLeader
    BY <1>1, GenerateCase DEF ExpandLeader
<1>2. CASE SkipDeepLeader \/ DropChild \/ ExpansionDone
    BY <1>2, MoveCase DEF SkipDeepLeader, DropChild, ExpansionDone, loopVars, evidenceVars,
                          Open, Tried, Fresh, Recovering
<1>3. CASE StoreChild
    <2>1. Graph!AddNode(NextId, Head(pending), ChildDepth)
        BY <1>3 DEF StoreChild, Propose
    <2>2. /\ Open /\ Open' /\ Tried = {} /\ Tried' = {} /\ Fresh = {} /\ pc' = "link"
          /\ UNCHANGED <<verdict, measurements, candidates, batch, failure>>
        BY <1>3 DEF StoreChild, evidenceVars, Open, Tried, Fresh, Recovering
    <2>3. CASE Outcome(NextId, ChildDepth) = "added"
        <3>1. /\ NextId \notin Stored
              /\ Stored' = Stored \cup {NextId}
              /\ status'[NextId] = "PROPOSED"
              /\ \A n \in Stored : status'[n] = status[n]
              /\ Graph!HolderOf(Head(pending)) = NoId
            BY <1>0, <2>1, <2>3, AddNodeEffect DEF Outcome
        <3>2. linking' = [node |-> NextId, fresh |-> TRUE]
            BY <1>3, <2>3, <3>1 DEF StoreChild, Graph!AddNodeReturns
        <3>3. Fresh' = {NextId}
            BY <2>2, <3>2 DEF Fresh
        <3>4. NextId \in Ids
            BY <1>0, NextIdInRange
        <3> QED
            BY <2>2, <3>1, <3>3, <3>4, StoreCase
    <2>4. CASE Outcome(NextId, ChildDepth) # "added"
        <3>1. UNCHANGED <<nodes, status>>
            BY <1>0, <2>1, <2>4, AddNodeEffect DEF Outcome
        <3>2. Fresh' = {}
            BY <1>3, <2>4 DEF StoreChild, Fresh
        <3> QED
            BY <2>2, <3>1, <3>2, MoveCase
    <2> QED
        BY <2>3, <2>4
<1>4. CASE LinkChild
    BY <1>4, LinkedCase DEF LinkChild, Graph!AddEdge, evidenceVars
<1>5. CASE LinkRefused
    BY <1>5, ReturnCase DEF LinkRefused, Graph!AddEdgeResult
<1>6. CASE LeaderExpanded
    <2>1. Parent \in Members(candidates) /\ Parent \in Ids
        BY <1>6, ListedAreStored, ElementIsMember, ListedAreIds
        DEF LeaderExpanded, Parent, SearchInv, EngineInv, LoopInv
    <2>2. /\ status' = [status EXCEPT ![Parent] = "EXPANDED"]
          /\ UNCHANGED <<nodes, verdict, measurements, batch, candidates, linking, failure>>
          /\ Stored' = Stored /\ pc = "child" /\ pc' = "expand"
        BY <1>6 DEF LeaderExpanded, evidenceVars, Stored
    <2>3. /\ Open /\ Open' /\ Tried = {} /\ Tried' = {} /\ Fresh = {} /\ Fresh' = {}
          /\ failure = "none"
        BY <2>2 DEF Open, Tried, Fresh, Recovering, CaseInv, AccountInv
    <2>4. verdict[Parent] = "none" /\ status[Parent] \notin Rejectable
        BY <2>1, <2>3 DEF CaseInv, VerdictInv, StatusInv
    <2>5. VerdictInv'
        BY <2>2, <2>3 DEF CaseInv, VerdictInv
    <2>6. StatusInv'
        BY <1>0, <2>1, <2>2, <2>3 DEF CaseInv, StatusInv, Rejectable
    <2>7. AccountInv'
        BY <1>0, <2>1, <2>2, <2>3 DEF CaseInv, AccountInv, NothingUntried, Listed
    <2>8. Final /\ Once
        BY <1>0, <2>2, <2>4 DEF Final, Once
    <2> QED
        BY <2>5, <2>6, <2>7, <2>8 DEF CaseStep, CaseInv
<1>7. CASE EvaluateChildren
    BY <1>7, EvaluateCase DEF EvaluateChildren
<1> QED
    BY <1>1, <1>2, <1>3, <1>4, <1>5, <1>6, <1>7 DEF ExpansionPhase

\* Ranking forgets only what was rejected.
LEMMA RankedCase ==
    ASSUME SearchInv, CaseInv, Open, Open', pc # "recoverVerify",
           UNCHANGED <<nodes, status, verdict, measurements, failure>>,
           Tried' = Tried, Fresh = {}, Fresh' = {},
           \A n \in Listed : n \in Members(batch') \cup Members(candidates')
                             \/ status[n] = "PRUNED",
           \A n \in Members(candidates') : verdict[n] = "none" => status[n] \notin Rejectable,
           pc' = "recoverVerify" =>
               \A n \in Members(batch') : status[n] \notin Rejectable,
           pc' \in {"execute", "challenge"} => at' = 1
    PROVE  CaseStep
<1>1. Stored' = Stored /\ failure = "none" /\ pc' # "failed"
    BY DEF Stored, Open, CaseInv, AccountInv
<1>2. VerdictInv'
    BY DEF CaseInv, VerdictInv, Open
<1>3. StatusInv'
    BY <1>1 DEF CaseInv, StatusInv, Open
<1>4. AccountInv'
    BY <1>1 DEF CaseInv, AccountInv, NothingUntried, Listed
<1> QED
    BY <1>2, <1>3, <1>4 DEF CaseStep, CaseInv, Final, Once

\* Each step of the main verification.
LEMMA VerificationPhaseCase == SearchInv /\ CaseInv /\ VerificationPhase => CaseStep
<1> SUFFICES ASSUME SearchInv, CaseInv, VerificationPhase PROVE CaseStep
    OBVIOUS
<1>0. /\ GraphInv /\ ListInv /\ EngineInv /\ EvidenceTypes
      /\ batch \in Seq(Stored) /\ candidates \in Seq(Stored)
      /\ Members(batch) \subseteq Stored
      /\ Members(candidates) \subseteq Stored
      /\ Stored \subseteq Ids
    BY ListedAreStored, StoredIsGraphs DEF SearchInv, EngineInv, GraphInv, Graph!TypeOK
<1>1. CASE Collect
    <2>1. /\ UNCHANGED <<nodes, status, verdict, measurements, failure>>
          /\ pc = "collect" /\ pc' = "execute" /\ at' = 1
          /\ candidates' \in RankedViable(candidates \o batch)
        BY <1>1 DEF Collect, evidenceVars
    <2>2. /\ Open /\ Open' /\ Tried = {} /\ Tried' = {} /\ Fresh = {} /\ Fresh' = {}
        BY <2>1 DEF Open, Tried, Fresh, Recovering
    <2>3. /\ candidates \o batch \in Seq(Stored) /\ IsInjective(candidates \o batch)
          /\ Members(candidates \o batch) = Listed
        BY <1>0, ConcatLists, ConcatProperties DEF ListInv, Listed
    <2>4. Members(candidates') = {n \in Listed : status[n] \notin Rejectable}
        BY <1>0, <2>1, <2>3, RankedFacts
    <2>5. \A n \in Listed : n \in Stored /\ status[n] # "FAILED"
        BY <1>0, <2>2 DEF Listed, CaseInv, VerdictInv, StatusInv
    <2> QED
        BY <2>1, <2>2, <2>4, <2>5, RankedCase DEF Rejectable
<1>2. CASE Execute
    <2>1. PICK fp \in Computed :
            /\ Graph!AddNode(NextId, fp, 0)
            /\ candidates' = IF Graph!AddNodeResult(NextId, fp, 0) = "added"
                             THEN Append(candidates, NextId) ELSE candidates
        BY <1>2 DEF Execute
    <2>2. /\ Open /\ Open' /\ Tried = {} /\ Tried' = {} /\ Fresh = {} /\ Fresh' = {}
          /\ pc' = "challenge" /\ at' = 1
          /\ UNCHANGED <<verdict, measurements, failure, batch>>
        BY <1>2 DEF Execute, evidenceVars, Open, Tried, Fresh, Recovering, CaseInv, VerdictInv
    <2>3. CASE Graph!AddNodeResult(NextId, fp, 0) = "added"
        <3>1. /\ NextId \notin Stored
              /\ Stored' = Stored \cup {NextId}
              /\ status'[NextId] = "PROPOSED"
              /\ \A n \in Stored : status'[n] = status[n]
            BY <1>0, <2>1, <2>3, AddNodeEffect
        <3>2. candidates \in Seq(Stored') /\ NextId \in Stored' /\ NextId \notin Members(candidates)
            BY <1>0, <3>1, SeqMonotonic
        <3>3. Members(candidates') = Members(candidates) \cup {NextId}
            BY <1>0, <2>1, <2>3, <3>2, AppendList DEF ListInv
        <3>4. NextId \in Ids
            BY <1>0, NextIdInRange
        <3> QED
            BY <2>2, <3>1, <3>3, <3>4, StoreCase
    <2>4. CASE Graph!AddNodeResult(NextId, fp, 0) # "added"
        <3>1. UNCHANGED <<nodes, status, candidates>>
            BY <1>0, <2>1, <2>4, AddNodeEffect
        <3> QED
            BY <2>2, <3>1, MoveCase
    <2> QED
        BY <2>3, <2>4
<1>3. CASE NothingToExecute
    BY <1>3, MoveCase DEF NothingToExecute, loopVars, evidenceVars, Open, Tried, Fresh,
                          Recovering, CaseInv, VerdictInv
<1>4. CASE Challenge
    <2>1. CASE Return("provider")
        BY <2>1, ReturnCase
    <2>2. CASE ~ Return("provider")
        <3>1. /\ UNCHANGED <<nodes, status, verdict, measurements, batch, candidates, at, failure>>
              /\ pc = "challenge" /\ pc' = "verify"
            BY <1>4, <2>2 DEF Challenge, loopVars, evidenceVars
        <3>2. at' = 1
            BY <3>1 DEF CaseInv, VerdictInv
        <3>3. Tried = {} /\ Tried' = {}
            <4>1. {candidates[i] : i \in {j \in DOMAIN candidates : j < 1}} = {}
                BY <1>0, TriedEnds
            <4> QED
                BY <3>1, <3>2, <4>1 DEF Tried, TriedOf, Recovering
        <3> QED
            BY <3>1, <3>2, <3>3, MoveCase DEF Open, Fresh
    <2> QED
        BY <2>1, <2>2
<1>5. CASE PassCandidate
    BY <1>5, NextToTry, PassCase DEF PassCandidate
<1>6. CASE RejectCandidate
    <2>1. PICK o \in VerifierOutcomes \ {"SUPPORTED"} :
            Judge(candidates[at], "rejected", o,
                  IF o = "CONTRADICTED" THEN "FAILED" ELSE "EVALUATED")
        BY <1>6 DEF RejectCandidate
    <2>2. UNCHANGED <<pc, candidates, batch>> /\ at' = at + 1 /\ pc = "verify"
          /\ at <= Len(candidates)
        BY <1>6, <2>1 DEF RejectCandidate, Judge
    <2>3. /\ candidates[at] \in Stored /\ candidates[at] \in Ids
          /\ candidates[at] \notin Tried
          /\ status[candidates[at]] \notin Rejectable
          /\ Tried' = Tried \cup {candidates[at]}
        BY <2>2, NextToTry
    <2> QED
        BY <2>1, <2>2, <2>3, RejectCase
<1>7. CASE CandidatesRejected
    <2>1. TriedOf(candidates) = Members(candidates) /\ pc = "verify"
        <3>1. at \in Nat /\ at > Len(candidates) /\ pc = "verify"
            BY <1>0, <1>7 DEF CandidatesRejected, EngineInv, LoopInv
        <3> QED
            BY <1>0, <3>1, TriedEnds DEF TriedOf
    <2>2. Tried = Members(candidates)
        BY <2>1 DEF Tried
    <2>3. CASE Return("no candidate passed verification")
        <3>1. Listed = Tried /\ Fresh = {} /\ Open
            BY <1>0, <2>1, <2>2, EmptyList DEF Listed, ListInv, BatchIsSpent, Fresh, Open
        <3>2. \A n \in Stored : ~ Untried(n)
            BY <1>0, <3>1 DEF Untried, CaseInv, AccountInv, VerdictInv
        <3> QED
            BY <2>3, <3>2, ReturnCase
    <2>4. CASE ~ Return("no candidate passed verification")
        <3>1. /\ UNCHANGED <<nodes, status, verdict, measurements, batch, candidates, failure>>
              /\ pc' = "recover"
            BY <1>7, <2>4 DEF CandidatesRejected, loopVars, evidenceVars
        <3>2. Tried' = Tried
            BY <2>2, <3>1 DEF Tried, Recovering
        <3> QED
            BY <2>1, <3>1, <3>2, MoveCase DEF Open, Fresh
    <2> QED
        BY <2>3, <2>4
<1> QED
    BY <1>1, <1>2, <1>3, <1>4, <1>5, <1>6, <1>7 DEF VerificationPhase

\* Each step of the recovery round.
LEMMA RecoveryPhaseCase == SearchInv /\ CaseInv /\ RecoveryPhase => CaseStep
<1> SUFFICES ASSUME SearchInv, CaseInv, RecoveryPhase PROVE CaseStep
    OBVIOUS
<1>0. /\ GraphInv /\ ListInv /\ EngineInv /\ EvidenceTypes
      /\ batch \in Seq(Stored) /\ candidates \in Seq(Stored)
      /\ Members(batch) \subseteq Stored
      /\ Members(candidates) \subseteq Stored
      /\ Stored \subseteq Ids
    BY ListedAreStored, StoredIsGraphs DEF SearchInv, EngineInv, GraphInv, Graph!TypeOK
<1>1. CASE GenerateRecovery
    BY <1>1, GenerateCase DEF GenerateRecovery
<1>2. CASE StoreRecovery
    <2>1. Graph!AddNode(NextId, Head(pending), 1)
          /\ Graph!AddNodeResult(NextId, Head(pending), 1) = "added"
        BY <1>2 DEF StoreRecovery, Propose, Outcome
    <2>2. /\ NextId \notin Stored
          /\ Stored' = Stored \cup {NextId}
          /\ status'[NextId] = "PROPOSED"
          /\ \A n \in Stored : status'[n] = status[n]
        BY <1>0, <2>1, AddNodeEffect
    <2>3. /\ Open /\ Open' /\ Tried' = Tried /\ Fresh = {} /\ Fresh' = {NextId}
          /\ pc' = "recoverLink"
          /\ UNCHANGED <<verdict, measurements, failure, batch, candidates>>
        BY <1>2 DEF StoreRecovery, evidenceVars, Open, Tried, Fresh, Recovering
    <2>4. NextId \in Ids
        BY <1>0, NextIdInRange
    <2> QED
        BY <2>2, <2>3, <2>4, StoreCase
<1>3. CASE SkipRecoveryDuplicate
    BY <1>3, MoveCase DEF SkipRecoveryDuplicate, evidenceVars, Open, Tried, Fresh, Recovering
<1>4. CASE RecoveryRefused
    BY <1>4, ReturnCase DEF RecoveryRefused, Graph!NodeErrors
<1>5. CASE LinkRecovery
    BY <1>5, MoveCase DEF LinkRecovery, Graph!AddEdge, evidenceVars, Open, Tried, Fresh, Recovering
<1>6. CASE RecoveryLinked
    <2>1. linking.fresh
        BY <1>0, <1>6 DEF RecoveryLinked, ListInv
    <2> QED
        BY <1>6, <2>1, LinkedCase DEF RecoveryLinked, evidenceVars
<1>7. CASE RecoveryStored
    <2>1. Open /\ Tried = Members(candidates) /\ Fresh = {} /\ pc = "recoverNode"
        BY <1>7 DEF RecoveryStored, Open, Tried, Fresh, Recovering
    <2>2. CASE Return("no candidate passed verification")
        <3>1. CASE batch = <<>>
            <4>1. Listed = Tried
                BY <2>1, <3>1, EmptyList DEF Listed
            <4>2. \A n \in Stored : ~ Untried(n)
                BY <1>0, <2>1, <4>1 DEF Untried, CaseInv, AccountInv, VerdictInv
            <4> QED
                BY <2>2, <4>2, ReturnCase
        <3>2. CASE batch # <<>>
            BY <1>7, <2>1, <2>2, <3>2 DEF RecoveryStored, Return
        <3> QED
            BY <3>1, <3>2
    <2>3. CASE ~ Return("no candidate passed verification")
        <3>1. /\ UNCHANGED <<nodes, status, verdict, measurements, batch, candidates, failure>>
              /\ pc' = "recoverEvaluate"
            BY <1>7, <2>3 DEF RecoveryStored, loopVars, evidenceVars
        <3>2. Tried' = Tried
            BY <2>1, <3>1 DEF Tried, Recovering
        <3> QED
            BY <2>1, <3>1, <3>2, MoveCase DEF Open, Fresh
    <2> QED
        BY <2>2, <2>3
<1>8. CASE EvaluateRecovery
    BY <1>8, EvaluateCase DEF EvaluateRecovery
<1>9. CASE RankRecovery
    <2>1. /\ UNCHANGED <<nodes, status, verdict, measurements, failure, candidates>>
          /\ pc = "recoverRank" /\ pc' = "recoverVerify" /\ at' = 1
          /\ batch' \in RankedViable(batch)
        BY <1>9 DEF RankRecovery, evidenceVars
    <2>2. /\ batch' \in Seq(Stored)
          /\ Members(batch') = {n \in Members(batch) : status[n] \notin Rejectable}
        BY <1>0, <2>1, RankedFacts DEF ListInv
    <2>3. /\ Open /\ Open' /\ Fresh = {} /\ Fresh' = {}
          /\ Tried = Members(candidates) /\ Tried' = Members(candidates)
        <3>1. {batch'[i] : i \in {j \in DOMAIN batch' : j < 1}} = {}
            BY <2>2, TriedEnds
        <3> QED
            BY <2>1, <3>1 DEF Open, Fresh, Tried, TriedOf, Recovering
    <2>4. \A n \in Members(batch) : n \in Stored /\ status[n] # "FAILED"
        BY <1>0, <2>3 DEF CaseInv, VerdictInv, StatusInv, ListInv
    <2> QED
        BY <1>0, <2>1, <2>2, <2>3, <2>4, RankedCase DEF Rejectable, Listed, CaseInv, StatusInv
<1>10. CASE PassRecovery
    BY <1>10, NextToTry, PassCase DEF PassRecovery
<1>11. CASE RejectRecovery
    <2>1. PICK o \in VerifierOutcomes \ {"SUPPORTED"} : Judge(batch[at], "rejected", o, "FAILED")
        BY <1>11 DEF RejectRecovery
    <2>2. UNCHANGED <<pc, candidates, batch>> /\ at' = at + 1 /\ pc = "recoverVerify"
          /\ at <= Len(batch)
        BY <1>11, <2>1 DEF RejectRecovery, Judge
    <2>3. /\ batch[at] \in Stored /\ batch[at] \in Ids
          /\ batch[at] \notin Tried
          /\ status[batch[at]] \notin Rejectable
          /\ Tried' = Tried \cup {batch[at]}
        BY <2>2, NextToTry
    <2> QED
        BY <2>1, <2>2, <2>3, RejectCase
<1>12. CASE RecoveryRejected
    <2>1. at \in Nat /\ at > Len(batch) /\ pc = "recoverVerify"
        BY <1>0, <1>12 DEF RecoveryRejected, EngineInv, LoopInv
    <2>2. TriedOf(batch) = Members(batch)
        BY <1>0, <2>1, TriedEnds DEF TriedOf
    <2>3. Tried = Listed /\ Fresh = {} /\ Open
        BY <2>1, <2>2 DEF Tried, Listed, Fresh, Open, Recovering
    <2>4. \A n \in Stored : ~ Untried(n)
        BY <1>0, <2>3 DEF Untried, CaseInv, AccountInv, VerdictInv
    <2> QED
        BY <1>12, <2>4, ReturnCase DEF RecoveryRejected
<1> QED
    BY <1>1, <1>2, <1>3, <1>4, <1>5, <1>6, <1>7, <1>8, <1>9, <1>10, <1>11, <1>12
    DEF RecoveryPhase

\* Every step keeps the invariant and what has been decided.
LEMMA CaseInvStep == SearchInv /\ CaseInv /\ [Next]_vars => CaseStep
<1> SUFFICES ASSUME SearchInv, CaseInv, [Next]_vars PROVE CaseStep
    OBVIOUS
<1>1. CASE Select
    <2>1. /\ status' = [status EXCEPT ![winner] = "SELECTED"]
          /\ UNCHANGED <<nodes, verdict, measurements, batch, candidates, winner, failure>>
          /\ pc = "select" /\ pc' = "trace" /\ Stored' = Stored
        BY <1>1 DEF Select, evidenceVars, loopVars, Stored
    <2>2. /\ winner \in Stored /\ DOMAIN status = Stored /\ Stored \subseteq Ids
          /\ status[winner] = "VERIFIED" /\ failure = "none"
        BY <2>1, StatusType, StoredIsGraphs
        DEF SearchInv, EngineInv, LoopInv, GraphInv, Graph!TypeOK, CaseInv, StatusInv, AccountInv
    <2>3. VerdictInv'
        BY <2>1 DEF CaseInv, VerdictInv, Open
    <2>4. StatusInv'
        BY <2>1, <2>2 DEF CaseInv, StatusInv, Open, Rejectable
    <2>5. AccountInv'
        BY <2>1, <2>2 DEF AccountInv, Open, NothingUntried
    <2>6. Final /\ Once
        BY <2>1, <2>2 DEF Final, Once, Rejectable
    <2> QED
        BY <2>3, <2>4, <2>5, <2>6 DEF CaseStep, CaseInv
<1>2. CASE WriteTrace
    <2>1. CASE Return("trace")
        BY <2>1, ReturnCase
    <2>2. CASE ~ Return("trace")
        <3>1. /\ UNCHANGED <<nodes, status, verdict, measurements, candidates, winner, failure>>
              /\ pc = "trace" /\ pc' = "selected" /\ Stored' = Stored
            BY <1>2, <2>2 DEF WriteTrace, loopVars, evidenceVars, resultVars, Stored
        <3> QED
            BY <3>1 DEF CaseStep, CaseInv, VerdictInv, StatusInv, AccountInv, Open,
                        NothingUntried, Untried, Final, Once
    <2> QED
        BY <2>1, <2>2
<1>3. CASE UNCHANGED vars
    <2>1. Tried' = Tried /\ Listed' = Listed /\ Fresh' = Fresh /\ Stored' = Stored
        BY <1>3 DEF vars, loopVars, Tried, TriedOf, Listed, Fresh, Stored
    <2>2. UNCHANGED <<pc, status, verdict, measurements, batch, candidates, winner, failure, at>>
        BY <1>3 DEF vars, loopVars, evidenceVars, resultVars
    <2> QED
        BY <2>1, <2>2 DEF CaseStep, CaseInv, VerdictInv, StatusInv, AccountInv, Open,
                          NothingUntried, Untried, Final, Once
<1> QED
    BY <1>1, <1>2, <1>3, InitialPhaseCase, ExpansionPhaseCase,
       VerificationPhaseCase, RecoveryPhaseCase DEF Next, Returned

\* Nothing is tried, rejected or lost before the first call.
LEMMA CaseInvInit == Init => CaseInv
<1> SUFFICES ASSUME Init PROVE CaseInv
    OBVIOUS
<1>1. Stored = {} /\ candidates = <<>> /\ pc = "generate" /\ failure = "none"
    BY DEF Init, Graph!Init, Stored
<1>2. Tried = {}
    BY <1>1 DEF Tried, Recovering
<1>3. VerdictInv
    BY <1>1, <1>2 DEF Init, VerdictInv, Open
<1>4. StatusInv
    BY <1>1, EmptyList DEF StatusInv
<1>5. AccountInv
    BY <1>1 DEF AccountInv, NothingUntried
<1> QED
    BY <1>3, <1>4, <1>5 DEF CaseInv

-----------------------------------------------------------------------------
(***************************************************************************)
(* The order of trying.                                                    *)
(***************************************************************************)

\* A return, a call of the generator and an evaluation end where they say.
LEMMA WhereCallsLead ==
    /\ \A error : Return(error) => pc' = "failed"
    /\ \A n, next : Generate(n, next) => pc' \in {"failed", next}
    /\ \A next : Evaluate(next) => pc' \in {"failed", next}
BY DEF Return, Generate, Evaluate

\* The statements of the verification and after it are reached by these actions.
LEMMA HowReached ==
    ASSUME [Next]_vars
    PROVE  \/ UNCHANGED vars
           \/ pc' \notin {"execute", "challenge", "verify", "recoverVerify",
                          "select", "trace", "selected"}
           \/ pc' = "execute" /\ Collect
           \/ pc' = "challenge" /\ (Execute \/ NothingToExecute)
           \/ pc' = "verify" /\ (Challenge \/ RejectCandidate)
           \/ pc' = "recoverVerify" /\ (RankRecovery \/ RejectRecovery)
           \/ pc' = "select" /\ (PassCandidate \/ PassRecovery)
           \/ pc' = "trace" /\ Select
           \/ pc' = "selected" /\ WriteTrace
<1> DEFINE late == {"execute", "challenge", "verify", "recoverVerify",
                    "select", "trace", "selected"}
<1>1. CASE InitialPhase
    <2>1. CASE GenerateInitial \/ Regenerate \/ EvaluateInitial
        BY <2>1, WhereCallsLead DEF GenerateInitial, Regenerate, EvaluateInitial
    <2>2. CASE StoreInitial \/ StoreRegenerated
        BY <2>2 DEF StoreInitial, StoreRegenerated
    <2>3. CASE InitialRefused \/ RegeneratedRefused \/ Regenerated
        BY <2>3, WhereCallsLead DEF InitialRefused, RegeneratedRefused, Regenerated
    <2>4. CASE InitialStored
        BY <2>4 DEF InitialStored
    <2>5. CASE Retain
        BY <2>5, WhereCallsLead DEF Retain
    <2> QED
        BY <1>1, <2>1, <2>2, <2>3, <2>4, <2>5 DEF InitialPhase
<1>2. CASE ExpansionPhase
    <2>1. pc' \notin late
        BY <1>2, WhereCallsLead
        DEF ExpansionPhase, ExpandLeader, SkipDeepLeader, StoreChild, DropChild, LinkChild,
            LinkRefused, LeaderExpanded, ExpansionDone, EvaluateChildren
    <2> QED
        BY <2>1
<1>3. CASE VerificationPhase
    <2>1. CASE Collect \/ Execute \/ NothingToExecute
        BY <2>1 DEF Collect, Execute, NothingToExecute
    <2>2. CASE Challenge \/ PassCandidate
        BY <2>2, WhereCallsLead DEF Challenge, PassCandidate
    <2>3. CASE RejectCandidate
        BY <2>3 DEF RejectCandidate
    <2>4. CASE CandidatesRejected
        BY <2>4, WhereCallsLead DEF CandidatesRejected
    <2> QED
        BY <1>3, <2>1, <2>2, <2>3, <2>4 DEF VerificationPhase
<1>4. CASE RecoveryPhase
    <2>1. CASE RankRecovery \/ PassRecovery \/ RejectRecovery
        BY <2>1 DEF RankRecovery, PassRecovery, RejectRecovery
    <2>2. CASE GenerateRecovery \/ EvaluateRecovery
        BY <2>2, WhereCallsLead DEF GenerateRecovery, EvaluateRecovery
    <2>3. CASE RecoveryRefused \/ RecoveryStored \/ RecoveryRejected
        BY <2>3, WhereCallsLead DEF RecoveryRefused, RecoveryStored, RecoveryRejected
    <2>4. CASE StoreRecovery \/ SkipRecoveryDuplicate
        BY <2>4 DEF StoreRecovery, SkipRecoveryDuplicate
    <2>5. CASE LinkRecovery \/ RecoveryLinked
        BY <2>5 DEF LinkRecovery, RecoveryLinked
    <2> QED
        BY <1>4, <2>1, <2>2, <2>3, <2>4, <2>5 DEF RecoveryPhase
<1>5. CASE Select \/ WriteTrace
    BY <1>5, WhereCallsLead DEF Select, WriteTrace
<1>6. CASE UNCHANGED vars
    BY <1>6
<1> QED
    BY <1>1, <1>2, <1>3, <1>4, <1>5, <1>6 DEF Next, Returned

\* A verdict is given in one of these ways.
Judges(n, v, o, st) ==
    /\ \/ v = "passed" /\ o = "SUPPORTED" /\ st = "VERIFIED"
       \/ /\ v = "rejected" /\ o \in VerifierOutcomes \ {"SUPPORTED"}
          /\ Verifier = "branch"
          /\ st \in {"FAILED", "EVALUATED"}
          /\ o = "CONTRADICTED" => st = "FAILED"
    /\ Judge(n, v, o, st)

\* Every other step but an evaluation leaves the evidence alone.
LEMMA StepKinds ==
    ASSUME SearchInv, CaseInv, [Next]_vars
    PROVE  \/ UNCHANGED <<evidenceVars, wells>>
           \/ pc \in Unevaluated /\ \E next : Evaluate(next)
           \/ \E n \in Stored : /\ verdict[n] = "none"
                                /\ \E v, o, st : Judges(n, v, o, st)
<1> DEFINE Kinds == \/ UNCHANGED <<evidenceVars, wells>>
                    \/ pc \in Unevaluated /\ \E next : Evaluate(next)
                    \/ \E n \in Stored : /\ verdict[n] = "none"
                                         /\ \E v, o, st : Judges(n, v, o, st)
<1>0. /\ \A error : Return(error) => UNCHANGED <<evidenceVars, wells>>
      /\ \A n, next : Generate(n, next) => UNCHANGED <<evidenceVars, wells>>
    BY DEF Return, Generate
<1>1. CASE InitialPhase
    <2>1. CASE EvaluateInitial
        BY <2>1 DEF EvaluateInitial, Unevaluated, Proposing
    <2>2. CASE ~ EvaluateInitial
        <3>1. UNCHANGED <<evidenceVars, wells>>
            BY <1>0, <1>1, <2>2
            DEF InitialPhase, GenerateInitial, StoreInitial, InitialRefused, InitialStored,
                Regenerate, StoreRegenerated, RegeneratedRefused, Regenerated, Retain
        <3> QED
            BY <3>1
    <2> QED
        BY <2>1, <2>2
<1>2. CASE ExpansionPhase
    <2>1. CASE EvaluateChildren
        BY <2>1 DEF EvaluateChildren, Unevaluated, Expanding
    <2>2. CASE ~ EvaluateChildren
        <3>1. UNCHANGED <<evidenceVars, wells>>
            BY <1>0, <1>2, <2>2
            DEF ExpansionPhase, ExpandLeader, SkipDeepLeader, StoreChild, DropChild,
                LinkChild, LinkRefused, LeaderExpanded, ExpansionDone
        <3> QED
            BY <3>1
    <2> QED
        BY <2>1, <2>2
<1>3. ASSUME NEW s, \/ pc = "verify" /\ s = candidates
                    \/ pc = "recoverVerify" /\ s = batch,
             at <= Len(s)
      PROVE  s[at] \in Stored /\ verdict[s[at]] = "none"
    BY <1>3, NextToTry DEF CaseInv, VerdictInv, Open
<1>4. CASE VerificationPhase
    <2>1. CASE PassCandidate
        <3>1. /\ pc = "verify" /\ at <= Len(candidates)
              /\ Judges(candidates[at], "passed", "SUPPORTED", "VERIFIED")
            BY <2>1 DEF PassCandidate, Judges
        <3> QED
            BY <1>3, <3>1
    <2>2. CASE RejectCandidate
        <3>1. PICK o \in VerifierOutcomes \ {"SUPPORTED"} :
                Judge(candidates[at], "rejected", o,
                      IF o = "CONTRADICTED" THEN "FAILED" ELSE "EVALUATED")
            BY <2>2 DEF RejectCandidate
        <3>2. /\ pc = "verify" /\ at <= Len(candidates)
              /\ Judges(candidates[at], "rejected", o,
                        IF o = "CONTRADICTED" THEN "FAILED" ELSE "EVALUATED")
            BY <2>2, <3>1 DEF RejectCandidate, Judges
        <3> QED
            BY <1>3, <3>2
    <2>3. CASE ~ (PassCandidate \/ RejectCandidate)
        <3>1. UNCHANGED <<evidenceVars, wells>>
            BY <1>0, <1>4, <2>3
            DEF VerificationPhase, Collect, Execute, NothingToExecute, Challenge,
                CandidatesRejected
        <3> QED
            BY <3>1
    <2> QED
        BY <2>1, <2>2, <2>3
<1>5. CASE RecoveryPhase
    <2>1. CASE PassRecovery
        <3>1. /\ pc = "recoverVerify" /\ at <= Len(batch)
              /\ Judges(batch[at], "passed", "SUPPORTED", "VERIFIED")
            BY <2>1 DEF PassRecovery, Judges
        <3> QED
            BY <1>3, <3>1
    <2>2. CASE RejectRecovery
        <3>1. PICK o \in VerifierOutcomes \ {"SUPPORTED"} :
                Judge(batch[at], "rejected", o, "FAILED")
            BY <2>2 DEF RejectRecovery
        <3>2. /\ pc = "recoverVerify" /\ at <= Len(batch)
              /\ Judges(batch[at], "rejected", o, "FAILED")
            BY <2>2, <3>1 DEF RejectRecovery, Judges
        <3> QED
            BY <1>3, <3>2
    <2>3. CASE EvaluateRecovery
        BY <2>3 DEF EvaluateRecovery, Unevaluated, Recovering
    <2>4. CASE ~ (PassRecovery \/ RejectRecovery \/ EvaluateRecovery)
        <3>1. UNCHANGED <<evidenceVars, wells>>
            BY <1>0, <1>5, <2>4
            DEF RecoveryPhase, GenerateRecovery, StoreRecovery, SkipRecoveryDuplicate,
                RecoveryRefused, LinkRecovery, RecoveryLinked, RecoveryStored,
                RankRecovery, RecoveryRejected
        <3> QED
            BY <3>1
    <2> QED
        BY <2>1, <2>2, <2>3, <2>4
<1>6. CASE Select \/ WriteTrace \/ UNCHANGED vars
    BY <1>0, <1>6 DEF Select, WriteTrace, vars
<1> QED
    BY <1>1, <1>2, <1>4, <1>5, <1>6 DEF Next, Returned

\* A branch the graph does not store has no score and no verdict, the lists the
\* verifier works through are in descending order, and the winner leads what
\* is left of its own.
OrderInv ==
    /\ \A n \in Ids \ Stored : score[n] = 0 /\ verdict[n] = "none"
    /\ pc \in {"execute", "challenge", "verify"} => Descending(candidates)
    /\ pc = "recoverVerify" => Descending(batch)
    /\ pc \in {"select", "trace", "selected"} =>
          \A n \in Stored : Untried(n) => score[n] <= score[winner]

\* Scores are numbers, and every stored branch has one.
LEMMA ScoresAreNumbers ==
    ASSUME SearchInv
    PROVE  /\ Stored \subseteq Ids
           /\ \A n \in Ids : score[n] \in Nat
BY StoredIsGraphs, SearchAssumption
DEF SearchInv, EngineInv, GraphInv, Graph!TypeOK, EvidenceTypes

\* A branch without a score may be appended to a descending list.
LEMMA AppendDescending ==
    ASSUME SearchInv, NEW s \in Seq(Stored), Descending(s), NEW x \in Ids, score[x] = 0
    PROVE  Descending(Append(s, x))
<1> DEFINE t == Append(s, x)
<1>1. DOMAIN s = 1..Len(s) /\ Len(s) \in Nat /\ \A i \in 1..Len(s) : s[i] \in Stored
    BY LenProperties, ElementOfSeq
<1>2. \A i \in 1..Len(s) : score[s[i]] \in Nat
    BY <1>1, ScoresAreNumbers
<1>3. /\ DOMAIN t = 1..(Len(s) + 1)
      /\ \A i \in 1..Len(s) : t[i] = s[i]
      /\ t[Len(s) + 1] = x
    BY AppendProperties, LenProperties
<1> HIDE DEF t
<1>4. \A i, j \in DOMAIN t : i < j => score[t[j]] <= score[t[i]]
    BY <1>1, <1>2, <1>3 DEF Descending
<1> QED
    BY <1>4 DEF Descending, t

\* What is untried when a branch passes comes after it in its list.
LEMMA FirstToPass ==
    ASSUME SearchInv, CaseInv,
           NEW s, \/ pc = "verify" /\ s = candidates
                  \/ pc = "recoverVerify" /\ s = batch,
           at <= Len(s), Descending(s),
           NEW n \in Stored, Untried(n)
    PROVE  score[n] <= score[s[at]]
<1>1. s \in Seq(Stored) /\ at \in Nat \ {0}
    BY DEF SearchInv, EngineInv, LoopInv
<1>2. n \in Ids /\ at \in DOMAIN s /\ DOMAIN s = 1..Len(s) /\ Len(s) \in Nat
    BY <1>1, ScoresAreNumbers, LenProperties
<1>3. n \notin Tried
    BY <1>2 DEF Untried, CaseInv, VerdictInv, Open
<1>4. n \in Members(s)
    <2>1. Fresh = {} /\ n \in Listed
        BY DEF Untried, CaseInv, AccountInv, Open, Fresh
    <2>2. CASE pc = "verify" /\ s = candidates
        BY <2>1, <2>2, EmptyList DEF Listed, SearchInv, ListInv, BatchIsSpent
    <2>3. CASE pc = "recoverVerify" /\ s = batch
        BY <1>3, <2>1, <2>3 DEF Listed, Tried, Recovering
    <2> QED
        BY <2>2, <2>3
<1>5. PICK i \in DOMAIN s : s[i] = n
    BY <1>4 DEF Members
<1>6. ~ (i < at)
    BY <1>3, <1>5 DEF Tried, TriedOf, Recovering
<1>7. score[s[at]] \in Nat
    BY <1>1, <1>2, ElementOfSeq, ScoresAreNumbers
<1> QED
    BY <1>1, <1>2, <1>5, <1>6, <1>7 DEF Descending

\* Nothing gives a score or a verdict to a branch that is not stored.
LEMMA UnstoredStep ==
    ASSUME SearchInv, CaseInv, [Next]_vars,
           \A n \in Ids \ Stored : score[n] = 0 /\ verdict[n] = "none"
    PROVE  \A n \in Ids \ Stored' : score'[n] = 0 /\ verdict'[n] = "none"
<1>0. Stored \subseteq Stored' /\ Members(batch) \subseteq Stored
    BY StoredGrows, ListedAreStored DEF SearchInv
<1>1. CASE UNCHANGED <<evidenceVars, wells>>
    BY <1>0, <1>1 DEF evidenceVars
<1>2. CASE \E next : Evaluate(next)
    <2>1. UNCHANGED verdict
        BY <1>2 DEF Evaluate, Return, evidenceVars
    <2>2. ASSUME NEW n \in Ids \ Stored PROVE score'[n] = score[n]
        BY <1>0, <1>2 DEF Evaluate, Return, evidenceVars
    <2> QED
        BY <1>0, <2>1, <2>2
<1>3. ASSUME NEW n \in Stored, NEW v, NEW o, NEW st, Judges(n, v, o, st)
      PROVE  \A m \in Ids \ Stored' : score'[m] = 0 /\ verdict'[m] = "none"
    BY <1>0, <1>3 DEF Judges, Judge
<1> QED
    BY <1>1, <1>2, <1>3, StepKinds

\* A step to a statement that reads the evidence leaves the scores alone.
LEMMA ScoresRest ==
    ASSUME \/ Collect \/ Execute \/ NothingToExecute \/ Challenge \/ RejectCandidate
           \/ RankRecovery \/ RejectRecovery \/ PassCandidate \/ PassRecovery
           \/ Select \/ WriteTrace
    PROVE  score' = score
BY DEF Collect, Execute, NothingToExecute, Challenge, RejectCandidate, RankRecovery,
       RejectRecovery, PassCandidate, PassRecovery, Select, WriteTrace, Return, Judge,
       evidenceVars

\* The order of trying is inductive.
LEMMA OrderInvStep == SearchInv /\ CaseInv /\ OrderInv /\ [Next]_vars => OrderInv'
<1> SUFFICES ASSUME SearchInv, CaseInv, OrderInv, [Next]_vars PROVE OrderInv'
    OBVIOUS
<1> DEFINE Trying  == {"execute", "challenge", "verify"}
           Decided == {"select", "trace", "selected"}
<1>0. \A n \in Ids \ Stored' : score'[n] = 0 /\ verdict'[n] = "none"
    BY UnstoredStep DEF OrderInv
<1>t. /\ batch \in Seq(Stored) /\ candidates \in Seq(Stored)
      /\ IsInjective(batch) /\ IsInjective(candidates)
      /\ Members(batch) \cap Members(candidates) = {}
      /\ EngineInv /\ EvidenceTypes
    BY ListedAreStored DEF SearchInv, ListInv
<1>1. CASE pc' \in Trying
    <2>1. CASE pc' = "execute" /\ Collect
        <3>1. /\ candidates \o batch \in Seq(Stored) /\ IsInjective(candidates \o batch)
              /\ candidates' \in RankedViable(candidates \o batch)
            BY <1>t, <2>1, ConcatLists, ConcatProperties DEF Collect
        <3>2. Descending(candidates')
            BY <1>t, <3>1, RankedFacts
        <3> QED
            BY <1>0, <2>1, <3>2, ScoresRest DEF OrderInv, Descending
    <2>2. CASE pc' = "challenge" /\ Execute
        <3>1. /\ pc = "execute" /\ score' = score
              /\ \/ candidates' = candidates
                 \/ NextId \notin Stored /\ candidates' = Append(candidates, NextId)
            BY <2>2, ScoresRest, StoredIsGraphs DEF Execute, Graph!AddNodeResult
        <3>2. Descending(candidates) /\ NextId \in Ids
            BY <1>t, <3>1, NextIdInRange DEF OrderInv, EngineInv
        <3>3. Descending(candidates')
            BY <1>t, <3>1, <3>2, AppendDescending DEF OrderInv
        <3> QED
            BY <1>0, <2>2, <3>1, <3>3 DEF OrderInv, Descending
    <2>3. CASE pc' = "challenge" /\ NothingToExecute
        <3>1. pc = "execute" /\ candidates' = candidates /\ score' = score
            BY <2>3, ScoresRest DEF NothingToExecute, loopVars
        <3> QED
            BY <1>0, <2>3, <3>1 DEF OrderInv, Descending
    <2>4. CASE pc' = "verify" /\ (Challenge \/ RejectCandidate)
        <3>1. pc \in {"challenge", "verify"} /\ candidates' = candidates /\ score' = score
            BY <2>4, ScoresRest DEF Challenge, Return, RejectCandidate, Judge, loopVars
        <3> QED
            BY <1>0, <2>4, <3>1 DEF OrderInv, Descending
    <2>5. CASE UNCHANGED vars
        BY <1>0, <1>1, <2>5 DEF OrderInv, Descending, vars, loopVars, evidenceVars
    <2> QED
        BY <1>1, <2>1, <2>2, <2>3, <2>4, <2>5, HowReached
<1>2. CASE pc' = "recoverVerify"
    <2>1. CASE RankRecovery
        <3>1. batch' \in RankedViable(batch)
            BY <2>1 DEF RankRecovery
        <3>2. Descending(batch')
            BY <1>t, <3>1, RankedFacts
        <3> QED
            BY <1>0, <1>2, <2>1, <3>2, ScoresRest DEF OrderInv, Descending
    <2>2. CASE RejectRecovery
        <3>1. pc = "recoverVerify" /\ batch' = batch /\ score' = score
            BY <2>2, ScoresRest DEF RejectRecovery, Judge
        <3> QED
            BY <1>0, <1>2, <3>1 DEF OrderInv, Descending
    <2>3. CASE UNCHANGED vars
        BY <1>0, <1>2, <2>3 DEF OrderInv, Descending, vars, loopVars, evidenceVars
    <2> QED
        BY <1>2, <2>1, <2>2, <2>3, HowReached
<1>3. CASE pc' \in Decided
    <2>1. ASSUME NEW s, \/ pc = "verify" /\ s = candidates
                        \/ pc = "recoverVerify" /\ s = batch,
                 at <= Len(s), Descending(s),
                 Judge(s[at], "passed", "SUPPORTED", "VERIFIED"), winner' = s[at]
          PROVE  OrderInv'
        <3>1. /\ score' = score /\ Stored' = Stored
              /\ verdict' = [verdict EXCEPT ![s[at]] = "passed"]
              /\ status' = [status EXCEPT ![s[at]] = "VERIFIED"]
            BY <2>1 DEF Judge, Stored
        <3>2. /\ s[at] \in Stored /\ s[at] \in Ids
              /\ status[s[at]] \notin Rejectable
            BY <2>1, NextToTry
        <3>3. \A n \in Stored : Untried(n)' => Untried(n)
            BY <3>1, <3>2, ScoresAreNumbers, StatusType
            DEF Untried, SearchInv, EngineInv, EvidenceTypes, Rejectable
        <3>4. \A n \in Stored : Untried(n)' => score'[n] <= score'[winner']
            BY <2>1, <3>1, <3>3, FirstToPass
        <3> QED
            BY <1>0, <1>3, <3>1, <3>4 DEF OrderInv
    <2>2. CASE pc' = "select" /\ PassCandidate
        BY <2>1, <2>2 DEF PassCandidate, OrderInv
    <2>3. CASE pc' = "select" /\ PassRecovery
        BY <2>1, <2>3 DEF PassRecovery, OrderInv
    <2>4. CASE pc' = "trace" /\ Select
        <3>1. /\ pc = "select" /\ UNCHANGED <<nodes, score, verdict, winner>>
              /\ status' = [status EXCEPT ![winner] = "SELECTED"]
              /\ Stored' = Stored
            BY <2>4 DEF Select, evidenceVars, Stored
        <3>2. winner \in Stored /\ status[winner] # "PRUNED"
            BY <3>1 DEF SearchInv, EngineInv, LoopInv, CaseInv, StatusInv
        <3>3. \A n \in Stored : Untried(n)' => Untried(n)
            BY <3>1, <3>2, StatusType DEF Untried, SearchInv, EngineInv
        <3> QED
            BY <1>0, <2>4, <3>1, <3>3 DEF OrderInv
    <2>5. CASE pc' = "selected" /\ WriteTrace
        <3>1. /\ pc = "trace" /\ UNCHANGED <<nodes, status, score, verdict, winner>>
              /\ Stored' = Stored
            BY <2>5 DEF WriteTrace, Return, evidenceVars, resultVars, Stored
        <3> QED
            BY <1>0, <2>5, <3>1 DEF OrderInv, Untried
    <2>6. CASE UNCHANGED vars
        BY <1>0, <1>3, <2>6 DEF OrderInv, Untried, vars, resultVars, evidenceVars, Stored
    <2> QED
        BY <1>3, <2>2, <2>3, <2>4, <2>5, <2>6, HowReached
<1>4. CASE pc' \notin Trying \cup {"recoverVerify"} \cup Decided
    BY <1>0, <1>4 DEF OrderInv
<1> QED
    BY <1>1, <1>2, <1>3, <1>4

\* Nothing has a score before the first call.
LEMMA OrderInvInit == Init => OrderInv
BY DEF Init, OrderInv

-----------------------------------------------------------------------------
(***************************************************************************)
(* What gravity learns.                                                    *)
(***************************************************************************)

\* What the measurement of a branch without measurements amounts to.
LEMMA OneMeasurement ==
    ASSUME NEW o \in VerifierOutcomes
    PROVE  /\ Verifier = "accept" => Measured(<<>>, o) = <<>>
           /\ Verifier = "branch" =>
                /\ Measured(<<>>, o) # <<>>
                /\ Measured(<<>>, o)[1].outcome = o
                /\ AggregateOutcome(Measured(<<>>, o)) = o
           /\ IndependentOutcome(<<>>) = "NOT_MEASURED"
           /\ IndependentOutcome(Measured(<<>>, o)) \in {"SUPPORTED", "CONTRADICTED"} =>
                IndependentOutcome(Measured(<<>>, o)) = o
<1> DEFINE r  == [outcome |-> o, authority |-> Contract.authority,
                  independence |-> Contract.independence, identified |-> TRUE]
           ms == Append(<<>>, r)
<1>1. DOMAIN ms = {1} /\ ms[1] = r /\ ms # <<>>
    <2>1. <<>> \in Seq({r}) /\ r \in {r}
        BY EmptySeq
    <2>2. Len(ms) = 1 /\ ms[1] = r /\ DOMAIN ms = 1..1
        BY <2>1, AppendProperties, LenProperties, EmptySeq
    <2> QED
        BY <2>2, EmptySeq
<1>2. r.outcome = o
    OBVIOUS
<1>3. Measured(<<>>, o) = IF Verifier = "accept" THEN <<>> ELSE ms
    BY DEF Measured
<1> HIDE DEF ms, r
<1>4. /\ \A os : Reports(ms, os) <=> o \in os
      /\ AuthoritativelyContradicted(ms) => o = "CONTRADICTED"
    BY <1>1, <1>2 DEF Reports, AuthoritativelyContradicted
<1>5. AggregateOutcome(ms) = o
    BY <1>4 DEF AggregateOutcome, VerifierOutcomes
<1>6. IndependentOutcome(<<>>) = "NOT_MEASURED"
    BY DEF IndependentOutcome
<1>7. IndependentOutcome(ms) \in {o, "NOT_MEASURED"}
    <2> DEFINE counted == {ms[i].outcome : i \in {j \in DOMAIN ms : Independent(ms[j])}}
    <2>1. counted \subseteq {o}
        BY <1>1, <1>2
    <2>2. IndependentOutcome(ms) = IF "CONTRADICTED" \in counted   THEN "CONTRADICTED"
                                   ELSE IF "SUPPORTED" \in counted THEN "SUPPORTED"
                                   ELSE "NOT_MEASURED"
        BY DEF IndependentOutcome
    <2> HIDE DEF counted
    <2> QED
        BY <2>1, <2>2
<1> QED
    BY <1>1, <1>2, <1>3, <1>5, <1>6, <1>7

\* Branch n, routed by well w, was measured independently.
Learned(n, w) == /\ well[n] = w
                 /\ IndependentOutcome(measurements[n]) \in {"SUPPORTED", "CONTRADICTED"}

\* The branches a well has learned from.
Lessons(w) == {n \in Stored : Learned(n, w)}

\* They are finitely many, and one more lesson counts one more.
LEMMA LessonsAreFinite ==
    ASSUME SearchInv
    PROVE  \A w : IsFiniteSet(Lessons(w)) /\ Cardinality(Lessons(w)) \in Nat
<1>1. IsFiniteSet(Stored)
    <2>1. IsFiniteSet(Ids)
        BY SearchAssumption, FS_Interval DEF Ids
    <2> QED
        BY <2>1, ScoresAreNumbers, FS_Subset
<1>2. \A w : Lessons(w) \in SUBSET Stored
    BY DEF Lessons
<1> QED
    BY <1>1, <1>2, FS_Subset, FS_CardinalityType

\* A branch without a verdict has no measurement.
LEMMA UnjudgedIsUnmeasured ==
    ASSUME CaseInv, NEW n \in Ids, verdict[n] = "none"
    PROVE  measurements[n] = <<>>
BY DEF CaseInv, VerdictInv

\* A branch that waits for its evaluation has no verdict.
LEMMA UnevaluatedIsUnjudged ==
    ASSUME SearchInv, CaseInv, pc \in Unevaluated, NEW n \in Members(batch)
    PROVE  n \in Stored /\ n \in Ids /\ verdict[n] = "none"
<1>1. n \in Stored /\ n \in Ids /\ n \notin Members(candidates)
    BY ListedAreStored, ScoresAreNumbers DEF SearchInv, ListInv
<1>2. n \notin Tried
    BY <1>1 DEF Tried, Unevaluated, Proposing, Expanding, Recovering
<1> QED
    BY <1>1, <1>2 DEF CaseInv, VerdictInv, Open, Unevaluated, Proposing, Expanding, Recovering

\* A well learns one lesson from each verdict that an independent measurement
\* carries, and none from any other.
LEMMA VerdictTeaches ==
    ASSUME SearchInv, CaseInv, GravityLearnsFromEvidence, NEW n \in Stored, verdict[n] = "none",
           NEW v, NEW o, NEW st, Judges(n, v, o, st)
    PROVE  GravityLearnsFromEvidence'
<1> DEFINE outcome == IndependentOutcome(Measured(<<>>, o))
           decides == outcome \in {"SUPPORTED", "CONTRADICTED"}
<1>1. /\ n \in Ids /\ measurements[n] = <<>> /\ DOMAIN measurements = Ids
      /\ o \in VerifierOutcomes /\ Stored \subseteq Ids
    BY ScoresAreNumbers, UnjudgedIsUnmeasured
    DEF Judges, VerifierOutcomes, SearchInv, EvidenceTypes
<1>2. /\ measurements' = [measurements EXCEPT ![n] = Measured(<<>>, o)]
      /\ wells' = Trained(n, st, Measured(<<>>, o))
      /\ well' = well /\ Stored' = Stored
    BY <1>1 DEF Judges, Judge, Stored
<1>3. IndependentOutcome(<<>>) = "NOT_MEASURED" /\ (decides => outcome = o)
    BY <1>1, OneMeasurement
<1>4. decides <=> \/ st = "VERIFIED" /\ outcome = "SUPPORTED"
                  \/ st = "FAILED" /\ outcome = "CONTRADICTED"
    BY <1>3 DEF Judges
<1>5. \A w : n \notin Lessons(w)
    BY <1>1, <1>3 DEF Lessons, Learned
<1>6. wells' = IF well[n] \in Wells /\ decides
               THEN [wells EXCEPT ![well[n]].outcomes = @ + 1]
               ELSE wells
    BY <1>2, <1>4 DEF Trained
<1>7. \A w : Lessons(w)' = IF well[n] = w /\ decides THEN Lessons(w) \cup {n} ELSE Lessons(w)
    <2>1. \A m \in Stored : \A w : Learned(m, w)' <=> IF m = n THEN well[n] = w /\ decides
                                                               ELSE Learned(m, w)
        BY <1>1, <1>2 DEF Learned
    <2> QED
        BY <1>2, <1>5, <2>1 DEF Lessons
<1> HIDE DEF decides, outcome
<1>8. ASSUME NEW w \in Wells PROVE wells'[w].outcomes = Cardinality(Lessons(w)')
    <2>1. wells[w].outcomes = Cardinality(Lessons(w)) /\ IsFiniteSet(Lessons(w))
        BY LessonsAreFinite DEF GravityLearnsFromEvidence, Lessons, Learned
    <2>2. /\ wells[w] \in [applications : Nat, outcomes : Nat]
          /\ DOMAIN wells = Wells
        BY DEF SearchInv, EvidenceTypes
    <2>3. CASE well[n] = w /\ decides
        <3>1. wells'[w].outcomes = wells[w].outcomes + 1
            BY <1>6, <2>2, <2>3
        <3>2. Cardinality(Lessons(w) \cup {n}) = Cardinality(Lessons(w)) + 1
            BY <1>5, <2>1, FS_AddElement
        <3> QED
            BY <1>7, <2>1, <2>3, <3>1, <3>2
    <2>4. CASE ~ (well[n] = w /\ decides)
        <3>1. wells'[w] = wells[w]
            BY <1>6, <2>2, <2>4
        <3> QED
            BY <1>7, <2>1, <2>4, <3>1
    <2> QED
        BY <2>3, <2>4
<1> QED
    BY <1>8 DEF GravityLearnsFromEvidence, Lessons, Learned

\* No step miscounts.
LEMMA GravityStep ==
    SearchInv /\ CaseInv /\ OrderInv /\ GravityLearnsFromEvidence /\ [Next]_vars
        => GravityLearnsFromEvidence'
<1> SUFFICES ASSUME SearchInv, CaseInv, OrderInv, GravityLearnsFromEvidence, [Next]_vars
             PROVE  GravityLearnsFromEvidence'
    OBVIOUS
<1>1. Stored \subseteq Stored' /\ Stored' \subseteq Ids
    <2>1. GraphInv'
        BY SearchInvStep DEF SearchInv, EngineInv
    <2> QED
        BY <2>1, StoredGrows DEF SearchInv, GraphInv, Graph!TypeOK, Graph!Stored, Stored
<1>2. \A n \in Stored' \ Stored : measurements[n] = <<>>
    BY <1>1, UnjudgedIsUnmeasured DEF OrderInv
<1>3. IndependentOutcome(<<>>) = "NOT_MEASURED"
    BY OneMeasurement DEF VerifierOutcomes
<1>4. CASE UNCHANGED <<evidenceVars, wells>>
    <2>1. \A w : Lessons(w)' = Lessons(w)
        BY <1>1, <1>2, <1>3, <1>4 DEF Lessons, Learned, evidenceVars
    <2> QED
        BY <1>4, <2>1 DEF GravityLearnsFromEvidence, Lessons, Learned
<1>5. CASE pc \in Unevaluated /\ \E next : Evaluate(next)
    <2>1. CASE Return("provider")
        <3>1. UNCHANGED <<evidenceVars, wells>>
            BY <2>1 DEF Return
        <3> QED
            BY <1>4, <3>1
    <2>2. CASE ~ Return("provider")
        <3>1. /\ UNCHANGED measurements /\ Stored' = Stored
              /\ \A n \in Ids : n \notin Members(batch) => well'[n] = well[n]
              /\ \A w \in Wells : wells'[w].outcomes = wells[w].outcomes
            <4>1. PICK ev \in [Members(batch) -> Evaluations] :
                    /\ well' = [n \in Ids |-> IF n \in Members(batch) THEN ev[n].well ELSE well[n]]
                    /\ wells' = [w \in Wells |->
                                   [wells[w] EXCEPT !.applications =
                                      @ + Cardinality({n \in Members(batch) : ev[n].well = w})]]
                    /\ UNCHANGED <<nodes, measurements>>
                BY <1>5, <2>2 DEF Evaluate
            <4>2. \A w \in Wells : wells[w] \in [applications : Nat, outcomes : Nat]
                BY DEF SearchInv, EvidenceTypes
            <4>3. ASSUME NEW w \in Wells PROVE wells'[w].outcomes = wells[w].outcomes
                BY <4>1, <4>2
            <4> QED
                BY <4>1, <4>3 DEF Stored
        <3>2. \A n \in Members(batch) : measurements[n] = <<>>
            BY <1>5, UnevaluatedIsUnjudged, UnjudgedIsUnmeasured
        <3>3. \A w : Lessons(w)' = Lessons(w)
            BY <1>1, <1>3, <3>1, <3>2 DEF Lessons, Learned
        <3> QED
            BY <3>1, <3>3 DEF GravityLearnsFromEvidence, Lessons, Learned
    <2> QED
        BY <2>1, <2>2
<1>6. CASE \E n \in Stored : verdict[n] = "none" /\ \E v, o, st : Judges(n, v, o, st)
    BY <1>6, VerdictTeaches
<1> QED
    BY <1>4, <1>5, <1>6, StepKinds

\* No well has learned anything before the first call.
LEMMA GravityInit == Init => GravityLearnsFromEvidence
<1> SUFFICES ASSUME Init, NEW w \in Wells
             PROVE  wells[w].outcomes = Cardinality(Lessons(w))
    BY DEF GravityLearnsFromEvidence, Lessons, Learned
<1>1. Lessons(w) = {} /\ wells[w].outcomes = 0
    BY DEF Init, Graph!Init, Lessons, Stored
<1> QED
    BY <1>1, FS_EmptySet

-----------------------------------------------------------------------------
(***************************************************************************)
(* The result of a run.                                                    *)
(***************************************************************************)

\* A run that has selected a branch has one, and reports a recovery when it is
\* not the branch that led at first.
ResultInv ==
    pc \in {"trace", "selected"} => winner \in Stored /\ (winner # top => recovered)

\* Select establishes it.
LEMMA ResultInvStep == SearchInv /\ ResultInv /\ [Next]_vars => ResultInv'
<1> SUFFICES ASSUME SearchInv, ResultInv, [Next]_vars, pc' \in {"trace", "selected"}
             PROVE  winner' \in Stored' /\ (winner' # top' => recovered')
    BY DEF ResultInv
<1>1. CASE pc' = "trace" /\ Select
    <2>1. /\ pc = "select" /\ UNCHANGED <<nodes, winner, top>>
          /\ recovered' = (recovered \/ winner # top)
        BY <1>1 DEF Select
    <2>2. winner \in Stored
        BY <2>1 DEF SearchInv, EngineInv, LoopInv
    <2> QED
        BY <2>1, <2>2 DEF Stored
<1>2. CASE pc' = "selected" /\ WriteTrace
    <2>1. pc = "trace" /\ UNCHANGED <<nodes, winner, top, recovered>>
        BY <1>2 DEF WriteTrace, Return, resultVars
    <2> QED
        BY <2>1 DEF ResultInv, Stored
<1>3. CASE UNCHANGED vars
    BY <1>3 DEF vars, resultVars, ResultInv, Stored
<1> QED
    BY <1>1, <1>2, <1>3, HowReached

\* The invariant of a run: what it keeps of its branches, their evidence, its
\* lists, its verdicts, its order, its lessons and its result.
RunInv == SearchInv /\ CaseInv /\ OrderInv /\ GravityLearnsFromEvidence /\ ResultInv

\* It holds before the first call ...
LEMMA RunInvInit == Init => RunInv
<1>1. Init => ResultInv
    BY DEF Init, ResultInv
<1> QED
    BY <1>1, SearchInvInit, CaseInvInit, OrderInvInit, GravityInit DEF RunInv

\* ... and every step keeps it.
LEMMA RunInvStep == RunInv /\ [Next]_vars => RunInv'
<1> SUFFICES ASSUME RunInv, [Next]_vars PROVE RunInv'
    OBVIOUS
<1>1. SearchInv /\ CaseInv /\ OrderInv /\ GravityLearnsFromEvidence /\ ResultInv
    BY DEF RunInv
<1>2. CaseInv'
    BY <1>1, CaseInvStep DEF CaseStep
<1> QED
    BY <1>1, <1>2, SearchInvStep, OrderInvStep, GravityStep, ResultInvStep DEF RunInv

\* A list without repetition is no longer than there are branches.
LEMMA ListBound ==
    ASSUME SearchInv, NEW s \in Seq(Stored), IsInjective(s)
    PROVE  s \in Lists
<1>1. IsFiniteSet(Stored) /\ Cardinality(Stored) \in Nat
    <2>1. IsFiniteSet(Ids)
        BY SearchAssumption, FS_Interval DEF Ids
    <2> QED
        BY <2>1, ScoresAreNumbers, FS_Subset, FS_CardinalityType
<1>2. Len(s) \in Nat /\ s \in [1..Len(s) -> Stored] /\ DOMAIN s = 1..Len(s)
    BY LenProperties, SeqDef
<1>3. s \in Injection(1..Len(s), Stored)
    BY <1>2 DEF Injection, IsInjective
<1>4. Cardinality(1..Len(s)) <= Cardinality(Stored)
    BY <1>1, <1>3, FS_Injection
<1>5. Cardinality(1..Len(s)) = Len(s)
    BY <1>2, FS_Interval
<1>6. Len(s) \in 0..Cardinality(Stored)
    BY <1>1, <1>2, <1>4, <1>5
<1> QED
    BY <1>2, <1>6 DEF Lists

-----------------------------------------------------------------------------
(***************************************************************************)
(* Theorems of one run.                                                    *)
(***************************************************************************)

\* Every list and every index of Run refers to stored branches, no list holds
\* more than there are, and all evidence is well-formed.
THEOREM RunTypeOK == Spec => []TypeOK
<1>1. RunInv => TypeOK
    <2> SUFFICES ASSUME RunInv PROVE TypeOK
        OBVIOUS
    <2>1. SearchInv
        BY DEF RunInv
    <2>2. batch \in Lists /\ candidates \in Lists
        BY <2>1, ListBound, ListedAreStored DEF SearchInv, ListInv
    <2>3. Graph!TypeOK
        BY <2>1 DEF SearchInv, EngineInv, GraphInv
    <2>4. pending \in Seq(Fingerprints) /\ at \in Nat /\ winner \in Stored \cup {NoId}
        BY <2>1 DEF SearchInv, EngineInv, LoopInv
    <2> QED
        BY <2>1, <2>2, <2>3, <2>4 DEF TypeOK, SearchInv, EvidenceTypes
<1> QED
    BY <1>1, RunInvInit, RunInvStep, PTL DEF Spec

\* A run selects the one branch that passed its verifier, and under a branch
\* verifier the measurements of that branch support it.
THEOREM SelectionHolds == Spec => []SelectionIsVerified
<1>1. RunInv => SelectionIsVerified
    <2> SUFFICES ASSUME RunInv, pc \in {"trace", "selected"}
                 PROVE  /\ {n \in Stored : status[n] = "SELECTED"} = {winner}
                        /\ {n \in Stored : verdict[n] = "passed"} = {winner}
                        /\ Verifier = "branch" =>
                               AggregateOutcome(measurements[winner]) = "SUPPORTED"
        BY DEF SelectionIsVerified
    <2>1. SearchInv /\ winner \in Stored /\ Stored \subseteq Ids
        BY ScoresAreNumbers DEF RunInv, ResultInv
    <2>2. \A n \in Stored : /\ status[n] = "SELECTED" <=> n = winner
                            /\ verdict[n] = "passed" <=> n = winner
        BY <2>1 DEF RunInv, CaseInv, StatusInv, VerdictInv
    <2>3. measurements[winner] = Measured(<<>>, "SUPPORTED")
        BY <2>1, <2>2 DEF RunInv, CaseInv, VerdictInv
    <2>4. Verifier = "branch" => AggregateOutcome(measurements[winner]) = "SUPPORTED"
        BY <2>3, OneMeasurement DEF VerifierOutcomes
    <2> QED
        BY <2>1, <2>2, <2>4
<1> QED
    BY <1>1, RunInvInit, RunInvStep, PTL DEF Spec

\* A branch that was pruned or failed stays so, whatever later loops write.
THEOREM RejectionHolds == Spec => RejectionIsFinal
<1>1. RunInv /\ [Next]_vars =>
        [\A n \in Stored : status[n] \in Rejectable => status'[n] = status[n]]_vars
    BY CaseInvStep DEF RunInv, CaseStep, Final
<1> QED
    BY <1>1, RunInvInit, RunInvStep, PTL DEF Spec, RejectionIsFinal

\* No branch is put to the verifier twice: a verdict and its measurements stand.
THEOREM VerdictsStand == Spec => VerifiedOnce
<1>1. RunInv /\ [Next]_vars =>
        [\A n \in Stored : verdict[n] # "none" =>
              /\ verdict'[n] = verdict[n]
              /\ measurements'[n] = measurements[n]]_vars
    BY CaseInvStep DEF RunInv, CaseStep, Once
<1> QED
    BY <1>1, RunInvInit, RunInvStep, PTL DEF Spec, VerifiedOnce

\* "no candidate passed verification" leaves no branch untried.
THEOREM ExhaustionHolds == Spec => []NothingUntried
<1>1. RunInv => NothingUntried
    BY DEF RunInv, CaseInv, AccountInv
<1> QED
    BY <1>1, RunInvInit, RunInvStep, PTL DEF Spec

\* No branch left untried outranks the winner.
THEOREM BestFirstHolds == Spec => []BestFirst
<1>1. RunInv => BestFirst
    BY DEF RunInv, OrderInv, BestFirst
<1> QED
    BY <1>1, RunInvInit, RunInvStep, PTL DEF Spec

\* Gravity counts each independently measured outcome of a branch it routed
\* once, and nothing else.
THEOREM GravityHolds == Spec => []GravityLearnsFromEvidence
<1>1. RunInv => GravityLearnsFromEvidence
    BY DEF RunInv
<1> QED
    BY <1>1, RunInvInit, RunInvStep, PTL DEF Spec

-----------------------------------------------------------------------------
(***************************************************************************)
(* Theorems of the row that reports a run.                                 *)
(***************************************************************************)

\* A step of the row is a step of the run or leaves it alone.
LEMMA RowStep == [RowNext]_rowVars => [Next]_vars
BY DEF RowNext, Search, ReportFailure, ReportSelection, Reported, rowVars

\* So the run inside a row is a run of the engine.
THEOREM RowRunsEngine == RowSpec => Spec
<1>1. RowInit => Init
    BY DEF RowInit
<1> QED
    BY <1>1, RowStep, PTL DEF RowSpec, Spec

\* And it only changes its graph by the graph's operations.
THEOREM RowImplementsGraph == RowSpec => ImplementsGraph
BY RowRunsEngine, EngineImplementsGraph

\* The row of a selected branch tells a recovery from its initial branch.
LEMMA SelectionRow ==
    ASSUME RunInv, ReportSelection
    PROVE  AnsweredRecoveries'
<1>1. PICK initial \in InitialOutcomes :
        row' = [attempted  |-> initial = "CONTRADICTED",
                successful |-> initial = "CONTRADICTED" /\ FinalPassed /\ recovered,
                passed     |-> FinalPassed,
                code       |-> "NONE"]
    BY DEF ReportSelection
<1>2. pc = "selected" /\ winner \in Stored /\ winner \in Ids /\ winner # NoId
    BY ScoresAreNumbers, StoredIsGraphs
    DEF ReportSelection, RunInv, ResultInv, Ids, NoId
<1>3. CASE winner # top
    <2>1. recovered
        BY <1>2, <1>3 DEF RunInv, ResultInv
    <2> QED
        BY <1>1, <2>1 DEF AnsweredRecoveries
<1>4. CASE winner = top
    <2>1. verdict[winner] = "passed"
        BY <1>2 DEF RunInv, CaseInv, VerdictInv
    <2>2. measurements[winner] = Measured(<<>>, "SUPPORTED")
        BY <1>2, <2>1 DEF RunInv, CaseInv, VerdictInv
    <2>3. measurements[winner] # <<>> /\ measurements[winner][1].outcome = "SUPPORTED"
        BY <2>2, RowAssumption, OneMeasurement DEF VerifierOutcomes
    <2>4. initial = "SUPPORTED"
        BY <1>2, <1>4, <2>3 DEF InitialOutcomes
    <2> QED
        BY <1>1, <2>4 DEF AnsweredRecoveries
<1> QED
    BY <1>3, <1>4

\* The row of an answered run counts a recovery exactly when its initial branch
\* fails the objective verifier.
THEOREM RecoveriesHold == RowSpec => []AnsweredRecoveries
<1> DEFINE Inv == RunInv /\ AnsweredRecoveries
<1>1. RowInit => Inv
    BY RunInvInit DEF RowInit, NoRow, AnsweredRecoveries
<1>2. Inv /\ [RowNext]_rowVars => Inv'
    <2> SUFFICES ASSUME Inv, [RowNext]_rowVars PROVE Inv'
        OBVIOUS
    <2>1. RunInv'
        BY RowStep, RunInvStep
    <2>2. CASE ReportSelection
        BY <2>1, <2>2, SelectionRow
    <2>3. CASE ReportFailure
        <3>1. row'.passed = FALSE
            BY <2>3 DEF ReportFailure
        <3> QED
            BY <2>1, <3>1 DEF AnsweredRecoveries
    <2>4. CASE UNCHANGED row
        BY <2>1, <2>4 DEF AnsweredRecoveries
    <2> QED
        BY <2>2, <2>3, <2>4 DEF RowNext, Search, Reported, rowVars
<1> QED
    BY <1>1, <1>2, PTL DEF RowSpec

=============================================================================
