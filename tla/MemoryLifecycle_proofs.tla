---------------------- MODULE MemoryLifecycle_proofs ----------------------
(***************************************************************************)
(* For all records, results, experiences and any number of both: the links *)
(* of superseded records lead on, statuses follow the evidence, and a      *)
(* pattern keeps the distinct support it was made from.                    *)
(*                                                                         *)
(* The three hold together, record by record, of a list of records whose   *)
(* identifiers are distinct (Sound).  Every operation is one of three      *)
(* changes of that list: a record put at its end (AppendSound), a record   *)
(* changed where it stands (PutSound), and the patterns of a consolidation *)
(* joined to it (ConsolidateSound).  What carries patterns through is that *)
(* the records they name are stored before them, so that no later record   *)
(* can take one of the names.                                              *)
(***************************************************************************)
EXTENDS MemoryLifecycle, FiniteSetTheorems, SequenceTheorems, TLAPS

\* The records the i-th names as its contributors.
Support(s, i) == {j \in DOMAIN s : s[j].id \in s[i].from}

SupportGroups(s, i) == {s[j].group : j \in Support(s, i)}

Leads(s, i) ==
    /\ s[i].status = "superseded" => s[i].by # NoRecord
    /\ s[i].by # NoRecord => \E j \in DOMAIN s : j > i /\ s[j].id = s[i].by

Follows(r) ==
    /\ r.status = "supported" => DecidedBy(r, "SUPPORTED", "supported")
    /\ r.status = "contradicted" => DecidedBy(r, "CONTRADICTED", "contradicted")

Rests(s, i) ==
    /\ s[i].tier = "domain"
    /\ \A id \in s[i].from : \E j \in DOMAIN s : j < i /\ s[j].id = id
    /\ Cardinality(SupportGroups(s, i)) >= 2
    /\ \A j \in Support(s, i) : ~ s[j].derived

Sound(s) ==
    /\ s \in Seq(Record)
    /\ Distinct(s)
    /\ \A i \in DOMAIN s : /\ Leads(s, i)
                           /\ Follows(s[i])
                           /\ s[i].id \in PatternIds => Rests(s, i)

-----------------------------------------------------------------------------
(***************************************************************************)
(* Lemmas about lists of records.                                          *)
(***************************************************************************)

\* The positions of a list of records, and what is there.
LEMMA Positions ==
    ASSUME NEW S, NEW s \in Seq(S)
    PROVE  /\ Len(s) \in Nat
           /\ DOMAIN s = 1..Len(s)
           /\ \A i \in DOMAIN s : i \in Nat /\ s[i] \in S
BY LenProperties, ElementOfSeq

\* An interval from one has one end.
LEMMA SameEnd == ASSUME NEW m \in Nat, NEW n \in Nat, 1..m = 1..n PROVE m = n
<1>1. m \in 1..m \/ m = 0
    OBVIOUS
<1>2. n \in 1..n \/ n = 0
    OBVIOUS
<1>3. m \in 1..n \/ m = 0
    BY <1>1
<1>4. n \in 1..m \/ n = 0
    BY <1>2
<1>5. m <= n /\ n <= m
    BY <1>3, <1>4
<1> QED
    BY <1>5

\* What a record may name.
LEMMA RecordTypes ==
    ASSUME NEW r \in Record
    PROVE  /\ r.id \in Names \cup PatternIds
           /\ r.from \subseteq Names
           /\ r.by \in Names \cup {NoRecord}
           /\ r.derived \in BOOLEAN
           /\ r.results \in Seq(Measured)
BY DEF Record

\* A record as it is made: without a successor or a measurement, with the status
\* it was made with.
Newborn(r) == /\ r.by = NoRecord
              /\ r.status # "superseded"
              /\ r.results = <<>>
              /\ r.born = r.status

\* Its status is decided by how it was made.
LEMMA NewbornFollows == ASSUME NEW r, Newborn(r) PROVE Follows(r)
<1>1. Decisions(r) = {}
    BY DEF Newborn, Decisions
<1> QED
    BY <1>1 DEF Newborn, Follows, DecidedBy

\* Joining a list to another leaves the first where it was.
LEMMA Joined ==
    ASSUME NEW s \in Seq(Record), NEW t \in Seq(Record)
    PROVE  /\ s \o t \in Seq(Record)
           /\ DOMAIN (s \o t) = 1..(Len(s) + Len(t))
           /\ \A i \in DOMAIN s : i \in DOMAIN (s \o t) /\ (s \o t)[i] = s[i]
           /\ \A i \in DOMAIN (s \o t) :
                 i \in DOMAIN s \/ (/\ i > Len(s)
                                    /\ i - Len(s) \in DOMAIN t
                                    /\ (s \o t)[i] = t[i - Len(s)])
<1>1. /\ DOMAIN s = 1..Len(s) /\ Len(s) \in Nat
      /\ DOMAIN t = 1..Len(t) /\ Len(t) \in Nat
    BY Positions
<1>2. s \o t \in Seq(Record) /\ Len(s \o t) = Len(s) + Len(t)
      /\ \A i \in 1..(Len(s) + Len(t)) :
             (s \o t)[i] = IF i <= Len(s) THEN s[i] ELSE t[i - Len(s)]
    BY ConcatProperties
<1>3. DOMAIN (s \o t) = 1..(Len(s) + Len(t))
    BY <1>2, Positions
<1> QED
    BY <1>1, <1>2, <1>3

\* New records whose identifiers no old one names leave the old ones sound.
LEMMA OldStaySound ==
    ASSUME NEW s, Sound(s), NEW t \in Seq(Record),
           \A j \in DOMAIN t : ~ Has(s, t[j].id),
           NEW i \in DOMAIN s
    PROVE  LET u == s \o t
           IN  /\ Leads(u, i)
               /\ Follows(u[i])
               /\ u[i].id \in PatternIds => Rests(u, i)
<1> DEFINE u == s \o t
<1>1. /\ DOMAIN s \subseteq DOMAIN u /\ \A j \in DOMAIN s : u[j] = s[j]
      /\ \A k \in DOMAIN u : k \in DOMAIN s \/ \E j \in DOMAIN t : u[k] = t[j]
    BY Joined DEF Sound
<1> HIDE DEF u
<1>2. Leads(u, i) /\ Follows(u[i])
    BY <1>1 DEF Sound, Leads
<1>3. ASSUME s[i].id \in PatternIds PROVE Rests(u, i)
    <2>1. Rests(s, i)
        BY <1>3 DEF Sound
    <2>2. \A j \in DOMAIN t : t[j].id \notin s[i].from
        BY <2>1 DEF Rests, Has
    <2>3. Support(u, i) = Support(s, i)
        BY <1>1, <2>2 DEF Support
    <2>4. \A j \in Support(s, i) : j \in DOMAIN s /\ u[j] = s[j]
        BY <1>1 DEF Support
    <2>5. SupportGroups(u, i) = SupportGroups(s, i)
        BY <2>3, <2>4 DEF SupportGroups
    <2>6. \A id \in u[i].from : \E j \in DOMAIN u : j < i /\ u[j].id = id
        BY <1>1, <2>1 DEF Rests
    <2> QED
        BY <1>1, <2>1, <2>3, <2>4, <2>5, <2>6 DEF Rests
<1> QED
    BY <1>1, <1>2, <1>3 DEF u

\* A record put at the end.
LEMMA AppendSound ==
    ASSUME NEW s, Sound(s), NEW r \in Record, r.id \in Names, Newborn(r), ~ Has(s, r.id)
    PROVE  Sound(Append(s, r))
<1> DEFINE t == <<r>>
           u == s \o t
<1>1. s \in Seq(Record) /\ t \in Seq(Record) /\ DOMAIN t = {1} /\ t[1] = r /\ Len(t) = 1
    BY DEF Sound
<1>2. Append(s, r) = u
    BY <1>1, AppendIsConcat
<1>3. \A j \in DOMAIN t : ~ Has(s, t[j].id)
    BY <1>1
<1>4. /\ u \in Seq(Record)
      /\ \A i \in DOMAIN s : u[i] = s[i]
      /\ \A i \in DOMAIN u : i \in DOMAIN s \/ (i = Len(s) + 1 /\ u[i] = r)
    <2>1. Len(s) \in Nat
        BY <1>1, Positions
    <2> HIDE DEF t
    <2> QED
        BY <1>1, <2>1, Joined
<1>5. \A i \in DOMAIN s : /\ Leads(u, i)
                          /\ Follows(u[i])
                          /\ u[i].id \in PatternIds => Rests(u, i)
    BY <1>1, <1>3, OldStaySound
<1> HIDE DEF u, t
<1>6. \A i \in DOMAIN u : u[i] = r =>
          /\ Leads(u, i)
          /\ Follows(u[i])
          /\ u[i].id \in PatternIds => Rests(u, i)
    BY NewbornFollows, LifecycleAssumption DEF Newborn, Leads
<1>7. Distinct(u)
    BY <1>4 DEF Sound, Distinct, Has
<1> QED
    BY <1>2, <1>4, <1>5, <1>6, <1>7 DEF Sound

\* Put changes the one record with that identifier.
LEMMA PutEffect ==
    ASSUME NEW s \in Seq(Record), Distinct(s), NEW i \in DOMAIN s, NEW r \in Record,
           r.id = s[i].id
    PROVE  /\ Put(s, r) \in Seq(Record)
           /\ DOMAIN Put(s, r) = DOMAIN s
           /\ \A j \in DOMAIN s : Put(s, r)[j] = IF j = i THEN r ELSE s[j]
<1>1. /\ DOMAIN Put(s, r) = DOMAIN s
      /\ \A j \in DOMAIN s : Put(s, r)[j] = IF j = i THEN r ELSE s[j]
    BY DEF Put, Distinct
<1>2. DOMAIN s = 1..Len(s) /\ Len(s) \in Nat /\ \A j \in DOMAIN s : s[j] \in Record
    BY Positions
<1>3. Put(s, r) \in [1..Len(s) -> Record]
    BY <1>1, <1>2 DEF Put
<1> QED
    BY <1>1, <1>2, <1>3, SeqDef

\* A record changed where it stands, but not in what others know of it.
LEMMA PutSound ==
    ASSUME NEW s, Sound(s), NEW i \in DOMAIN s, NEW r \in Record,
           r.id = s[i].id, r.group = s[i].group, r.derived = s[i].derived,
           r.from = s[i].from,
           r.id \in PatternIds => r.tier = s[i].tier,
           r.status = "superseded" => r.by # NoRecord,
           r.by # NoRecord => r.by = s[i].by \/ \E j \in DOMAIN s : j > i /\ s[j].id = r.by,
           Follows(r)
    PROVE  Sound(Put(s, r))
<1> DEFINE t == Put(s, r)
<1>1. /\ t \in Seq(Record) /\ DOMAIN t = DOMAIN s
      /\ \A j \in DOMAIN s : t[j] = IF j = i THEN r ELSE s[j]
    BY PutEffect DEF Sound
<1> HIDE DEF t
<1>2. \A j \in DOMAIN s : /\ t[j].id = s[j].id /\ t[j].group = s[j].group
                          /\ t[j].derived = s[j].derived /\ t[j].from = s[j].from
    BY <1>1
<1>3. Distinct(t)
    BY <1>1, <1>2 DEF Sound, Distinct
<1>4. ASSUME NEW k \in DOMAIN s PROVE Leads(t, k)
    <2>1. Leads(s, k) /\ Leads(s, i)
        BY DEF Sound
    <2> QED
        BY <1>1, <1>2, <2>1 DEF Leads
<1>5. ASSUME NEW k \in DOMAIN s PROVE Follows(t[k])
    BY <1>1 DEF Sound
<1>6. ASSUME NEW k \in DOMAIN s, t[k].id \in PatternIds PROVE Rests(t, k)
    <2>1. Rests(s, k)
        BY <1>2, <1>6 DEF Sound
    <2>2. Support(t, k) = Support(s, k)
        BY <1>1, <1>2 DEF Support
    <2>3. SupportGroups(t, k) = SupportGroups(s, k)
        BY <1>2, <2>2 DEF SupportGroups, Support
    <2>4. t[k].tier = "domain"
        BY <1>1, <1>6, <2>1 DEF Rests
    <2>5. \A j \in Support(t, k) : ~ t[j].derived
        BY <1>2, <2>1, <2>2 DEF Rests, Support
    <2>6. \A id \in t[k].from : \E j \in DOMAIN t : j < k /\ t[j].id = id
        BY <1>1, <1>2, <2>1 DEF Rests
    <2> QED
        BY <2>1, <2>3, <2>4, <2>5, <2>6 DEF Rests
<1> QED
    BY <1>1, <1>3, <1>4, <1>5, <1>6 DEF Sound, t

-----------------------------------------------------------------------------
(***************************************************************************)
(* Measurements.                                                           *)
(***************************************************************************)

\* A result is added to those of a record, and decides if it may.
LEMMA ResultAdded ==
    ASSUME NEW q \in Record, NEW r \in Record, NEW m \in Measured,
           r.results = Append(q.results, m), r.born = q.born
    PROVE  LET n == Len(q.results) + 1
           IN  /\ n \in Nat /\ r.results[n] = m
               /\ \A k \in Decisions(q) : k < n /\ r.results[k] = q.results[k]
               /\ Decisions(r) = IF Independent(m) /\ m.outcome \in {"SUPPORTED", "CONTRADICTED"}
                                 THEN Decisions(q) \cup {n}
                                 ELSE Decisions(q)
<1> DEFINE n == Len(q.results) + 1
<1>1. q.results \in Seq(Measured)
    BY RecordTypes
<1>2. DOMAIN q.results = 1..Len(q.results) /\ Len(q.results) \in Nat
    BY <1>1, Positions
<1>3. /\ r.results \in Seq(Measured) /\ Len(r.results) = n
      /\ \A k \in 1..Len(q.results) : r.results[k] = q.results[k]
      /\ r.results[n] = m
    BY <1>1, AppendProperties
<1>4. DOMAIN r.results = 1..n
    BY <1>3, Positions
<1> QED
    BY <1>2, <1>3, <1>4 DEF Decisions

\* ApplyCurrentMeasurement leaves the status with the evidence.
LEMMA MeasuredFollows ==
    ASSUME NEW q \in Record, Follows(q), NEW m \in Measured, NEW r \in Record,
           r.status = StatusAfter(q.status, m),
           r.results = IF m.identified THEN Append(q.results, m) ELSE q.results,
           r.born = q.born
    PROVE  Follows(r)
<1> DEFINE decides == Independent(m) /\ m.outcome \in {"SUPPORTED", "CONTRADICTED"}
<1>1. CASE decides
    <2>1. m.identified
        BY <1>1 DEF Independent
    <2>2. PICK n \in Nat : /\ r.results[n] = m
                           /\ \A k \in Decisions(q) : k < n
                           /\ Decisions(r) = Decisions(q) \cup {n}
        BY <1>1, <2>1, ResultAdded
    <2>3. \A k \in Decisions(q) : k \in Nat
        <3>1. q.results \in Seq(Measured)
            BY RecordTypes
        <3> QED
            BY <3>1, Positions DEF Decisions
    <2>4. \A j \in Decisions(r) : j <= n
        BY <2>2, <2>3
    <2>5. /\ n \in Decisions(r) /\ r.results[n].outcome = m.outcome
          /\ r.status = IF m.outcome = "SUPPORTED" THEN "supported" ELSE "contradicted"
        BY <1>1, <2>2 DEF StatusAfter
    <2> QED
        BY <1>1, <2>4, <2>5 DEF Follows, DecidedBy
<1>2. CASE ~ decides
    <2>1. /\ Decisions(r) = Decisions(q)
          /\ \A k \in Decisions(q) : r.results[k] = q.results[k]
        <3>1. CASE m.identified
            BY <1>2, <3>1, ResultAdded
        <3>2. CASE ~ m.identified
            BY <3>2 DEF Decisions
        <3> QED
            BY <3>1, <3>2
    <2>2. r.status \in {q.status, "uncertain"}
        BY <1>2 DEF StatusAfter
    <2> QED
        BY <2>1, <2>2 DEF Follows, DecidedBy
<1> QED
    BY <1>1, <1>2

\* A change that leaves the results and the status, or marks a record as
\* superseded, leaves it following them.
LEMMA UnmeasuredFollows ==
    ASSUME NEW q, NEW r, Follows(q), r.results = q.results, r.born = q.born,
           r.status \in {q.status, "superseded"}
    PROVE  Follows(r)
<1>1. Decisions(r) = Decisions(q)
    BY DEF Decisions
<1> QED
    BY <1>1 DEF Follows, DecidedBy

-----------------------------------------------------------------------------
(***************************************************************************)
(* Consolidation.                                                          *)
(***************************************************************************)

\* A finite set of numbers has an i-th element for every i up to its size.
LEMMA NthElement ==
    ASSUME NEW S \in SUBSET Nat, IsFiniteSet(S), NEW i \in 1..Cardinality(S)
    PROVE  Nth(S, i) \in S /\ Cardinality({j \in S : j <= Nth(S, i)}) = i
<1> DEFINE m == Cardinality(S)
           upTo(k) == {j \in S : j <= k}
           f == [k \in S |-> Cardinality(upTo(k))]
<1>1. m \in Nat
    BY FS_CardinalityType
<1>2. ASSUME NEW k \in S
      PROVE  /\ IsFiniteSet(upTo(k))
             /\ Cardinality(upTo(k)) \in 1..m
    <2>1. upTo(k) \in SUBSET S /\ k \in upTo(k)
        OBVIOUS
    <2>2. IsFiniteSet(upTo(k)) /\ Cardinality(upTo(k)) <= m
        BY <2>1, FS_Subset
    <2>3. Cardinality(upTo(k)) \in Nat /\ Cardinality(upTo(k)) # 0
        BY <2>1, <2>2, FS_CardinalityType, FS_EmptySet
    <2> QED
        BY <1>1, <2>2, <2>3
<1>3. ASSUME NEW k \in S, NEW l \in S, k < l
      PROVE  f[k] # f[l]
    <2>0. k \in Nat /\ l \in Nat /\ \A j \in S : j \in Nat
        OBVIOUS
    <2>1. upTo(k) \in SUBSET upTo(l) /\ l \in upTo(l) /\ l \notin upTo(k)
        <3>1. \A j \in upTo(k) : j \in upTo(l)
            BY <1>3, <2>0
        <3>2. upTo(k) \subseteq upTo(l)
            BY <3>1
        <3>3. l <= l /\ ~ (l <= k)
            BY <1>3, <2>0
        <3>4. l \in upTo(l) /\ l \notin upTo(k)
            BY <3>3
        <3> HIDE DEF upTo
        <3> QED
            BY <3>2, <3>4
    <2> QED
        BY <1>2, <2>1, FS_Subset
<1>4. f \in Injection(S, 1..m)
    <2>1. f \in [S -> 1..m]
        BY <1>2
    <2>2. ASSUME NEW k \in S, NEW l \in S, f[k] = f[l] PROVE k = l
        <3>1. k \in Nat /\ l \in Nat
            OBVIOUS
        <3>2. ~ (k < l) /\ ~ (l < k)
            BY <1>3, <2>2
        <3> QED
            BY <3>1, <3>2
    <2> QED
        BY <2>1, <2>2 DEF Injection, IsInjective
<1>5. IsFiniteSet(1..m) /\ Cardinality(1..m) = m
    BY <1>1, FS_Interval
<1>6. f \in Surjection(S, 1..m)
    BY <1>4, <1>5, FS_Injection
<1>7. \E k \in S : Cardinality({j \in S : j <= k}) = i
    BY <1>6 DEF Surjection
<1> QED
    BY <1>7 DEF Nth

\* The patterns of a consolidation are those of distinct strategies that may be
\* promoted and whose pattern is not stored.
LEMMA ConsolidatedFacts ==
    /\ Cardinality(Promoted) \in Nat
    /\ DOMAIN Consolidated = 1..Cardinality(Promoted)
    /\ \A i \in DOMAIN Consolidated :
          /\ \E k \in DOMAIN Strategies : Consolidated[i] = Strategies[k]
          /\ Promotable(Consolidated[i])
          /\ ~ Has(records, Pattern(Consolidated[i]).id)
    /\ \A i, j \in DOMAIN Consolidated : Consolidated[i] = Consolidated[j] => i = j
<1>1. DOMAIN Strategies = 1..Len(Strategies) /\ Len(Strategies) \in Nat
    BY LifecycleAssumption, LenProperties
<1>2. Promoted \in SUBSET Nat /\ IsFiniteSet(Promoted)
    <2>1. IsFiniteSet(1..Len(Strategies))
        BY <1>1, FS_Interval
    <2>2. Promoted \in SUBSET (1..Len(Strategies))
        BY <1>1 DEF Promoted
    <2>3. IsFiniteSet(Promoted)
        BY <2>1, <2>2, FS_Subset
    <2>4. 1..Len(Strategies) \subseteq Nat
        BY <1>1
    <2> QED
        BY <2>2, <2>3, <2>4
<1>3. Cardinality(Promoted) \in Nat
    BY <1>2, FS_CardinalityType
<1>4. \A i \in 1..Cardinality(Promoted) :
          /\ Nth(Promoted, i) \in Promoted
          /\ Cardinality({j \in Promoted : j <= Nth(Promoted, i)}) = i
    BY <1>2, NthElement
<1>5. /\ DOMAIN Consolidated = 1..Cardinality(Promoted)
      /\ \A i \in 1..Cardinality(Promoted) : Consolidated[i] = Strategies[Nth(Promoted, i)]
    BY DEF Consolidated
<1>6. ASSUME NEW k \in Promoted
      PROVE  /\ k \in DOMAIN Strategies
             /\ Promotable(Strategies[k])
             /\ ~ Has(records, Pattern(Strategies[k]).id)
    <2>1. k \in DOMAIN Strategies /\ Promotable(Strategies[k]) /\ ~ Refused(Strategies[k])
        BY <1>1 DEF Promoted
    <2> QED
        BY <2>1 DEF Refused, AppendRefused
<1>7. ASSUME NEW i \in DOMAIN Consolidated, NEW j \in DOMAIN Consolidated,
             Consolidated[i] = Consolidated[j]
      PROVE  i = j
    <2>1. i \in 1..Cardinality(Promoted) /\ j \in 1..Cardinality(Promoted)
        BY <1>5
    <2>2. PICK k \in Promoted, l \in Promoted :
              /\ k = Nth(Promoted, i) /\ l = Nth(Promoted, j)
              /\ Cardinality({o \in Promoted : o <= k}) = i
              /\ Cardinality({o \in Promoted : o <= l}) = j
        BY <1>4, <2>1
    <2>3. Strategies[k] = Strategies[l]
        BY <1>5, <1>7, <2>1, <2>2
    <2>4. k = l
        BY <1>6, <2>3, LifecycleAssumption
    <2> QED
        BY <2>2, <2>4
<1> QED
    BY <1>3, <1>4, <1>5, <1>6, <1>7

\* A pattern is a record, and names the episodes that support its strategy.
LEMMA PatternIsRecord ==
    ASSUME Sound(records), NEW k \in DOMAIN Strategies
    PROVE  LET p == Pattern(Strategies[k])
           IN  /\ p \in Record
               /\ p.id = <<Strategies[k], p.from>> /\ p.id \in PatternIds
               /\ p.tier = "domain" /\ Newborn(p)
               /\ p.from = {records[i].id : i \in SupportOf(Strategies[k])}
               /\ p.from \subseteq Names
<1> DEFINE from == {records[i].id : i \in SupportOf(Strategies[k])}
<1>1. from \subseteq Names
    <2> SUFFICES ASSUME NEW i \in SupportOf(Strategies[k]) PROVE records[i].id \in Names
        OBVIOUS
    <2>1. i \in DOMAIN records /\ records[i].tier = "episodic" /\ records[i] \in Record
        BY Positions DEF SupportOf, Sound
    <2>2. records[i].id \notin PatternIds
        BY <2>1 DEF Sound, Rests
    <2> QED
        BY <2>1, <2>2, RecordTypes
<1>2. <<Strategies[k], from>> \in PatternIds
    BY <1>1 DEF PatternIds
<1>3. Pattern(Strategies[k]) =
        [id |-> <<Strategies[k], from>>, tier |-> "domain", content |-> Missing,
         valid |-> TRUE, derived |-> FALSE, status |-> "supported",
         strategy |-> Strategies[k], group |-> <<Strategies[k], from>>, by |-> NoRecord,
         from |-> from, results |-> <<>>, born |-> "supported"]
    BY DEF Pattern
<1> HIDE DEF from
<1>4. Pattern(Strategies[k]) \in Record
    BY <1>1, <1>2, <1>3, EmptySeq DEF Record, Tiers, Statuses
<1> QED
    BY <1>1, <1>2, <1>3, <1>4 DEF Newborn, from

\* The patterns of a consolidation, as a list.
LEMMA PatternList ==
    ASSUME Sound(records)
    PROVE  LET t == [k \in DOMAIN Consolidated |-> Pattern(Consolidated[k])]
           IN  t \in Seq(Record) /\ Len(t) = Len(Consolidated)
<1> DEFINE t == [k \in DOMAIN Consolidated |-> Pattern(Consolidated[k])]
           n == Cardinality(Promoted)
           S == {Consolidated[k] : k \in 1..n}
<1>1. /\ n \in Nat /\ DOMAIN Consolidated = 1..n
      /\ \A k \in 1..n : Pattern(Consolidated[k]) \in Record
    BY ConsolidatedFacts, PatternIsRecord
<1>2. Consolidated \in [1..n -> S]
    BY DEF Consolidated
<1>3. t \in [1..n -> Record]
    BY <1>1
<1> HIDE DEF t, S, n
<1>4. Consolidated \in Seq(S) /\ t \in Seq(Record)
    BY <1>1, <1>2, <1>3, SeqDef
<1>5. /\ Len(t) \in Nat /\ DOMAIN t = 1..Len(t)
      /\ Len(Consolidated) \in Nat /\ DOMAIN Consolidated = 1..Len(Consolidated)
    BY <1>4, LenProperties
<1>6. DOMAIN t = 1..n
    BY <1>3
<1>7. Len(t) = n /\ Len(Consolidated) = n
    BY <1>1, <1>5, <1>6, SameEnd
<1> QED
    BY <1>4, <1>7 DEF t

\* Joining the patterns keeps the list sound.
LEMMA ConsolidateSound ==
    ASSUME Sound(records)
    PROVE  Sound(records \o [k \in DOMAIN Consolidated |-> Pattern(Consolidated[k])])
<1> DEFINE t == [k \in DOMAIN Consolidated |-> Pattern(Consolidated[k])]
           u == records \o t
<1>1. \A j \in DOMAIN t :
          /\ \E k \in DOMAIN Strategies : Consolidated[j] = Strategies[k]
          /\ Promotable(Consolidated[j])
          /\ ~ Has(records, t[j].id)
          /\ t[j] = Pattern(Consolidated[j])
    BY ConsolidatedFacts
<1>2. \A j \in DOMAIN t :
          /\ t[j] \in Record
          /\ t[j].id = <<Consolidated[j], t[j].from>> /\ t[j].id \in PatternIds
          /\ t[j].tier = "domain" /\ Newborn(t[j])
          /\ t[j].from = {records[i].id : i \in SupportOf(Consolidated[j])}
          /\ t[j].from \subseteq Names
    BY <1>1, PatternIsRecord
<1>3. t \in Seq(Record) /\ records \in Seq(Record)
    BY PatternList DEF Sound
<1>4. \A i, j \in DOMAIN t : t[i].id = t[j].id => i = j
    BY <1>2, ConsolidatedFacts
<1> HIDE DEF t
<1>5. /\ u \in Seq(Record) /\ Len(records) \in Nat /\ DOMAIN records = 1..Len(records)
      /\ \A i \in DOMAIN records : i \in DOMAIN u /\ u[i] = records[i]
      /\ \A i \in DOMAIN u :
            \/ i \in DOMAIN records
            \/ i > Len(records) /\ i - Len(records) \in DOMAIN t /\ u[i] = t[i - Len(records)]
      /\ \A i \in DOMAIN u : i \in Nat
    BY <1>3, Joined, Positions
<1>6. \A i \in DOMAIN records : /\ Leads(u, i)
                                /\ Follows(u[i])
                                /\ u[i].id \in PatternIds => Rests(u, i)
    BY <1>1, <1>3, OldStaySound
<1> HIDE DEF u
<1>7. Distinct(u)
    <2> SUFFICES ASSUME NEW i \in DOMAIN u, NEW j \in DOMAIN u, u[i].id = u[j].id PROVE i = j
        BY DEF Distinct
    <2>1. CASE i \in DOMAIN records /\ j \in DOMAIN records
        BY <1>5, <2>1 DEF Sound, Distinct
    <2>2. CASE i \notin DOMAIN records /\ j \notin DOMAIN records
        <3>1. i - Len(records) = j - Len(records)
            BY <1>4, <1>5, <2>2
        <3> QED
            BY <1>5, <3>1
    <2>3. CASE i \in DOMAIN records /\ j \notin DOMAIN records
        BY <1>1, <1>5, <2>3 DEF Has
    <2>4. CASE i \notin DOMAIN records /\ j \in DOMAIN records
        BY <1>1, <1>5, <2>4 DEF Has
    <2> QED
        BY <2>1, <2>2, <2>3, <2>4
<1>8. ASSUME NEW i \in DOMAIN u, NEW j \in DOMAIN t, i > Len(records), u[i] = t[j]
      PROVE  Leads(u, i) /\ Follows(u[i]) /\ Rests(u, i)
    <2>1. Leads(u, i) /\ Follows(u[i]) /\ u[i].tier = "domain"
        BY <1>2, <1>8, NewbornFollows DEF Leads, Newborn
    <2>2. Support(u, i) = SupportOf(Consolidated[j])
        <3>1. \A l \in SupportOf(Consolidated[j]) :
                l \in DOMAIN records /\ l \in DOMAIN u /\ u[l] = records[l]
            BY <1>5 DEF SupportOf
        <3>2. SupportOf(Consolidated[j]) \subseteq Support(u, i)
            BY <1>2, <1>8, <3>1 DEF Support
        <3>3. ASSUME NEW l \in Support(u, i) PROVE l \in SupportOf(Consolidated[j])
            <4>1. l \in DOMAIN u /\ u[l].id \in t[j].from
                BY <1>8 DEF Support
            <4>2. u[l].id \in Names /\ u[l].id \notin PatternIds
                BY <1>2, <4>1, LifecycleAssumption
            <4>3. l \in DOMAIN records /\ u[l] = records[l]
                BY <1>2, <1>5, <4>1, <4>2
            <4>4. PICK o \in SupportOf(Consolidated[j]) : records[l].id = records[o].id
                BY <1>2, <4>1, <4>3
            <4>5. o = l
                BY <3>1, <4>3, <4>4 DEF Sound, Distinct
            <4> QED
                BY <4>4, <4>5
        <3> QED
            BY <3>2, <3>3
    <2>3. \A l \in SupportOf(Consolidated[j]) :
              l \in DOMAIN records /\ l \in DOMAIN u /\ u[l] = records[l] /\ l < i
                                   /\ ~ records[l].derived
        BY <1>5, <1>8 DEF SupportOf
    <2>4. SupportGroups(u, i) = {records[l].group : l \in SupportOf(Consolidated[j])}
        BY <2>2, <2>3 DEF SupportGroups
    <2>5. Cardinality(SupportGroups(u, i)) >= 2
        <3>1. Cardinality(SupportGroups(u, i)) >= Required
            BY <1>1, <2>4 DEF Promotable
        <3>2. Required >= 2 /\ Required \in Nat
            BY LifecycleAssumption DEF Required
        <3>3. Cardinality(SupportGroups(u, i)) \in Nat
            <4>1. SupportOf(Consolidated[j]) \in SUBSET (1..Len(records))
                BY <1>5 DEF SupportOf
            <4>2. IsFiniteSet(SupportOf(Consolidated[j]))
                BY <1>5, <4>1, FS_Interval, FS_Subset
            <4> DEFINE S == SupportOf(Consolidated[j])
                       T == SupportGroups(u, i)
                       f == [l \in S |-> records[l].group]
            <4>3. f \in Surjection(S, T)
                BY <2>4 DEF Surjection
            <4>4. IsFiniteSet(T)
                BY <4>2, <4>3, FS_Surjection
            <4> QED
                BY <4>4, FS_CardinalityType
        <3> QED
            BY <3>1, <3>2, <3>3
    <2>6. \A id \in u[i].from : \E l \in DOMAIN u : l < i /\ u[l].id = id
        BY <1>2, <1>8, <2>3
    <2>7. \A l \in Support(u, i) : ~ u[l].derived
        BY <2>2, <2>3
    <2> QED
        BY <2>1, <2>5, <2>6, <2>7 DEF Rests
<1>9. \A i \in DOMAIN u : /\ Leads(u, i)
                          /\ Follows(u[i])
                          /\ u[i].id \in PatternIds => Rests(u, i)
    BY <1>5, <1>6, <1>8
<1> QED
    BY <1>5, <1>7, <1>9 DEF Sound, u, t

-----------------------------------------------------------------------------
(***************************************************************************)
(* The operations.                                                         *)
(***************************************************************************)

\* What the runs hold of the store.
Stored == Sound(records) /\ Len(records) <= MaxRecords

\* A stored record is at some position.
LEMMA StoredAt ==
    ASSUME Sound(records), NEW r \in StoredRecords
    PROVE  \E i \in DOMAIN records : records[i] = r /\ r \in Record /\ Leads(records, i) /\ Follows(r)
BY Positions DEF StoredRecords, Sound

\* Append of a record made anew.
LEMMA AppendedIsSound ==
    ASSUME Sound(records), NEW r \in Record, r.id \in Names, Newborn(r), AppendRecord(r)
    PROVE  Sound(records')
BY AppendSound DEF AppendRecord, AppendRefused

\* The records callers append are new.
LEMMA SeedsAreNew ==
    ASSUME NEW r \in Seeds
    PROVE  r \in Record /\ r.id \in Names /\ Newborn(r)
BY LifecycleAssumption DEF Newborn

\* So are those that runs leave.
LEMMA EpisodesAreNew ==
    ASSUME NEW id \in Names, NEW e \in Experiences
    PROVE  LET r == Episode(id, e) IN r \in Record /\ r.id \in Names /\ Newborn(r)
<1>1. /\ e.strategy \in {Strategies[k] : k \in DOMAIN Strategies} \cup {Missing}
      /\ e.group \in Groups \cup {Missing}
    BY LifecycleAssumption
<1>2. EpisodeStatus(e.outcome) \in Statuses \ {"superseded"}
    BY DEF EpisodeStatus, Statuses
<1>3. <<>> \in Seq(Measured)
    BY EmptySeq
<1>4. (e.independence # "INDEPENDENT") \in BOOLEAN /\ (e.independence = "MODEL_DERIVED") \in BOOLEAN
    OBVIOUS
<1>5. Episode(id, e) \in Record
    BY <1>1, <1>2, <1>3, <1>4 DEF Episode, Record, Tiers
<1> QED
    BY <1>2, <1>5 DEF Episode, Newborn

\* Replace of a record by the same one with another tier or content.
LEMMA EditIsSound ==
    ASSUME Sound(records), NEW r \in StoredRecords, r.id \in Names,
           NEW e \in Edits, EditRecord(r, e[1], e[2])
    PROVE  Sound(records')
<1> DEFINE edited == [r EXCEPT !.tier = e[1], !.content = e[2]]
<1>1. PICK i \in DOMAIN records :
          records[i] = r /\ r \in Record /\ Leads(records, i) /\ Follows(r)
    BY StoredAt
<1>2. e[1] \in Tiers /\ e[2] \in Contents
    BY LifecycleAssumption
<1>3. /\ edited \in Record
      /\ edited.id = r.id /\ edited.group = r.group /\ edited.derived = r.derived
      /\ edited.from = r.from /\ edited.status = r.status /\ edited.by = r.by
      /\ edited.results = r.results /\ edited.born = r.born
    BY <1>1, <1>2 DEF Record
<1>4. records' = Put(records, edited)
    BY DEF EditRecord
<1> HIDE DEF edited
<1>5. Follows(edited)
    BY <1>1, <1>3, UnmeasuredFollows
<1>6. edited.id \notin PatternIds
    BY <1>3, LifecycleAssumption
<1> QED
    BY <1>1, <1>3, <1>4, <1>5, <1>6, PutSound DEF Leads

\* ApplyCurrentMeasurement.
LEMMA MeasureIsSound ==
    ASSUME Sound(records), NEW r \in StoredRecords, NEW m \in Measured, Measure(r, m)
    PROVE  Sound(records')
<1> DEFINE measured == [r EXCEPT !.status = StatusAfter(r.status, m),
                                 !.results = IF m.identified THEN Append(r.results, m)
                                                             ELSE r.results]
<1>1. PICK i \in DOMAIN records :
          records[i] = r /\ r \in Record /\ Leads(records, i) /\ Follows(r)
    BY StoredAt
<1>2. /\ StatusAfter(r.status, m) \in Statuses
      /\ StatusAfter(r.status, m) = "superseded" => r.status = "superseded"
    BY <1>1 DEF StatusAfter, Record, Statuses
<1>3. (IF m.identified THEN Append(r.results, m) ELSE r.results) \in Seq(Measured)
    BY <1>1, RecordTypes, AppendProperties
<1>4. /\ measured \in Record
      /\ measured.id = r.id /\ measured.group = r.group /\ measured.derived = r.derived
      /\ measured.from = r.from /\ measured.tier = r.tier /\ measured.by = r.by
      /\ measured.status = StatusAfter(r.status, m) /\ measured.born = r.born
      /\ measured.results = IF m.identified THEN Append(r.results, m) ELSE r.results
    <2> DEFINE st == StatusAfter(r.status, m)
               res == IF m.identified THEN Append(r.results, m) ELSE r.results
    <2>1. st \in Statuses /\ res \in Seq(Measured)
        BY <1>2, <1>3
    <2>2. measured = [r EXCEPT !.status = st, !.results = res]
        OBVIOUS
    <2> HIDE DEF st, res, measured
    <2>3. /\ measured \in Record
          /\ measured.id = r.id /\ measured.group = r.group /\ measured.derived = r.derived
          /\ measured.from = r.from /\ measured.tier = r.tier /\ measured.by = r.by
          /\ measured.status = st /\ measured.born = r.born
          /\ measured.results = res
        BY <1>1, <2>1, <2>2 DEF Record
    <2> QED
        BY <2>3 DEF st, res
<1>5. records' = Put(records, measured)
    BY DEF Measure
<1> HIDE DEF measured
<1>6. Follows(measured)
    BY <1>1, <1>4, MeasuredFollows
<1> QED
    BY <1>1, <1>2, <1>4, <1>5, <1>6, PutSound DEF Leads

\* Putting a record and appending another one commute.
LEMMA PutThenAppend ==
    ASSUME NEW s \in Seq(Record), Distinct(s), NEW i \in DOMAIN s, NEW q \in Record,
           q.id = s[i].id, NEW r \in Record, ~ Has(s, r.id)
    PROVE  /\ Append(Put(s, q), r) = Put(Append(s, r), q)
           /\ i \in DOMAIN Append(s, r) /\ Append(s, r)[i] = s[i]
           /\ \E j \in DOMAIN Append(s, r) : j > i /\ Append(s, r)[j] = r
<1> DEFINE p == Put(s, q)
           u == Append(s, r)
<1>1. /\ p \in Seq(Record) /\ DOMAIN p = DOMAIN s
      /\ \A j \in DOMAIN s : p[j] = IF j = i THEN q ELSE s[j]
    BY PutEffect
<1>2. DOMAIN s = 1..Len(s) /\ Len(s) \in Nat
    BY Positions
<1>3. Len(p) = Len(s)
    BY <1>1, <1>2, Positions
<1> HIDE DEF p
<1>4. /\ u \in Seq(Record) /\ DOMAIN u = 1..(Len(s) + 1)
      /\ \A j \in 1..Len(s) : u[j] = s[j]
      /\ u[Len(s) + 1] = r
    BY AppendProperties, <1>2, Positions
<1>5. /\ Append(p, r) \in Seq(Record) /\ DOMAIN Append(p, r) = 1..(Len(s) + 1)
      /\ \A j \in 1..Len(s) : Append(p, r)[j] = p[j]
      /\ Append(p, r)[Len(s) + 1] = r
    BY <1>1, <1>3, AppendProperties, <1>2, Positions
<1> HIDE DEF u
<1>6. r.id # q.id
    BY DEF Has
<1>7. /\ DOMAIN Put(u, q) = 1..(Len(s) + 1)
      /\ \A j \in 1..Len(s) : Put(u, q)[j] = p[j]
      /\ Put(u, q)[Len(s) + 1] = r
    <2>1. Put(u, q) = [j \in 1..(Len(s) + 1) |-> IF u[j].id = q.id THEN q ELSE u[j]]
        BY <1>4 DEF Put
    <2>2. \A j \in 1..Len(s) : s[j].id = q.id <=> j = i
        BY <1>2 DEF Distinct
    <2>3. \A j \in 1..Len(s) : j \in 1..(Len(s) + 1)
        BY <1>2
    <2>4. Len(s) + 1 \in 1..(Len(s) + 1)
        BY <1>2
    <2> QED
        BY <1>1, <1>2, <1>4, <1>6, <2>1, <2>2, <2>3, <2>4
<1>8. Append(p, r) = Put(u, q)
    <2>1. \A j \in 1..(Len(s) + 1) : Append(p, r)[j] = Put(u, q)[j]
        <3>1. \A j \in 1..(Len(s) + 1) : j \in 1..Len(s) \/ j = Len(s) + 1
            BY <1>2
        <3> QED
            BY <1>5, <1>7, <3>1
    <2>2. Append(p, r) = [j \in 1..(Len(s) + 1) |-> Append(p, r)[j]]
        <3>1. Append(p, r) \in [1..Len(Append(p, r)) -> Record]
            BY <1>5, LenProperties
        <3> QED
            BY <1>5, <3>1
    <2>3. Put(u, q) = [j \in 1..(Len(s) + 1) |-> Put(u, q)[j]]
        BY <1>7 DEF Put
    <2> QED
        BY <2>1, <2>2, <2>3
<1> QED
    BY <1>2, <1>4, <1>8 DEF p, u

\* Supersede, finished or cut off after the append.
LEMMA SupersedeIsSound ==
    ASSUME Sound(records), NEW old \in StoredRecords, NEW r \in Seeds, Supersede(old, r)
    PROVE  Sound(records')
<1> DEFINE q == [old EXCEPT !.status = "superseded", !.by = r.id]
           u == Append(records, r)
<1>1. PICK i \in DOMAIN records :
          records[i] = old /\ old \in Record /\ Leads(records, i) /\ Follows(old)
    BY StoredAt
<1>2. r \in Record /\ r.id \in Names /\ Newborn(r)
    BY SeedsAreNew
<1>3. ~ Has(records, r.id)
    BY DEF Supersede, AppendRefused
<1>4. Sound(u)
    BY <1>2, <1>3, AppendSound
<1>5. /\ q \in Record
      /\ q.id = old.id /\ q.group = old.group /\ q.derived = old.derived
      /\ q.from = old.from /\ q.tier = old.tier /\ q.by = r.id
      /\ q.status = "superseded" /\ q.born = old.born /\ q.results = old.results
    BY <1>1, <1>2 DEF Record, Statuses
<1>6. records' = u \/ records' = Append(Put(records, q), r)
    BY DEF Supersede
<1> HIDE DEF q, u
<1>7. /\ Append(Put(records, q), r) = Put(u, q)
      /\ i \in DOMAIN u /\ u[i] = old
      /\ \E j \in DOMAIN u : j > i /\ u[j].id = r.id
    BY <1>1, <1>2, <1>3, <1>5, PutThenAppend DEF Sound, u
<1>8. Follows(q)
    BY <1>1, <1>5, UnmeasuredFollows
<1>9. q.by # NoRecord
    BY <1>2, <1>5, LifecycleAssumption
<1>10. Sound(Put(u, q))
    BY <1>4, <1>5, <1>7, <1>8, <1>9, PutSound
<1> QED
    BY <1>4, <1>6, <1>7, <1>10

\* The store starts empty, and Reset empties it.
LEMMA EmptyIsSound == Sound(<<>>)
BY EmptySeq DEF Sound, Distinct

LEMMA StoredInit == Init => Stored
<1>1. Len(<<>>) = 0 /\ MaxRecords \in Nat
    BY LifecycleAssumption, EmptySeq
<1> QED
    BY <1>1, EmptyIsSound DEF Init, Stored

\* Every operation leaves a list that is sound.
LEMMA SoundStep == Sound(records) /\ [Next]_records => Sound(records')
<1> SUFFICES ASSUME Sound(records), [Next]_records PROVE Sound(records')
    OBVIOUS
<1>1. CASE \E r \in Seeds : AppendRecord(r)
    BY <1>1, SeedsAreNew, AppendedIsSound
<1>2. CASE \E r \in StoredRecords, e \in Edits : r.id \in Names /\ EditRecord(r, e[1], e[2])
    BY <1>2, EditIsSound
<1>3. CASE \E r \in StoredRecords, m \in Measured : Measure(r, m)
    BY <1>3, MeasureIsSound
<1>4. CASE \E old \in StoredRecords, r \in Seeds : Supersede(old, r)
    BY <1>4, SupersedeIsSound
<1>5. CASE \E id \in Names, e \in Experiences : RecordEpisode(id, e)
    BY <1>5, EpisodesAreNew, AppendedIsSound DEF RecordEpisode
<1>6. CASE Consolidate
    BY <1>6, ConsolidateSound DEF Consolidate
<1>7. CASE Reset
    BY <1>7, EmptyIsSound DEF Reset
<1>8. CASE UNCHANGED records
    BY <1>8
<1> QED
    BY <1>1, <1>2, <1>3, <1>4, <1>5, <1>6, <1>7, <1>8 DEF Next

\* Put keeps the length of a list and Append adds one, whatever is put there.
LEMMA LengthAfter ==
    ASSUME NEW S, NEW s \in Seq(S), NEW q, NEW r
    PROVE  /\ Len(Append(s, r)) = Len(s) + 1
           /\ Len(Put(s, q)) = Len(s)
           /\ Len(Append(Put(s, q), r)) = Len(s) + 1
<1> DEFINE T == S \cup {q, r}
<1>1. Len(s) \in Nat /\ DOMAIN s = 1..Len(s) /\ s \in [1..Len(s) -> S]
    BY LenProperties
<1>2. s \in [1..Len(s) -> T] /\ Put(s, q) \in [1..Len(s) -> T] /\ r \in T
    BY <1>1 DEF Put
<1> HIDE DEF T
<1>3. s \in Seq(T) /\ Put(s, q) \in Seq(T)
    BY <1>1, <1>2, SeqDef
<1>4. Len(Put(s, q)) = Len(s)
    <2>1. Len(Put(s, q)) \in Nat /\ DOMAIN Put(s, q) = 1..Len(Put(s, q))
        BY <1>3, LenProperties
    <2>2. DOMAIN Put(s, q) = 1..Len(s)
        BY <1>2
    <2> QED
        BY <1>1, <2>1, <2>2, SameEnd
<1> QED
    BY <1>2, <1>3, <1>4, AppendProperties

\* None of them takes more room than there is.
LEMMA RoomStep == Stored /\ [Next]_records => Len(records') <= MaxRecords
<1> SUFFICES ASSUME Stored, [Next]_records PROVE Len(records') <= MaxRecords
    OBVIOUS
<1>1. /\ records \in Seq(Record) /\ Len(records) \in Nat /\ MaxRecords \in Nat
      /\ Len(records) <= MaxRecords
    BY Positions, LifecycleAssumption DEF Stored, Sound
<1>2. ASSUME HasRoom, Len(records') = Len(records) + 1 PROVE Len(records') <= MaxRecords
    BY <1>1, <1>2 DEF HasRoom
<1>3. CASE \E r : AppendRecord(r)
    BY <1>1, <1>2, <1>3, LengthAfter DEF AppendRecord
<1>4. CASE \E r \in StoredRecords, e \in Edits : r.id \in Names /\ EditRecord(r, e[1], e[2])
    BY <1>1, <1>4, LengthAfter DEF EditRecord
<1>5. CASE \E r \in StoredRecords, m \in Measured : Measure(r, m)
    <2>1. PICK q : records' = Put(records, q)
        BY <1>5 DEF Measure
    <2> QED
        BY <1>1, <2>1, LengthAfter
<1>6. CASE \E old \in StoredRecords, r \in Seeds : Supersede(old, r)
    <2>1. PICK q, r : records' = Append(records, r) \/ records' = Append(Put(records, q), r)
        BY <1>6 DEF Supersede
    <2>2. Len(records') = Len(records) + 1
        BY <1>1, <2>1, LengthAfter
    <2> QED
        BY <1>2, <1>6, <2>2 DEF Supersede
<1>7. CASE Consolidate
    <2> DEFINE t == [k \in DOMAIN Consolidated |-> Pattern(Consolidated[k])]
    <2>1. t \in Seq(Record) /\ Len(t) = Len(Consolidated)
        BY PatternList DEF Stored
    <2>2. records' = records \o t /\ Len(records) + Len(Consolidated) <= MaxRecords
        BY <1>7 DEF Consolidate
    <2> HIDE DEF t
    <2> QED
        BY <1>1, <2>1, <2>2, ConcatProperties
<1>8. CASE Reset
    BY <1>1, <1>8, EmptySeq DEF Reset
<1>9. CASE UNCHANGED records
    BY <1>1, <1>9
<1> QED
    BY <1>3, <1>4, <1>5, <1>6, <1>7, <1>8, <1>9 DEF Next, RecordEpisode

-----------------------------------------------------------------------------
(***************************************************************************)
(* The theorems.                                                           *)
(***************************************************************************)

\* The records are sound in every state, and fit in the store.
THEOREM StoredHolds == Spec => []Stored
<1>1. Stored /\ [Next]_records => Stored'
    BY SoundStep, RoomStep DEF Stored, Sound
<1> QED
    BY <1>1, StoredInit, PTL DEF Spec

\* The store holds records under distinct identifiers.
THEOREM RecordsTypeOK == Spec => []TypeOK
<1>1. Stored => TypeOK
    BY Positions DEF Stored, Sound, TypeOK, StoredRecords
<1> QED
    BY <1>1, StoredHolds, PTL

\* The links of superseded records lead on, to a record that is stored.
THEOREM SupersessionHolds == Spec => []SupersessionLeadsOn
<1>1. Stored => SupersessionLeadsOn
    BY DEF Stored, Sound, Leads, SupersessionLeadsOn
<1> QED
    BY <1>1, StoredHolds, PTL

\* A status is the word of the last measurement that may decide.
THEOREM EvidenceHolds == Spec => []StatusFollowsEvidence
<1>1. Stored => StatusFollowsEvidence
    BY DEF Stored, Sound, Follows, StatusFollowsEvidence
<1> QED
    BY <1>1, StoredHolds, PTL

\* A pattern rests on earlier measured records of two groups or more.
THEOREM PatternsHold == Spec => []PatternsHaveDistinctSupport
<1>1. ASSUME Sound(records), NEW i \in DOMAIN records, records[i].id \in PatternIds
      PROVE  /\ Cardinality(SupportGroups(records, i)) >= 2
             /\ \A j \in Support(records, i) : /\ j < i
                                               /\ ~ records[j].derived
                                               /\ records[j].id \in Names
    <2>1. Rests(records, i) /\ records[i].from \subseteq Names
        BY <1>1, Positions, RecordTypes DEF Sound
    <2>2. ASSUME NEW j \in Support(records, i) PROVE j < i
        <3>1. PICK k \in DOMAIN records : k < i /\ records[k].id = records[j].id
            BY <2>1 DEF Support, Rests
        <3> QED
            BY <1>1, <3>1 DEF Support, Sound, Distinct
    <2> QED
        BY <2>1, <2>2 DEF Support, Rests
<1>2. Stored => PatternsHaveDistinctSupport
    BY <1>1 DEF Stored, Support, SupportGroups, PatternsHaveDistinctSupport
<1> QED
    BY <1>2, StoredHolds, PTL
=============================================================================
