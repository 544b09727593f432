----------------------- MODULE MemoryExperiment_proofs -----------------------
(***************************************************************************)
(* For every schedule, every seed and any number of starts: what the       *)
(* stores of the memory experiment have learned is what its rows tell, no  *)
(* misleading run reaches the useful store, an interrupted case is the     *)
(* last of its start, the summary is a ledger of the schedule, and asking  *)
(* a case again adds nothing to the pull of a gravity well.                *)
(***************************************************************************)
EXTENDS MemoryExperiment, FiniteSetTheorems, SequenceTheorems, NaturalsInduction,
        WellFoundedInduction, TLAPS

-----------------------------------------------------------------------------
(***************************************************************************)
(* Lists joined: induction over their number, by the least number for      *)
(* which a statement would fail.                                           *)
(***************************************************************************)

\* "Less than" is well founded on the natural numbers.
LEMMA LessThanWellFounded == IsWellFoundedOn({ss \in Nat \X Nat : ss[1] < ss[2]}, Nat)
BY NatLessThanWellFounded DEF OpToRel

\* A set that holds zero and with each number the next one holds them all.
LEMMA SetInduction ==
    ASSUME NEW T, 0 \in T, \A n \in Nat : n \in T => n + 1 \in T
    PROVE  Nat \subseteq T
<1> DEFINE U == Nat \ T
           R == {ss \in Nat \X Nat : ss[1] < ss[2]}
<1>1. SUFFICES ASSUME U # {} PROVE FALSE
    OBVIOUS
<1>2. PICK x \in U : \A y \in U : ~ (<<y, x>> \in R)
    <2>1. U \subseteq Nat
        OBVIOUS
    <2> HIDE DEF U
    <2> QED
        BY <1>1, <2>1, LessThanWellFounded, WFMin
<1>3. x \in Nat /\ x # 0
    OBVIOUS
<1>4. x - 1 \in Nat /\ (x - 1) + 1 = x /\ x - 1 < x
    BY <1>3
<1>5. x - 1 \in T
    BY <1>2, <1>3, <1>4
<1> QED
    BY <1>3, <1>4, <1>5

\* What FlattenSeq joins up to each of the lists.
IsFlattening(f, seqs, n) ==
    f = [i \in 1 .. n |-> IF i = 1 THEN seqs[i] ELSE f[i - 1] \o seqs[i]]

\* Every list of lists has one.
LEMMA FlatteningExists ==
    ASSUME NEW seqs, NEW n \in Nat
    PROVE  \E f : IsFlattening(f, seqs, n)
<1> DEFINE T == {m \in Nat : \E f : IsFlattening(f, seqs, m)}
<1>1. 0 \in T
    <2> DEFINE f == [i \in 1 .. 0 |-> seqs[i]]
    <2>1. IsFlattening(f, seqs, 0)
        BY DEF IsFlattening
    <2> QED
        BY <2>1
<1>2. ASSUME NEW m \in Nat, m \in T PROVE m + 1 \in T
    <2>1. PICK f : IsFlattening(f, seqs, m)
        BY <1>2
    <2> DEFINE g == [i \in 1 .. m + 1 |-> IF i <= m THEN f[i]
                                          ELSE IF i = 1 THEN seqs[i] ELSE f[i - 1] \o seqs[i]]
    <2>2. \A i \in 1 .. m + 1 : g[i] = IF i = 1 THEN seqs[i] ELSE g[i - 1] \o seqs[i]
        <3> SUFFICES ASSUME NEW i \in 1 .. m + 1
                     PROVE  g[i] = IF i = 1 THEN seqs[i] ELSE g[i - 1] \o seqs[i]
            OBVIOUS
        <3>1. i # 1 => i - 1 \in 1 .. m + 1 /\ i - 1 <= m
            OBVIOUS
        <3>2. i # 1 => g[i - 1] = f[i - 1]
            BY <3>1
        <3>3. g[i] = IF i = 1 THEN seqs[i] ELSE f[i - 1] \o seqs[i]
            <4>1. CASE i <= m
                <5>1. i \in 1 .. m
                    BY <4>1
                <5>2. f[i] = IF i = 1 THEN seqs[i] ELSE f[i - 1] \o seqs[i]
                    BY <2>1, <5>1 DEF IsFlattening
                <5> QED
                    BY <4>1, <5>2
            <4>2. CASE ~ (i <= m)
                BY <4>2
            <4> QED
                BY <4>1, <4>2
        <3> HIDE DEF g
        <3> QED
            BY <3>2, <3>3
    <2>3. g = [i \in 1 .. m + 1 |-> g[i]]
        OBVIOUS
    <2> HIDE DEF g
    <2>4. IsFlattening(g, seqs, m + 1)
        BY <2>2, <2>3 DEF IsFlattening
    <2> QED
        BY <2>4
<1> HIDE DEF T
<1>3. Nat \subseteq T
    BY <1>1, <1>2, SetInduction
<1> QED
    BY <1>3 DEF T

\* FlattenSeq joins lists of the same elements to one of them.
LEMMA Joined ==
    ASSUME NEW S, NEW n \in Nat \ {0}, NEW seqs \in [1 .. n -> Seq(S)]
    PROVE  FlattenSeq(seqs) \in Seq(S)
<1> DEFINE flatten == CHOOSE f : IsFlattening(f, seqs, n)
<1>1. seqs \in Seq(Seq(S)) /\ Len(seqs) = n
    BY SeqDef
<1>2. FlattenSeq(seqs) = flatten[n]
    BY <1>1 DEF FlattenSeq, IsFlattening
<1>3. IsFlattening(flatten, seqs, n)
    BY FlatteningExists
<1> HIDE DEF flatten
<1>4. \A i \in 1 .. n : flatten[i] = IF i = 1 THEN seqs[i] ELSE flatten[i - 1] \o seqs[i]
    BY <1>3 DEF IsFlattening
<1> DEFINE T == {m \in Nat : m \in 1 .. n => flatten[m] \in Seq(S)}
<1>5. 0 \in T
    OBVIOUS
<1>6. ASSUME NEW m \in Nat, m \in T PROVE m + 1 \in T
    <2> SUFFICES ASSUME m + 1 \in 1 .. n PROVE flatten[m + 1] \in Seq(S)
        OBVIOUS
    <2>1. seqs[m + 1] \in Seq(S)
        OBVIOUS
    <2>2. CASE m = 0
        BY <1>4, <2>1, <2>2
    <2>3. CASE m # 0
        <3>1. m \in 1 .. n /\ (m + 1) - 1 = m /\ m + 1 # 1
            BY <2>3
        <3>2. flatten[m] \in Seq(S)
            BY <1>6, <3>1
        <3>3. flatten[m + 1] = flatten[m] \o seqs[m + 1]
            BY <1>4, <3>1
        <3> QED
            BY <2>1, <3>2, <3>3, ConcatProperties
    <2> QED
        BY <2>2, <2>3
<1>7. n \in T
    <2> HIDE DEF T
    <2> QED
        BY <1>5, <1>6, SetInduction
<1> QED
    BY <1>2, <1>7

\* Two flattenings agree where their lists do.
LEMMA FlatteningsAgree ==
    ASSUME NEW seqs, NEW more, NEW n \in Nat, NEW m \in Nat, n <= m,
           NEW f, IsFlattening(f, seqs, n), NEW g, IsFlattening(g, more, m),
           \A i \in 1 .. n : seqs[i] = more[i]
    PROVE  \A i \in 1 .. n : f[i] = g[i]
<1> DEFINE T == {i \in Nat : i \in 1 .. n => f[i] = g[i]}
<1>1. \A i \in 1 .. n : f[i] = IF i = 1 THEN seqs[i] ELSE f[i - 1] \o seqs[i]
    BY DEF IsFlattening
<1>2. \A i \in 1 .. m : g[i] = IF i = 1 THEN more[i] ELSE g[i - 1] \o more[i]
    BY DEF IsFlattening
<1>3. 0 \in T
    OBVIOUS
<1>4. ASSUME NEW i \in Nat, i \in T PROVE i + 1 \in T
    <2> SUFFICES ASSUME i + 1 \in 1 .. n PROVE f[i + 1] = g[i + 1]
        OBVIOUS
    <2>1. i + 1 \in 1 .. m /\ seqs[i + 1] = more[i + 1] /\ (i + 1) - 1 = i
        OBVIOUS
    <2>2. CASE i = 0
        BY <1>1, <1>2, <2>1, <2>2
    <2>3. CASE i # 0
        <3>1. i \in 1 .. n /\ i + 1 # 1
            BY <2>3
        <3>2. f[i] = g[i]
            BY <1>4, <3>1
        <3> QED
            BY <1>1, <1>2, <2>1, <3>1, <3>2
    <2> QED
        BY <2>2, <2>3
<1> HIDE DEF T
<1>5. Nat \subseteq T
    BY <1>3, <1>4, SetInduction
<1> QED
    BY <1>5 DEF T

\* One more list is joined at the end.
LEMMA JoinedWithOneMore ==
    ASSUME NEW S, NEW seqs \in Seq(Seq(S)), NEW s \in Seq(S)
    PROVE  FlattenSeq(Append(seqs, s)) = FlattenSeq(seqs) \o s
<1> DEFINE n == Len(seqs)
           more == Append(seqs, s)
           f == CHOOSE h : IsFlattening(h, seqs, n)
           g == CHOOSE h : IsFlattening(h, more, n + 1)
<1>1. n \in Nat /\ Len(more) = n + 1 /\ more[n + 1] = s /\ \A i \in 1 .. n : more[i] = seqs[i]
    BY LenProperties, AppendProperties
<1> HIDE DEF n, more
<1>2. IsFlattening(f, seqs, n) /\ IsFlattening(g, more, n + 1)
    <2>1. n + 1 \in Nat
        BY <1>1
    <2>2. \E h : IsFlattening(h, seqs, n)
        BY <1>1, FlatteningExists
    <2>3. \E h : IsFlattening(h, more, n + 1)
        BY <2>1, FlatteningExists
    <2> QED
        BY <2>2, <2>3
<1>3. FlattenSeq(more) = g[n + 1]
    BY <1>1 DEF FlattenSeq, IsFlattening
<1> HIDE DEF f, g
<1>4. g[n + 1] = IF n = 0 THEN s ELSE g[n] \o s
    <2>1. \A i \in 1 .. n + 1 : g[i] = IF i = 1 THEN more[i] ELSE g[i - 1] \o more[i]
        BY <1>2 DEF IsFlattening
    <2>2. n + 1 \in 1 .. n + 1 /\ (n + 1) - 1 = n /\ (n + 1 = 1 <=> n = 0)
        BY <1>1
    <2> QED
        BY <1>1, <2>1, <2>2
<1>5. CASE n = 0
    <2>1. seqs = <<>>
        BY <1>5, EmptySeq DEF n
    <2>2. FlattenSeq(seqs) = <<>>
        BY <2>1 DEF FlattenSeq
    <2>3. FlattenSeq(more) = s
        BY <1>3, <1>4, <1>5
    <2> QED
        BY <2>2, <2>3, ConcatEmptySeq DEF more
<1>6. CASE n # 0
    <2>1. \A i \in 1 .. n : f[i] = g[i]
        BY <1>1, <1>2, FlatteningsAgree
    <2>2. FlattenSeq(seqs) = f[n]
        BY <1>6 DEF FlattenSeq, IsFlattening, f, n
    <2>3. g[n] = f[n]
        <3>1. n \in Nat
            BY <1>1
        <3>2. n \in 1 .. n
            BY <1>6, <3>1
        <3> QED
            BY <2>1, <3>2
    <2>4. FlattenSeq(more) = f[n] \o s
        BY <1>3, <1>4, <1>6, <2>3
    <2> QED
        BY <2>2, <2>4 DEF more
<1> QED
    BY <1>5, <1>6

\* No lists, nothing joined.
LEMMA NothingJoined == FlattenSeq(<<>>) = <<>>
BY DEF FlattenSeq

-----------------------------------------------------------------------------
(***************************************************************************)
(* What a row may hold, and what the stores have learned from the rows.    *)
(***************************************************************************)

EpisodeRecord(pair, condition, outcome) ==
    Store(<<>>)!Episode(<<pair, condition>>,
        [strategy |-> Category, group |-> pair[1],
         independence |-> "PARTIALLY_INDEPENDENT", outcome |-> outcome])

PatternRecord(from) ==
    [id |-> <<Category, from>>, tier |-> "domain", content |-> Missing,
     valid |-> TRUE, derived |-> FALSE, status |-> "supported",
     strategy |-> Category, group |-> <<Category, from>>, by |-> NoRecord,
     from |-> from, results |-> <<>>, born |-> "supported"]

EpisodesOf(pair, condition) == {EpisodeRecord(pair, condition, o) : o \in Outcomes}

Patterns == {PatternRecord(from) : from \in SUBSET (SeedIds \cup RunIds("memory"))}

LessonsOf(pair) == EpisodesOf(pair, "memory") \cup Patterns

RowsOf(pair) ==
    [pair : {pair}, learned : Seq(LessonsOf(pair)),
     misled : Seq(EpisodesOf(pair, "misleading")), interrupted : BOOLEAN, start : Nat]

Rows == UNION {RowsOf(pair) : pair \in Range(Schedule)}

\* What rows may teach.
Known(rs) == UNION {LessonsOf(rs[i].pair) : i \in DOMAIN rs}

KnownMisled(rs) == UNION {EpisodesOf(rs[i].pair, "misleading") : i \in DOMAIN rs}

\* What the proofs read of an episode ...
LEMMA EpisodeShape ==
    ASSUME NEW pair, NEW condition, NEW e \in EpisodesOf(pair, condition)
    PROVE  /\ e.id = <<pair, condition>>
           /\ e.tier = "episodic"
           /\ e.from = {}
BY DEF EpisodesOf, EpisodeRecord, Store!Episode

\* ... and of a pattern.
LEMMA PatternShape ==
    ASSUME NEW p \in Patterns
    PROVE  /\ p.id = <<Category, p.from>>
           /\ p.tier = "domain"
           /\ p.from \subseteq SeedIds \cup RunIds("memory")
BY DEF Patterns, PatternRecord

\* A row is a record of a scheduled pair.
LEMMA RowShape ==
    ASSUME NEW r \in Rows
    PROVE  /\ r.pair \in Range(Schedule)
           /\ r.learned \in Seq(LessonsOf(r.pair))
           /\ r.misled \in Seq(EpisodesOf(r.pair, "misleading"))
           /\ r.interrupted \in BOOLEAN
           /\ r.start \in Nat
BY DEF Rows, RowsOf

\* A longer list of elements.
LEMMA SeqGrows == ASSUME NEW S, NEW T, S \subseteq T, NEW s \in Seq(S) PROVE s \in Seq(T)
<1>1. s \in [1 .. Len(s) -> S] /\ Len(s) \in Nat
    BY LenProperties
<1>2. s \in [1 .. Len(s) -> T]
    BY <1>1
<1> QED
    BY <1>1, <1>2, SeqDef

\* Rows of a list, by position.
LEMMA RowPositions ==
    ASSUME NEW S, NEW rs \in Seq(S)
    PROVE  /\ Len(rs) \in Nat /\ DOMAIN rs = 1 .. Len(rs)
           /\ \A i \in DOMAIN rs : rs[i] \in S
BY LenProperties, ElementOfSeq

\* What was known stays known.
LEMMA KnownGrows ==
    ASSUME NEW rs \in Seq(Rows), NEW r \in Rows
    PROVE  /\ Known(rs) \cup LessonsOf(r.pair) = Known(Append(rs, r))
           /\ KnownMisled(rs) \cup EpisodesOf(r.pair, "misleading") = KnownMisled(Append(rs, r))
<1> DEFINE m == Append(rs, r)
<1>1. Len(rs) \in Nat /\ DOMAIN rs = 1 .. Len(rs)
    BY RowPositions
<1>2. /\ DOMAIN m = 1 .. (Len(rs) + 1)
      /\ m[Len(rs) + 1] = r
      /\ \A i \in 1 .. Len(rs) : m[i] = rs[i]
    <2>1. m \in Seq(Rows) /\ Len(m) = Len(rs) + 1 /\ m[Len(rs) + 1] = r
          /\ \A i \in 1 .. Len(rs) : m[i] = rs[i]
        BY AppendProperties
    <2> HIDE DEF m
    <2> QED
        BY <2>1, LenProperties
<1> HIDE DEF m
<1>3. DOMAIN m = DOMAIN rs \cup {Len(rs) + 1}
    BY <1>1, <1>2
<1>4. Known(m) = Known(rs) \cup LessonsOf(r.pair)
    BY <1>1, <1>2, <1>3 DEF Known
<1>5. KnownMisled(m) = KnownMisled(rs) \cup EpisodesOf(r.pair, "misleading")
    BY <1>1, <1>2, <1>3 DEF KnownMisled
<1> QED
    BY <1>4, <1>5 DEF m

\* The lists of lessons that Learned and LearnedMisleading join.
LEMMA LessonLists ==
    ASSUME NEW rs \in Seq(Rows)
    PROVE  /\ [i \in DOMAIN rs |-> rs[i].learned] \in [1 .. Len(rs) -> Seq(Known(rs))]
           /\ [i \in DOMAIN rs |-> rs[i].misled] \in [1 .. Len(rs) -> Seq(KnownMisled(rs))]
<1>1. DOMAIN rs = 1 .. Len(rs) /\ \A i \in DOMAIN rs : rs[i] \in Rows
    BY RowPositions
<1>2. ASSUME NEW i \in DOMAIN rs
      PROVE  rs[i].learned \in Seq(Known(rs)) /\ rs[i].misled \in Seq(KnownMisled(rs))
    <2>1. LessonsOf(rs[i].pair) \subseteq Known(rs)
        BY DEF Known
    <2>2. EpisodesOf(rs[i].pair, "misleading") \subseteq KnownMisled(rs)
        BY DEF KnownMisled
    <2> QED
        BY <1>1, <2>1, <2>2, RowShape, SeqGrows
<1> QED
    BY <1>1, <1>2

\* What the rows tell is a list of what they may teach.
LEMMA LearnedTyped ==
    ASSUME NEW rs \in Seq(Rows)
    PROVE  Learned(rs) \in Seq(Known(rs)) /\ LearnedMisleading(rs) \in Seq(KnownMisled(rs))
<1> DEFINE l == [i \in DOMAIN rs |-> rs[i].learned]
           m == [i \in DOMAIN rs |-> rs[i].misled]
<1>1. Len(rs) \in Nat /\ DOMAIN rs = 1 .. Len(rs)
    BY RowPositions
<1>2. l \in [1 .. Len(rs) -> Seq(Known(rs))] /\ m \in [1 .. Len(rs) -> Seq(KnownMisled(rs))]
    BY LessonLists
<1>3. CASE Len(rs) = 0
    <2>1. rs = <<>>
        BY <1>3, EmptySeq
    <2>2. l = <<>> /\ m = <<>>
        BY <2>1
    <2> HIDE DEF l, m
    <2>3. FlattenSeq(l) = <<>> /\ FlattenSeq(m) = <<>>
        BY <2>2, NothingJoined
    <2> QED
        BY <2>3, EmptySeq DEF Learned, LearnedMisleading, l, m
<1>4. CASE Len(rs) # 0
    <2>1. Len(rs) \in Nat \ {0}
        BY <1>1, <1>4
    <2> HIDE DEF l, m
    <2>2. FlattenSeq(l) \in Seq(Known(rs)) /\ FlattenSeq(m) \in Seq(KnownMisled(rs))
        BY <1>2, <2>1, Joined
    <2> QED
        BY <2>2 DEF Learned, LearnedMisleading, l, m
<1> QED
    BY <1>3, <1>4

\* A new row tells what it has taught, after what was known.
LEMMA LearnedGrows ==
    ASSUME NEW rs \in Seq(Rows), NEW r \in Rows
    PROVE  /\ Learned(Append(rs, r)) = Learned(rs) \o r.learned
           /\ LearnedMisleading(Append(rs, r)) = LearnedMisleading(rs) \o r.misled
<1> DEFINE n == Len(rs)
           more == Append(rs, r)
           l == [i \in DOMAIN rs |-> rs[i].learned]
           m == [i \in DOMAIN rs |-> rs[i].misled]
           S == Known(more)
           T == KnownMisled(more)
<1>1. n \in Nat /\ DOMAIN rs = 1 .. n
    BY RowPositions
<1>2. /\ more \in Seq(Rows) /\ DOMAIN more = 1 .. (n + 1) /\ Len(more) = n + 1
      /\ more[n + 1] = r
      /\ \A i \in 1 .. n : more[i] = rs[i]
    <2>1. more \in Seq(Rows) /\ Len(more) = n + 1 /\ more[n + 1] = r
          /\ \A i \in 1 .. n : more[i] = rs[i]
        BY AppendProperties
    <2> HIDE DEF more, n
    <2> QED
        BY <2>1, LenProperties
<1>3. Known(rs) \subseteq S /\ LessonsOf(r.pair) \subseteq S
      /\ KnownMisled(rs) \subseteq T /\ EpisodesOf(r.pair, "misleading") \subseteq T
    BY KnownGrows
<1>4. r.learned \in Seq(S) /\ r.misled \in Seq(T)
    <2> HIDE DEF S, T
    <2> QED
        BY <1>3, RowShape, SeqGrows
<1>5. l \in Seq(Seq(S)) /\ m \in Seq(Seq(T)) /\ Len(l) = n /\ Len(m) = n
    <2>1. l \in [1 .. n -> Seq(Known(rs))] /\ m \in [1 .. n -> Seq(KnownMisled(rs))]
        BY LessonLists
    <2> HIDE DEF l, m, n, S, T
    <2>2. \A i \in 1 .. n : l[i] \in Seq(S) /\ m[i] \in Seq(T)
        BY <1>3, <2>1, SeqGrows
    <2>3. l \in [1 .. n -> Seq(S)] /\ m \in [1 .. n -> Seq(T)]
        BY <2>1, <2>2
    <2> QED
        BY <1>1, <2>3, SeqDef
<1>6. [i \in DOMAIN more |-> more[i].learned] = Append(l, r.learned)
    <2> DEFINE a == [i \in DOMAIN more |-> more[i].learned]
               b == Append(l, r.learned)
    <2>1. Len(b) = n + 1 /\ b[n + 1] = r.learned /\ b \in Seq(Seq(S)) /\ \A i \in 1 .. n : b[i] = l[i]
        <3> HIDE DEF l, S, n
        <3> QED
            BY <1>4, <1>5, AppendProperties
    <2>2. b = [i \in 1 .. n + 1 |-> b[i]]
        <3> HIDE DEF b, S, n
        <3> QED
            BY <2>1, LenProperties
    <2>3. \A i \in 1 .. n + 1 : a[i] = b[i]
        <3>1. \A i \in 1 .. n : a[i] = rs[i].learned /\ l[i] = rs[i].learned
            BY <1>1, <1>2
        <3>2. a[n + 1] = r.learned
            BY <1>1, <1>2
        <3> HIDE DEF a, b, l, n
        <3> QED
            BY <1>1, <2>1, <3>1, <3>2
    <2>4. a = [i \in 1 .. n + 1 |-> a[i]]
        BY <1>2
    <2> HIDE DEF a, b
    <2> QED
        BY <2>2, <2>3, <2>4 DEF a, b
<1>7. [i \in DOMAIN more |-> more[i].misled] = Append(m, r.misled)
    <2> DEFINE a == [i \in DOMAIN more |-> more[i].misled]
               b == Append(m, r.misled)
    <2>1. Len(b) = n + 1 /\ b[n + 1] = r.misled /\ b \in Seq(Seq(T)) /\ \A i \in 1 .. n : b[i] = m[i]
        <3> HIDE DEF m, T, n
        <3> QED
            BY <1>4, <1>5, AppendProperties
    <2>2. b = [i \in 1 .. n + 1 |-> b[i]]
        <3> HIDE DEF b, T, n
        <3> QED
            BY <2>1, LenProperties
    <2>3. \A i \in 1 .. n + 1 : a[i] = b[i]
        <3>1. \A i \in 1 .. n : a[i] = rs[i].misled /\ m[i] = rs[i].misled
            BY <1>1, <1>2
        <3>2. a[n + 1] = r.misled
            BY <1>1, <1>2
        <3> HIDE DEF a, b, m, n
        <3> QED
            BY <1>1, <2>1, <3>1, <3>2
    <2>4. a = [i \in 1 .. n + 1 |-> a[i]]
        BY <1>2
    <2> HIDE DEF a, b
    <2> QED
        BY <2>2, <2>3, <2>4 DEF a, b
<1> HIDE DEF l, m, S, T
<1>8. FlattenSeq(Append(l, r.learned)) = FlattenSeq(l) \o r.learned
      /\ FlattenSeq(Append(m, r.misled)) = FlattenSeq(m) \o r.misled
    BY <1>4, <1>5, JoinedWithOneMore
<1> QED
    BY <1>6, <1>7, <1>8 DEF Learned, LearnedMisleading, l, m

-----------------------------------------------------------------------------
(***************************************************************************)
(* What a case teaches.                                                    *)
(***************************************************************************)

\* A run's identifier.
LEMMA RunId == ASSUME NEW pair \in Range(Schedule), NEW c PROVE <<pair, c>> \in RunIds(c)
BY DEF RunIds

\* Lists of one and of none.
LEMMA OneElement == ASSUME NEW S, NEW x \in S PROVE <<x>> \in Seq(S) /\ <<>> \in Seq(S)
BY EmptySeq

\* The instance counts as the module does.
LEMMA SameCardinality == ASSUME NEW s, NEW T PROVE Store(s)!Cardinality(T) = Cardinality(T)
BY DEF Store!Cardinality, Cardinality

\* Consolidating a store adds a pattern it does not have, or none.
LEMMA PatternsOfStore ==
    ASSUME NEW s,
           \A i \in DOMAIN s : s[i].tier = "episodic" => s[i].id \in SeedIds \cup RunIds("memory")
    PROVE  LET created == Store(s)!Consolidated
               patterns == [k \in DOMAIN created |-> Store(s)!Pattern(created[k])]
           IN  patterns = <<>> \/ \E p \in Patterns : patterns = <<p>> /\ ~ Has(s, p.id)
<1> DEFINE promoted == Store(s)!Promoted
           created == Store(s)!Consolidated
           patterns == [k \in DOMAIN created |-> Store(s)!Pattern(created[k])]
<1>1. promoted \subseteq {1}
    BY DEF Store!Promoted
<1>2. created = [i \in 1 .. Cardinality(promoted) |-> <<Category>>[Store(s)!Nth(promoted, i)]]
    BY SameCardinality DEF Store!Consolidated
<1> HIDE DEF created
<1>3. CASE promoted = {}
    <2>1. Cardinality(promoted) = 0
        BY <1>3, FS_EmptySet
    <2>2. DOMAIN created = {}
        BY <1>2, <2>1
    <2>3. patterns = <<>>
        BY <2>2
    <2> QED
        BY <2>3 DEF created
<1>4. CASE promoted = {1}
    <2>1. Cardinality({1}) = 1
        BY FS_Singleton
    <2>2. Store(s)!Nth({1}, 1) = 1
        <3>1. {j \in {1} : j <= 1} = {1}
            OBVIOUS
        <3>2. \A k \in {1} : Cardinality({j \in {1} : j <= k}) = 1
            BY <2>1, <3>1
        <3> QED
            BY <3>2, SameCardinality DEF Store!Nth
    <2>3. created = [i \in 1 .. 1 |-> <<Category>>[Store(s)!Nth({1}, i)]]
        BY <1>2, <1>4, <2>1
    <2>4. DOMAIN created = {1} /\ created[1] = Category
        BY <2>2, <2>3
    <2> DEFINE p == Store(s)!Pattern(Category)
    <2>5. patterns = <<p>>
        BY <2>4
    <2>6. p \in Patterns
        <3> DEFINE from == {s[i].id : i \in Store(s)!SupportOf(Category)}
        <3>1. \A i \in Store(s)!SupportOf(Category) : i \in DOMAIN s /\ s[i].tier = "episodic"
            BY DEF Store!SupportOf
        <3>2. from \subseteq SeedIds \cup RunIds("memory")
            BY <3>1
        <3>3. p = PatternRecord(from)
            BY DEF Store!Pattern, PatternRecord
        <3> QED
            BY <3>2, <3>3 DEF Patterns
    <2>7. ~ Has(s, p.id)
        <3>1. 1 \in promoted
            BY <1>4
        <3>2. Store(s)!Promotable(Category) /\ ~ Store(s)!Refused(Category)
            BY <3>1 DEF Store!Promoted
        <3>3. ~ Store(s)!AppendRefused(s, p)
            BY <3>2 DEF Store!Refused
        <3> QED
            BY <3>3 DEF Store!AppendRefused, Store!Has, Has
    <2> QED
        BY <2>5, <2>6, <2>7 DEF created
<1> QED
    BY <1>1, <1>3, <1>4

\* Episodes of runs and patterns do not share an identifier.
LEMMA KindsOfIds ==
    ASSUME NEW pair \in Range(Schedule), NEW p \in Patterns, NEW condition
    PROVE  p.id # <<pair, condition>>
<1>1. p.id = <<Category, p.from>>
    BY PatternShape
<1>2. Category # pair
    BY MemoryExperimentAssumption
<1> QED
    BY <1>1, <1>2

\* A record whose identifier is new may be appended.
LEMMA AppendDistinct ==
    ASSUME NEW S, NEW s \in Seq(S), Distinct(s), NEW r, ~ Has(s, r.id)
    PROVE  Distinct(s \o <<r>>)
<1> DEFINE T == S \cup {r}
           t == s \o <<r>>
<1>1. s \in Seq(T) /\ <<r>> \in Seq(T) /\ Len(<<r>>) = 1 /\ <<r>>[1] = r
    BY SeqGrows
<1>2. /\ t \in Seq(T) /\ Len(t) = Len(s) + 1
      /\ \A i \in 1 .. Len(s) + 1 : t[i] = IF i <= Len(s) THEN s[i] ELSE <<r>>[i - Len(s)]
    BY <1>1, ConcatProperties
<1>3. Len(s) \in Nat /\ DOMAIN s = 1 .. Len(s)
    BY RowPositions
<1> HIDE DEF t, T
<1>4. DOMAIN t = 1 .. (Len(s) + 1) /\ t[Len(s) + 1] = r /\ \A i \in 1 .. Len(s) : t[i] = s[i]
    <2>1. DOMAIN t = 1 .. (Len(s) + 1)
        BY <1>2, LenProperties
    <2>2. (Len(s) + 1) - Len(s) = 1 /\ Len(s) + 1 \in 1 .. Len(s) + 1 /\ ~ (Len(s) + 1 <= Len(s))
        BY <1>3
    <2>3. t[Len(s) + 1] = r
        BY <1>1, <1>2, <2>2
    <2>4. \A i \in 1 .. Len(s) : t[i] = s[i]
        BY <1>2, <1>3
    <2> QED
        BY <2>1, <2>3, <2>4
<1>5. \A i, j \in DOMAIN t : t[i].id = t[j].id => i = j
    <2> SUFFICES ASSUME NEW i \in DOMAIN t, NEW j \in DOMAIN t, t[i].id = t[j].id PROVE i = j
        OBVIOUS
    <2>1. \A k \in 1 .. Len(s) : t[k].id # r.id
        BY <1>3, <1>4 DEF Has
    <2>2. CASE i \in 1 .. Len(s) /\ j \in 1 .. Len(s)
        BY <1>3, <1>4, <2>2 DEF Distinct
    <2>3. CASE i = Len(s) + 1 \/ j = Len(s) + 1
        <3>1. \A k \in DOMAIN t : k = Len(s) + 1 \/ k \in 1 .. Len(s)
            BY <1>3, <1>4
        <3> QED
            BY <1>4, <2>1, <2>3, <3>1
    <2> QED
        BY <1>3, <1>4, <2>2, <2>3
<1> QED
    BY <1>5 DEF Distinct, t

\* The head of the list of a case's lessons, then its patterns.
LEMMA Lessons ==
    ASSUME at \in DOMAIN Schedule, NEW outcome \in Outcomes,
           NEW rs \in Seq(Rows), useful \in Seq(Known(rs))
    PROVE  /\ LessonOf(outcome) \in Seq(LessonsOf(Schedule[at]))
           /\ (OnlineLearning /\ Distinct(useful) /\ Schedule[at] \notin {rs[i].pair : i \in DOMAIN rs})
                 => Distinct(useful \o LessonOf(outcome))
<1> DEFINE pair == Schedule[at]
           ep == EpisodeOf("memory", outcome)
           own == IF OnlineLearning THEN useful ELSE Exposure[Case]
           store == own \o <<ep>>
           created == Store(store)!Consolidated
           patterns == [k \in DOMAIN created |-> Store(store)!Pattern(created[k])]
           S == LessonsOf(pair)
<1>1. pair \in Range(Schedule) /\ Case \in DOMAIN Exposure
    <2>1. pair \in Range(Schedule)
        BY DEF Range
    <2>2. Schedule \in Seq((DOMAIN Exposure) \X Nat)
        BY MemoryExperimentAssumption
    <2>3. pair \in (DOMAIN Exposure) \X Nat
        BY <2>2, RowPositions
    <2> QED
        BY <2>1, <2>3 DEF Case
<1>2. ep \in EpisodesOf(pair, "memory") /\ ep \in S
    BY DEF EpisodesOf, EpisodeOf, EpisodeRecord, LessonsOf, Case
<1>3. ep.id = <<pair, "memory">> /\ ep.tier = "episodic"
    BY <1>2, EpisodeShape
<1>4. ep.id \in RunIds("memory")
    BY <1>1, <1>3, RunId
<1>5. \E Q : own \in Seq(Q) /\ \A i \in DOMAIN own :
          own[i].tier = "episodic" => own[i].id \in SeedIds \cup RunIds("memory")
    <2>1. CASE OnlineLearning
        <3>1. own = useful
            BY <2>1
        <3>2. \A i \in DOMAIN useful : useful[i] \in Known(rs)
            BY RowPositions
        <3>3. ASSUME NEW i \in DOMAIN useful, useful[i].tier = "episodic"
              PROVE  useful[i].id \in RunIds("memory")
            <4>1. PICK k \in DOMAIN rs : useful[i] \in LessonsOf(rs[k].pair)
                BY <3>2 DEF Known
            <4>2. rs[k].pair \in Range(Schedule)
                BY RowPositions, RowShape
            <4>3. useful[i] \notin Patterns
                BY <3>3, PatternShape
            <4>4. useful[i] \in EpisodesOf(rs[k].pair, "memory")
                BY <4>1, <4>3 DEF LessonsOf
            <4> QED
                BY <4>2, <4>4, EpisodeShape, RunId
        <3> QED
            BY <3>1, <3>3
    <2>2. CASE ~ OnlineLearning
        <3>1. own = Exposure[Case]
            BY <2>2
        <3>2. Exposure[Case] \in Seq(SeedsOf(Case))
            <4>1. {Exposure[Case], Misleading[Case]} \subseteq Seq(SeedsOf(Case))
                BY <1>1, MemoryExperimentAssumption
            <4> QED
                BY <4>1
        <3>3. \A i \in DOMAIN Exposure[Case] : Exposure[Case][i].id \in SeedIds
            <4> SUFFICES ASSUME NEW i \in DOMAIN Exposure[Case]
                         PROVE  Exposure[Case][i].id \in SeedIds
                OBVIOUS
            <4>1. Exposure[Case][i] \in SeedsOf(Case)
                BY DEF SeedsOf, Range
            <4> QED
                BY <1>1, <4>1 DEF SeedIds
        <3> QED
            BY <3>1, <3>2, <3>3
    <2> QED
        BY <2>1, <2>2
<1>6. PICK Q : own \in Seq(Q) /\ \A i \in DOMAIN own :
          own[i].tier = "episodic" => own[i].id \in SeedIds \cup RunIds("memory")
    BY <1>5
<1> HIDE DEF own, ep
<1>7. \A i \in DOMAIN store : store[i] = ep \/ \E j \in DOMAIN own : store[i] = own[j]
    <2> DEFINE T == Q \cup {ep}
    <2>1. own \in Seq(T) /\ <<ep>> \in Seq(T) /\ Len(<<ep>>) = 1 /\ <<ep>>[1] = ep
        BY <1>6, SeqGrows
    <2>2. /\ store \in Seq(T) /\ Len(store) = Len(own) + 1
          /\ \A i \in 1 .. Len(own) + 1 : store[i] = IF i <= Len(own) THEN own[i] ELSE <<ep>>[i - Len(own)]
        BY <2>1, ConcatProperties
    <2>3. Len(own) \in Nat /\ DOMAIN own = 1 .. Len(own)
        BY <1>6, RowPositions
    <2> HIDE DEF store, T
    <2>4. DOMAIN store = 1 .. Len(own) + 1
        BY <2>2, LenProperties
    <2> SUFFICES ASSUME NEW i \in DOMAIN store
                 PROVE  store[i] = ep \/ \E j \in DOMAIN own : store[i] = own[j]
        OBVIOUS
    <2>5. CASE i <= Len(own)
        BY <2>2, <2>3, <2>4, <2>5
    <2>6. CASE ~ (i <= Len(own))
        <3>1. i - Len(own) = 1
            BY <2>3, <2>4, <2>6
        <3> QED
            BY <2>1, <2>2, <2>4, <2>6, <3>1
    <2> QED
        BY <2>5, <2>6
<1>8. \A i \in DOMAIN store : store[i].tier = "episodic" => store[i].id \in SeedIds \cup RunIds("memory")
    BY <1>4, <1>6, <1>7
<1>9. patterns = <<>> \/ \E p \in Patterns : patterns = <<p>> /\ ~ Has(store, p.id)
    <2> HIDE DEF store
    <2> QED
        BY <1>8, PatternsOfStore
<1>10. LessonOf(outcome) = IF ~ Teaches(outcome) THEN <<>>
                           ELSE IF OnlineLearning THEN <<ep>> \o patterns ELSE patterns
    BY DEF LessonOf, own, ep
<1> HIDE DEF patterns, store
<1>11. patterns \in Seq(S) /\ <<ep>> \in Seq(S) /\ <<>> \in Seq(S)
    <2>1. Patterns \subseteq S
        BY DEF LessonsOf
    <2> HIDE DEF S
    <2>2. <<ep>> \in Seq(S) /\ <<>> \in Seq(S)
        BY <1>2, OneElement
    <2>3. \A p \in Patterns : <<p>> \in Seq(S)
        BY <2>1, OneElement
    <2> QED
        BY <1>9, <2>2, <2>3
<1>12. LessonOf(outcome) \in Seq(S)
    BY <1>10, <1>11, ConcatProperties
<1>13. ASSUME OnlineLearning, Distinct(useful), pair \notin {rs[i].pair : i \in DOMAIN rs}
       PROVE  Distinct(useful \o LessonOf(outcome))
    <2> DEFINE T == Known(rs) \cup S
    <2>1. useful \in Seq(T) /\ patterns \in Seq(T) /\ <<ep>> \in Seq(T)
        <3> HIDE DEF S
        <3> QED
            BY <1>11, SeqGrows
    <2> HIDE DEF T
    <2>2. CASE ~ Teaches(outcome)
        BY <1>10, <1>13, <2>1, <2>2, ConcatEmptySeq
    <2>3. CASE Teaches(outcome)
        <3>1. useful \o LessonOf(outcome) = (useful \o <<ep>>) \o patterns
            BY <1>10, <1>13, <2>1, <2>3, ConcatAssociative
        <3>2. ~ Has(useful, ep.id)
            <4> SUFFICES ASSUME NEW i \in DOMAIN useful, useful[i].id = <<pair, "memory">> PROVE FALSE
                BY <1>3 DEF Has
            <4>1. useful[i] \in Known(rs)
                BY RowPositions
            <4>2. PICK k \in DOMAIN rs : useful[i] \in LessonsOf(rs[k].pair)
                BY <4>1 DEF Known
            <4>3. useful[i] \notin Patterns
                BY <1>1, KindsOfIds
            <4>4. useful[i].id = <<rs[k].pair, "memory">>
                BY <4>2, <4>3, EpisodeShape DEF LessonsOf
            <4> QED
                BY <1>13, <4>4
        <3>3. Distinct(useful \o <<ep>>)
            BY <1>13, <3>2, AppendDistinct
        <3>4. store = useful \o <<ep>> /\ store \in Seq(T)
            BY <1>13, <2>1, ConcatProperties DEF store, own
        <3>5. CASE patterns = <<>>
            BY <3>1, <3>3, <3>4, <3>5, ConcatEmptySeq
        <3>6. CASE \E p \in Patterns : patterns = <<p>> /\ ~ Has(store, p.id)
            <4>1. PICK p \in Patterns : patterns = <<p>> /\ ~ Has(store, p.id)
                BY <3>6
            <4>2. Distinct(store \o <<p>>)
                BY <3>3, <3>4, <4>1, AppendDistinct
            <4> QED
                BY <3>1, <3>4, <4>1, <4>2
        <3> QED
            BY <1>9, <3>5, <3>6
    <2> QED
        BY <2>2, <2>3
<1> QED
    BY <1>12, <1>13

\* A misleading run leaves its episode, or nothing.
LEMMA MisleadingLessons ==
    ASSUME at \in DOMAIN Schedule, NEW outcome \in Outcomes,
           NEW rs \in Seq(Rows), misleading \in Seq(KnownMisled(rs))
    PROVE  /\ MisleadingLessonOf(outcome) \in Seq(EpisodesOf(Schedule[at], "misleading"))
           /\ (Distinct(misleading) /\ Schedule[at] \notin {rs[i].pair : i \in DOMAIN rs})
                 => Distinct(misleading \o MisleadingLessonOf(outcome))
<1> DEFINE pair == Schedule[at]
           ep == EpisodeOf("misleading", outcome)
           S == EpisodesOf(pair, "misleading")
<1>1. ep \in S
    BY DEF EpisodesOf, EpisodeOf, EpisodeRecord, Case
<1>2. ep.id = <<pair, "misleading">>
    BY <1>1, EpisodeShape
<1>3. MisleadingLessonOf(outcome) = <<>> \/ MisleadingLessonOf(outcome) = <<ep>>
    BY DEF MisleadingLessonOf
<1> HIDE DEF ep
<1>4. MisleadingLessonOf(outcome) \in Seq(S)
    BY <1>1, <1>3, OneElement
<1>5. ASSUME Distinct(misleading), pair \notin {rs[i].pair : i \in DOMAIN rs}
      PROVE  Distinct(misleading \o MisleadingLessonOf(outcome))
    <2>1. ~ Has(misleading, ep.id)
        <3> SUFFICES ASSUME NEW i \in DOMAIN misleading, misleading[i].id = <<pair, "misleading">>
                     PROVE  FALSE
            BY <1>2 DEF Has
        <3>1. misleading[i] \in KnownMisled(rs)
            BY RowPositions
        <3>2. PICK k \in DOMAIN rs : misleading[i] \in EpisodesOf(rs[k].pair, "misleading")
            BY <3>1 DEF KnownMisled
        <3>3. misleading[i].id = <<rs[k].pair, "misleading">>
            BY <3>2, EpisodeShape
        <3> QED
            BY <1>5, <3>3
    <2>2. Distinct(misleading \o <<ep>>)
        BY <1>5, <2>1, AppendDistinct
    <2>3. misleading \o <<>> = misleading
        BY ConcatEmptySeq
    <2> QED
        BY <1>3, <1>5, <2>2, <2>3
<1> QED
    BY <1>4, <1>5

-----------------------------------------------------------------------------
(***************************************************************************)
(* The invariant.                                                          *)
(***************************************************************************)

InCase == {"cold", "memory", "misleading"}

TypeInv ==
    /\ pc \in {"stopped", "loop", "persist"} \cup InCase
    /\ at \in Nat /\ at # 0
    /\ skip \subseteq Range(Schedule)
    /\ ended \in {"live", "run", "case"}
    /\ memory \in Outcomes
    /\ rows \in Seq(Rows)
    /\ finished \in BOOLEAN
    /\ useful \in Seq(Known(rows))
    /\ misleading \in Seq(KnownMisled(rows))
    /\ disk \in [rows : Seq(Rows), finished : BOOLEAN]
    /\ starts \in 0 .. MaxStarts

\* Rows are in the order of the schedule, and no pair is left out.
InOrder(rs) ==
    /\ Len(rs) <= Len(Schedule)
    /\ \A i \in DOMAIN rs : rs[i].pair = Schedule[i]

\* Where the loops are, what they skip, and how far the disk is behind.
PlaceInv ==
    /\ InOrder(rows) /\ InOrder(disk.rows)
    /\ disk.finished => Len(disk.rows) = Len(Schedule)
    /\ pc = "stopped" => at = 1 /\ ended = "live" /\ rows = <<>>
    /\ pc # "stopped" =>
          /\ finished = disk.finished
          /\ Len(disk.rows) = IF pc = "persist" THEN Len(rows) - 1 ELSE Len(rows)
          /\ \E n \in 0 .. Len(rows) :
                /\ skip = {Schedule[i] : i \in 1 .. n}
                /\ at <= n => pc = "loop" /\ Len(rows) = n
                /\ at > n => at = IF pc = "persist" THEN Len(rows) ELSE Len(rows) + 1
    /\ pc \in InCase => at <= Len(Schedule)

\* The stores hold distinct records, and the rows tell what they hold.
LearnInv ==
    /\ Distinct(useful) /\ Distinct(misleading)
    /\ OnlineLearning /\ pc # "stopped" =>
          useful = Learned(rows) /\ misleading = LearnedMisleading(rows)

\* No row was made after the interrupted one of its start.
LastOfStart(rs) ==
    \A i, j \in DOMAIN rs : i < j /\ rs[i].interrupted => rs[j].start # rs[i].start

LateInv ==
    /\ \A i \in DOMAIN rows : rows[i].start <= starts
    /\ \A i \in DOMAIN disk.rows : disk.rows[i].start <= starts
    /\ LastOfStart(rows) /\ LastOfStart(disk.rows)
    /\ pc # "stopped" =>
          \A i \in DOMAIN rows : rows[i].interrupted /\ rows[i].start = starts =>
              ended = "run" /\ pc \in {"loop", "persist"}

ExperimentInv == TypeInv /\ PlaceInv /\ LearnInv /\ LateInv

\* A summary the process may leave.
SummaryOK(d) ==
    /\ d \in [rows : Seq(Rows), finished : BOOLEAN]
    /\ InOrder(d.rows)
    /\ d.finished => Len(d.rows) = Len(Schedule)
    /\ \A i \in DOMAIN d.rows : d.rows[i].start <= starts
    /\ LastOfStart(d.rows)

\* The schedule is a list without repetitions.
LEMMA ScheduleIsList ==
    /\ Len(Schedule) \in Nat /\ DOMAIN Schedule = 1 .. Len(Schedule)
    /\ \A i \in 1 .. Len(Schedule) : Schedule[i] \in Range(Schedule)
    /\ \A i, j \in 1 .. Len(Schedule) : Schedule[i] = Schedule[j] => i = j
<1>1. Schedule \in Seq((DOMAIN Exposure) \X Nat)
    BY MemoryExperimentAssumption
<1>2. Len(Schedule) \in Nat /\ DOMAIN Schedule = 1 .. Len(Schedule)
    BY <1>1, LenProperties
<1> QED
    BY <1>2, MemoryExperimentAssumption DEF Range

\* The empty list of rows.
LEMMA NoRows ==
    /\ <<>> \in Seq(Rows) /\ Len(<<>>) = 0 /\ DOMAIN <<>> = {}
    /\ InOrder(<<>>) /\ LastOfStart(<<>>)
    /\ <<>> \in Seq(Known(<<>>)) /\ <<>> \in Seq(KnownMisled(<<>>))
    /\ Learned(<<>>) = <<>> /\ LearnedMisleading(<<>>) = <<>>
    /\ Distinct(<<>>)
<1>1. <<>> \in Seq(Rows) /\ <<>> \in Seq(Known(<<>>)) /\ <<>> \in Seq(KnownMisled(<<>>))
    BY EmptySeq
<1>2. Len(<<>>) = 0 /\ DOMAIN <<>> = {}
    BY EmptySeq
<1>3. Learned(<<>>) = <<>> /\ LearnedMisleading(<<>>) = <<>>
    <2>1. [i \in DOMAIN <<>> |-> <<>>[i].learned] = <<>>
          /\ [i \in DOMAIN <<>> |-> <<>>[i].misled] = <<>>
        BY <1>2
    <2> QED
        BY <2>1, NothingJoined DEF Learned, LearnedMisleading
<1> QED
    BY <1>1, <1>2, <1>3, ScheduleIsList DEF InOrder, LastOfStart, Distinct

\* The experiment begins with nothing.
LEMMA InitInv == Init => ExperimentInv
<1> SUFFICES ASSUME Init PROVE ExperimentInv
    OBVIOUS
<1>1. TypeInv
    <2>1. 0 \in 0 .. MaxStarts
        BY MemoryExperimentAssumption
    <2>2. at \in Nat /\ at # 0 /\ "ERROR" \in Outcomes
        BY DEF Init, Outcomes
    <2> QED
        BY <2>1, <2>2, NoRows DEF Init, TypeInv, Empty
<1>2. PlaceInv
    BY NoRows DEF Init, PlaceInv, Empty, InCase
<1>3. LearnInv
    BY NoRows DEF Init, LearnInv
<1>4. LateInv
    BY NoRows DEF Init, LateInv, Empty
<1> QED
    BY <1>1, <1>2, <1>3, <1>4 DEF ExperimentInv

\* A summary on disk is one the process may leave.
LEMMA DiskOK == ExperimentInv => SummaryOK(disk)
BY DEF ExperimentInv, TypeInv, PlaceInv, LateInv, SummaryOK

\* So is the one a running process has in memory.
LEMMA MemoryOK ==
    ASSUME ExperimentInv, pc # "stopped", NEW f \in BOOLEAN, f => Len(rows) = Len(Schedule)
    PROVE  SummaryOK([rows |-> rows, finished |-> f])
BY DEF ExperimentInv, TypeInv, PlaceInv, LateInv, SummaryOK

\* A process that stops leaves a summary behind, and nothing else.
LEMMA StoppedInv ==
    ASSUME ExperimentInv, Stopped, starts' = starts, SummaryOK(disk')
    PROVE  ExperimentInv'
<1>1. TypeInv'
    <2>1. at' \in Nat /\ at' # 0 /\ "ERROR" \in Outcomes
        BY DEF Stopped, Outcomes
    <2> QED
        BY <2>1, NoRows DEF ExperimentInv, TypeInv, Stopped, SummaryOK
<1>2. PlaceInv'
    BY NoRows DEF PlaceInv, Stopped, SummaryOK, InCase
<1>3. LearnInv'
    BY NoRows DEF LearnInv, Stopped
<1>4. LateInv'
    BY NoRows DEF LateInv, Stopped, SummaryOK
<1> QED
    BY <1>1, <1>2, <1>3, <1>4 DEF ExperimentInv

\* A step of the run that changes none of its results.
LEMMA QuietInv ==
    ASSUME ExperimentInv, pc # "stopped", pc' # "stopped",
           UNCHANGED <<skip, rows, finished, useful, misleading, disk, starts>>,
           pc' \in {"stopped", "loop", "persist"} \cup InCase, at' \in Nat, at' # 0,
           ended' \in {"live", "run", "case"}, memory' \in Outcomes, PlaceInv',
           \A i \in DOMAIN rows : rows[i].interrupted /\ rows[i].start = starts =>
               ended' = "run" /\ pc' \in {"loop", "persist"}
    PROVE  ExperimentInv'
<1>1. TypeInv'
    BY DEF ExperimentInv, TypeInv
<1>2. LearnInv'
    BY DEF ExperimentInv, LearnInv
<1>3. LateInv'
    BY DEF ExperimentInv, LateInv
<1> QED
    BY <1>1, <1>2, <1>3 DEF ExperimentInv

\* At the head of the loop a pair is skipped, or is the first without a row.
LEMMA HeadOfLoop ==
    ASSUME ExperimentInv, pc = "loop", at <= Len(Schedule)
    PROVE  /\ Schedule[at] \notin skip => at = Len(rows) + 1
           /\ Schedule[at] \in skip => at <= Len(rows)
<1>1. PICK n \in 0 .. Len(rows) : /\ skip = {Schedule[i] : i \in 1 .. n}
                                  /\ at <= n => Len(rows) = n
                                  /\ at > n => at = Len(rows) + 1
    BY DEF ExperimentInv, PlaceInv
<1>2. Len(rows) \in Nat /\ Len(rows) <= Len(Schedule) /\ at \in Nat /\ at # 0
    BY RowPositions DEF ExperimentInv, TypeInv, PlaceInv, InOrder
<1>3. CASE at <= n
    <2>1. at \in 1 .. n
        BY <1>2, <1>3
    <2>2. Schedule[at] \in skip
        BY <1>1, <2>1
    <2> QED
        BY <1>1, <1>2, <1>3, <2>2
<1>4. CASE ~ (at <= n)
    <2>1. Schedule[at] \notin skip
        <3> SUFFICES ASSUME NEW i \in 1 .. n, Schedule[i] = Schedule[at] PROVE FALSE
            BY <1>1
        <3>1. i \in 1 .. Len(Schedule) /\ at \in 1 .. Len(Schedule)
            BY <1>2, ScheduleIsList
        <3>2. i = at
            BY <3>1, ScheduleIsList
        <3> QED
            BY <1>2, <1>4, <3>2
    <2> QED
        BY <1>1, <1>2, <1>4, <2>1
<1> QED
    BY <1>3, <1>4

-----------------------------------------------------------------------------
(***************************************************************************)
(* The steps.                                                              *)
(***************************************************************************)

\* The rows on disk, restored.
LEMMA StartInv == ASSUME ExperimentInv, Start PROVE ExperimentInv'
<1>1. /\ pc = "stopped" /\ pc' = "loop" /\ starts < MaxStarts /\ starts' = starts + 1
      /\ rows' = disk.rows /\ finished' = disk.finished
      /\ skip' = Range(Pairs(disk.rows))
      /\ useful' = Learned(disk.rows) /\ misleading' = LearnedMisleading(disk.rows)
      /\ Distinct(Learned(disk.rows)) /\ Distinct(LearnedMisleading(disk.rows))
      /\ UNCHANGED <<at, ended, memory, disk>>
    BY DEF Start
<1>2. disk.rows \in Seq(Rows) /\ disk.finished \in BOOLEAN
    BY DEF ExperimentInv, TypeInv
<1>3. Len(disk.rows) \in Nat /\ DOMAIN disk.rows = 1 .. Len(disk.rows)
      /\ \A i \in DOMAIN disk.rows : disk.rows[i] \in Rows
    BY <1>2, RowPositions
<1>4. InOrder(disk.rows) /\ at = 1 /\ ended = "live"
    BY <1>1 DEF ExperimentInv, PlaceInv
<1>5. skip' = {Schedule[i] : i \in 1 .. Len(disk.rows)}
    BY <1>1, <1>3, <1>4 DEF Range, Pairs, InOrder
<1>6. TypeInv'
    <2>1. skip' \subseteq Range(Schedule)
        <3>1. \A i \in 1 .. Len(disk.rows) : i \in 1 .. Len(Schedule)
            BY <1>3, <1>4, ScheduleIsList DEF InOrder
        <3> QED
            BY <1>5, <3>1, ScheduleIsList
    <2>2. Learned(disk.rows) \in Seq(Known(disk.rows))
          /\ LearnedMisleading(disk.rows) \in Seq(KnownMisled(disk.rows))
        BY <1>2, LearnedTyped
    <2>3. starts' \in 0 .. MaxStarts
        BY <1>1, MemoryExperimentAssumption DEF ExperimentInv, TypeInv
    <2> QED
        BY <1>1, <1>2, <2>1, <2>2, <2>3 DEF ExperimentInv, TypeInv
<1>7. PlaceInv'
    <2>1. /\ Len(disk.rows) \in 0 .. Len(disk.rows)
          /\ 1 <= Len(disk.rows) \/ 1 = Len(disk.rows) + 1
        BY <1>3
    <2>2. \E n \in 0 .. Len(rows') :
                /\ skip' = {Schedule[i] : i \in 1 .. n}
                /\ at' <= n => pc' = "loop" /\ Len(rows') = n
                /\ at' > n => at' = IF pc' = "persist" THEN Len(rows') ELSE Len(rows') + 1
        <3>1. Len(rows') = Len(disk.rows) /\ at' = 1
            BY <1>1, <1>4
        <3> QED
            BY <1>1, <1>5, <2>1, <3>1
    <2>3. pc' \notin InCase /\ pc' # "stopped" /\ pc' # "persist"
        BY <1>1 DEF InCase
    <2>4. InOrder(rows') /\ InOrder(disk'.rows)
          /\ (disk'.finished => Len(disk'.rows) = Len(Schedule))
        BY <1>1, <1>4 DEF ExperimentInv, PlaceInv
    <2> QED
        BY <1>1, <2>2, <2>3, <2>4 DEF PlaceInv
<1>8. LearnInv'
    BY <1>1 DEF LearnInv
<1>9. LateInv'
    <2>1. /\ \A i \in DOMAIN disk.rows : disk.rows[i].start <= starts
          /\ LastOfStart(disk.rows)
        BY DEF ExperimentInv, LateInv
    <2>2. starts \in Nat
        BY MemoryExperimentAssumption DEF ExperimentInv, TypeInv
    <2>3. \A i \in DOMAIN disk.rows : disk.rows[i].start \in Nat
        BY <1>3, RowShape
    <2>4. \A i \in DOMAIN disk.rows : disk.rows[i].start <= starts' /\ disk.rows[i].start # starts'
        BY <1>1, <2>1, <2>2, <2>3
    <2> QED
        BY <1>1, <2>1, <2>4 DEF LateInv
<1> QED
    BY <1>6, <1>7, <1>8, <1>9 DEF ExperimentInv

\* A crash leaves the summary as it is.
LEMMA CrashInv == ASSUME ExperimentInv, Crash PROVE ExperimentInv'
<1>1. Stopped /\ disk' = disk /\ starts' = starts
    BY DEF Crash
<1> QED
    BY <1>1, DiskOK, StoppedInv

\* The run may end anywhere.
LEMMA RunEndsInv == ASSUME ExperimentInv, RunEnds PROVE ExperimentInv'
<1>1. /\ pc # "stopped" /\ ended' = "run"
      /\ UNCHANGED <<pc, at, skip, memory, rows, finished, useful, misleading, disk, starts>>
    BY DEF RunEnds
<1>2. PlaceInv'
    BY <1>1 DEF ExperimentInv, PlaceInv
<1>3. \A i \in DOMAIN rows : rows[i].interrupted /\ rows[i].start = starts =>
          pc' \in {"loop", "persist"}
    BY <1>1 DEF ExperimentInv, LateInv
<1> QED
    BY <1>1, <1>2, <1>3, QuietInv DEF ExperimentInv, TypeInv

\* In a case nothing has interrupted this start before.
LEMMA NotInterrupted ==
    ASSUME ExperimentInv, pc \in InCase
    PROVE  ~ \E i \in DOMAIN rows : rows[i].interrupted /\ rows[i].start = starts
BY DEF ExperimentInv, LateInv, InCase

\* A case's deadline passes only in the case.
LEMMA CaseEndsInv == ASSUME ExperimentInv, CaseEnds PROVE ExperimentInv'
<1>1. /\ pc \in InCase /\ ended' = "case"
      /\ UNCHANGED <<pc, at, skip, memory, rows, finished, useful, misleading, disk, starts>>
    BY DEF CaseEnds, InCase
<1>2. PlaceInv' /\ pc # "stopped"
    BY <1>1 DEF ExperimentInv, PlaceInv, InCase
<1> QED
    BY <1>1, <1>2, NotInterrupted, QuietInv DEF ExperimentInv, TypeInv

\* A pair that has a row is passed over.
LEMMA SkipInv == ASSUME ExperimentInv, Skip PROVE ExperimentInv'
<1>1. /\ pc = "loop" /\ at <= Len(Schedule) /\ Schedule[at] \in skip /\ at' = at + 1
      /\ UNCHANGED <<pc, skip, ended, memory, rows, finished, useful, misleading, disk, starts>>
    BY DEF Skip
<1>2. at <= Len(rows) /\ at \in Nat /\ at # 0 /\ Len(rows) \in Nat
    BY <1>1, HeadOfLoop, RowPositions DEF ExperimentInv, TypeInv
<1>3. PICK n \in 0 .. Len(rows) : /\ skip = {Schedule[i] : i \in 1 .. n}
                                  /\ at <= n => Len(rows) = n
                                  /\ at > n => at = Len(rows) + 1
    BY <1>1 DEF ExperimentInv, PlaceInv
<1>4. at <= n /\ Len(rows) = n
    BY <1>2, <1>3
<1>5. PlaceInv'
    <2>1. \E k \in 0 .. Len(rows') :
                /\ skip' = {Schedule[i] : i \in 1 .. k}
                /\ at' <= k => pc' = "loop" /\ Len(rows') = k
                /\ at' > k => at' = IF pc' = "persist" THEN Len(rows') ELSE Len(rows') + 1
        <3>1. at' <= n \/ at' = Len(rows') + 1
            BY <1>1, <1>2, <1>4
        <3>2. n \in 0 .. Len(rows') /\ pc' = "loop" /\ Len(rows') = n
            BY <1>1, <1>4
        <3>3. skip' = {Schedule[i] : i \in 1 .. n}
            BY <1>1, <1>3
        <3>4. at' > n => at' = Len(rows') + 1
            BY <1>1, <1>2, <3>1, <3>2
        <3> QED
            BY <3>2, <3>3, <3>4
    <2> QED
        BY <1>1, <2>1 DEF ExperimentInv, PlaceInv, InCase
<1>6. \A i \in DOMAIN rows : rows[i].interrupted /\ rows[i].start = starts => ended' = "run"
    BY <1>1 DEF ExperimentInv, LateInv
<1>7. at' \in Nat /\ at' # 0 /\ pc' = "loop" /\ pc # "stopped"
    BY <1>1, <1>2
<1> QED
    BY <1>1, <1>5, <1>6, <1>7, QuietInv DEF ExperimentInv, TypeInv

\* A case begins with the first pair without a row.
LEMMA StartCaseInv == ASSUME ExperimentInv, StartCase PROVE ExperimentInv'
<1>1. /\ pc = "loop" /\ pc' = "cold" /\ at <= Len(Schedule) /\ Schedule[at] \notin skip
      /\ ended # "run" /\ ended' = "live"
      /\ UNCHANGED <<at, skip, memory, rows, finished, useful, misleading, disk, starts>>
    BY DEF StartCase
<1>2. at = Len(rows) + 1 /\ Len(rows) \in Nat
    BY <1>1, HeadOfLoop, RowPositions DEF ExperimentInv, TypeInv
<1>3. PlaceInv'
    <2>1. PICK n \in 0 .. Len(rows) : skip = {Schedule[i] : i \in 1 .. n}
        BY <1>1 DEF ExperimentInv, PlaceInv
    <2>2. \E k \in 0 .. Len(rows') :
                /\ skip' = {Schedule[i] : i \in 1 .. k}
                /\ at' <= k => pc' = "loop" /\ Len(rows') = k
                /\ at' > k => at' = IF pc' = "persist" THEN Len(rows') ELSE Len(rows') + 1
        <3>1. n \in 0 .. Len(rows') /\ ~ (at' <= n)
            BY <1>1, <1>2
        <3> QED
            BY <1>1, <1>2, <2>1, <3>1
    <2> QED
        BY <1>1, <2>2 DEF ExperimentInv, PlaceInv
<1>4. \A i \in DOMAIN rows : ~ (rows[i].interrupted /\ rows[i].start = starts)
    BY <1>1 DEF ExperimentInv, LateInv
<1>5. pc' \in InCase /\ pc # "stopped" /\ pc' # "stopped"
    BY <1>1 DEF InCase
<1> QED
    BY <1>1, <1>3, <1>4, <1>5, QuietInv DEF ExperimentInv, TypeInv

\* The case without memory changes no store.
LEMMA RunColdInv == ASSUME ExperimentInv, RunCold PROVE ExperimentInv'
<1>1. /\ pc = "cold" /\ pc' = "memory"
      /\ UNCHANGED <<at, skip, ended, memory, rows, finished, useful, misleading, disk, starts>>
    BY DEF RunCold
<1>2. pc \in InCase /\ pc' \in InCase /\ pc' # "stopped"
    BY <1>1 DEF InCase
<1>3. PlaceInv'
    BY <1>1, <1>2 DEF ExperimentInv, PlaceInv
<1> QED
    BY <1>1, <1>2, <1>3, NotInterrupted, QuietInv DEF ExperimentInv, TypeInv

\* The case with memory leaves its outcome.
LEMMA RunWithMemoryInv == ASSUME ExperimentInv, RunWithMemory PROVE ExperimentInv'
<1>1. /\ pc = "memory" /\ pc' = "misleading" /\ memory' \in SideOutcomes
      /\ UNCHANGED <<at, skip, ended, rows, finished, useful, misleading, disk, starts>>
    BY DEF RunWithMemory
<1>2. pc \in InCase /\ pc' \in InCase /\ pc' # "stopped" /\ memory' \in Outcomes
    BY <1>1, MemoryExperimentAssumption DEF InCase
<1>3. PlaceInv'
    BY <1>1, <1>2 DEF ExperimentInv, PlaceInv
<1> QED
    BY <1>1, <1>2, <1>3, NotInterrupted, QuietInv DEF ExperimentInv, TypeInv

\* The place of a running case: the first pair without a row.
LEMMA PlaceOfCase ==
    ASSUME ExperimentInv, pc \in InCase
    PROVE  /\ at = Len(rows) + 1 /\ Len(rows) \in Nat /\ at \in DOMAIN Schedule
           /\ Schedule[at] \in Range(Schedule)
           /\ Schedule[at] \notin {rows[i].pair : i \in DOMAIN rows}
<1>1. Len(rows) \in Nat /\ DOMAIN rows = 1 .. Len(rows) /\ at \in Nat /\ at # 0 /\ at <= Len(Schedule)
    BY RowPositions DEF ExperimentInv, TypeInv, PlaceInv
<1>2. at = Len(rows) + 1
    <2>1. pc # "stopped" /\ pc # "loop" /\ pc # "persist"
        BY DEF InCase
    <2>2. PICK n \in 0 .. Len(rows) : ~ (at <= n) /\ (at > n => at = Len(rows) + 1)
        BY <2>1 DEF ExperimentInv, PlaceInv
    <2> QED
        BY <1>1, <2>2
<1>3. at \in 1 .. Len(Schedule)
    BY <1>1, ScheduleIsList
<1>4. ASSUME NEW i \in DOMAIN rows, rows[i].pair = Schedule[at] PROVE FALSE
    <2>1. i \in 1 .. Len(Schedule) /\ i # at
        BY <1>1, <1>2, <1>3, <1>4, ScheduleIsList
    <2>2. Schedule[i] = Schedule[at]
        BY <1>4 DEF ExperimentInv, PlaceInv, InOrder
    <2> QED
        BY <1>3, <2>1, <2>2, ScheduleIsList
<1> QED
    BY <1>1, <1>2, <1>3, <1>4, ScheduleIsList

\* The row of a case: what it taught is added to the stores and told by the row.
LEMMA RunMisleadingInv == ASSUME ExperimentInv, RunMisleading PROVE ExperimentInv'
<1>1. PICK outcome \in SideOutcomes :
          /\ useful' = IF OnlineLearning THEN useful \o LessonOf(memory) ELSE useful
          /\ misleading' = misleading \o MisleadingLessonOf(outcome)
          /\ rows' = Append(rows, [pair        |-> Schedule[at],
                                   learned     |-> LessonOf(memory),
                                   misled      |-> MisleadingLessonOf(outcome),
                                   interrupted |-> ended = "run",
                                   start       |-> starts])
    BY DEF RunMisleading
<1> DEFINE lesson == LessonOf(memory)
           misled == MisleadingLessonOf(outcome)
           r == [pair |-> Schedule[at], learned |-> lesson, misled |-> misled,
                 interrupted |-> ended = "run", start |-> starts]
           n == Len(rows)
<1>2. /\ pc = "misleading" /\ pc' = "persist" /\ memory' = "ERROR"
      /\ UNCHANGED <<at, skip, ended, finished, disk, starts>>
    BY DEF RunMisleading
<1>3. pc \in InCase
    BY <1>2 DEF InCase
<1>4. /\ at = n + 1 /\ n \in Nat /\ at \in DOMAIN Schedule /\ Schedule[at] \in Range(Schedule)
      /\ Schedule[at] \notin {rows[i].pair : i \in DOMAIN rows}
    BY <1>3, PlaceOfCase
<1>5. /\ rows \in Seq(Rows) /\ useful \in Seq(Known(rows)) /\ misleading \in Seq(KnownMisled(rows))
      /\ memory \in Outcomes /\ outcome \in Outcomes /\ starts \in Nat
    BY MemoryExperimentAssumption DEF ExperimentInv, TypeInv
<1>6. /\ lesson \in Seq(LessonsOf(Schedule[at]))
      /\ misled \in Seq(EpisodesOf(Schedule[at], "misleading"))
    BY <1>4, <1>5, Lessons, MisleadingLessons
<1>7. /\ OnlineLearning => Distinct(useful \o lesson)
      /\ Distinct(misleading \o misled)
    BY <1>4, <1>5, Lessons, MisleadingLessons DEF ExperimentInv, LearnInv
<1> HIDE DEF lesson, misled
<1>8. /\ r \in Rows /\ r.pair = Schedule[at] /\ r.learned = lesson /\ r.misled = misled
      /\ r.interrupted = (ended = "run") /\ r.start = starts
    BY <1>4, <1>5, <1>6 DEF Rows, RowsOf
<1>9. rows' = Append(rows, r)
    BY <1>1 DEF lesson, misled
<1> HIDE DEF r
<1>10. /\ rows' \in Seq(Rows) /\ Len(rows') = n + 1 /\ rows'[n + 1] = r
       /\ DOMAIN rows = 1 .. n /\ DOMAIN rows' = 1 .. (n + 1)
       /\ \A i \in 1 .. n : rows'[i] = rows[i]
    <2>1. /\ rows' \in Seq(Rows) /\ Len(rows') = n + 1 /\ rows'[n + 1] = r
          /\ \A i \in 1 .. n : rows'[i] = rows[i]
        BY <1>5, <1>8, <1>9, AppendProperties
    <2> QED
        BY <1>5, <2>1, LenProperties
<1>11. /\ Known(rows) \cup LessonsOf(Schedule[at]) = Known(rows')
       /\ KnownMisled(rows) \cup EpisodesOf(Schedule[at], "misleading") = KnownMisled(rows')
    BY <1>5, <1>8, <1>9, KnownGrows
<1>12. /\ Learned(rows') = Learned(rows) \o lesson
       /\ LearnedMisleading(rows') = LearnedMisleading(rows) \o misled
    BY <1>5, <1>8, <1>9, LearnedGrows
<1>13. /\ useful' = IF OnlineLearning THEN useful \o lesson ELSE useful
       /\ misleading' = misleading \o misled
    BY <1>1 DEF lesson, misled
<1>14. TypeInv'
    <2>1. useful \in Seq(Known(rows')) /\ lesson \in Seq(Known(rows'))
          /\ misleading \in Seq(KnownMisled(rows')) /\ misled \in Seq(KnownMisled(rows'))
        <3>1. Known(rows) \subseteq Known(rows') /\ LessonsOf(Schedule[at]) \subseteq Known(rows')
              /\ KnownMisled(rows) \subseteq KnownMisled(rows')
              /\ EpisodesOf(Schedule[at], "misleading") \subseteq KnownMisled(rows')
            BY <1>11
        <3> QED
            BY <1>5, <1>6, <3>1, SeqGrows
    <2>2. useful \o lesson \in Seq(Known(rows')) /\ misleading \o misled \in Seq(KnownMisled(rows'))
        BY <2>1, ConcatProperties
    <2>3. useful' \in Seq(Known(rows')) /\ misleading' \in Seq(KnownMisled(rows'))
        BY <1>13, <2>1, <2>2
    <2>4. "ERROR" \in Outcomes
        BY DEF Outcomes
    <2> QED
        BY <1>2, <1>10, <2>3, <2>4 DEF ExperimentInv, TypeInv
<1>15. PlaceInv'
    <2>1. InOrder(rows')
        <3>1. n + 1 <= Len(Schedule)
            BY <1>4, ScheduleIsList
        <3>2. \A i \in 1 .. n : rows'[i].pair = Schedule[i]
            BY <1>10 DEF ExperimentInv, PlaceInv, InOrder
        <3>3. rows'[n + 1].pair = Schedule[n + 1]
            BY <1>4, <1>8, <1>10
        <3>4. \A i \in 1 .. (n + 1) : i \in 1 .. n \/ i = n + 1
            BY <1>4
        <3> QED
            BY <1>10, <3>1, <3>2, <3>3, <3>4 DEF InOrder
    <2>2. Len(disk.rows) = n /\ finished = disk.finished /\ InOrder(disk.rows)
          /\ (disk.finished => Len(disk.rows) = Len(Schedule))
        BY <1>2 DEF ExperimentInv, PlaceInv
    <2>3. PICK k \in 0 .. n : skip = {Schedule[i] : i \in 1 .. k}
        BY <1>2 DEF ExperimentInv, PlaceInv
    <2>4. k \in 0 .. Len(rows') /\ ~ (at' <= k) /\ at' = Len(rows') /\ Len(rows') - 1 = n
        BY <1>2, <1>4, <1>10
    <2>5. \E j \in 0 .. Len(rows') :
                /\ skip' = {Schedule[i] : i \in 1 .. j}
                /\ at' <= j => pc' = "loop" /\ Len(rows') = j
                /\ at' > j => at' = IF pc' = "persist" THEN Len(rows') ELSE Len(rows') + 1
        BY <1>2, <2>3, <2>4
    <2>6. pc' \notin InCase /\ pc' = "persist"
        BY <1>2 DEF InCase
    <2> QED
        BY <1>2, <2>1, <2>2, <2>4, <2>5, <2>6 DEF PlaceInv
<1>16. LearnInv'
    <2>1. Distinct(useful') /\ Distinct(misleading')
        BY <1>7, <1>13 DEF ExperimentInv, LearnInv
    <2>2. OnlineLearning => useful' = Learned(rows') /\ misleading' = LearnedMisleading(rows')
        BY <1>2, <1>12, <1>13 DEF ExperimentInv, LearnInv
    <2> QED
        BY <2>1, <2>2 DEF LearnInv
<1>17. LateInv'
    <2>1. \A i \in 1 .. n : rows[i].start <= starts /\ ~ (rows[i].interrupted /\ rows[i].start = starts)
        BY <1>3, <1>10, NotInterrupted DEF ExperimentInv, LateInv
    <2>2. LastOfStart(rows')
        <3> SUFFICES ASSUME NEW i \in 1 .. (n + 1), NEW j \in 1 .. (n + 1), i < j, rows'[i].interrupted
                     PROVE  rows'[j].start # rows'[i].start
            BY <1>10 DEF LastOfStart
        <3>1. i \in 1 .. n /\ (j \in 1 .. n \/ j = n + 1)
            BY <1>4
        <3>2. CASE j \in 1 .. n
            BY <1>10, <3>1, <3>2 DEF ExperimentInv, LateInv, LastOfStart
        <3>3. CASE j = n + 1
            BY <1>8, <1>10, <2>1, <3>1, <3>3
        <3> QED
            BY <3>1, <3>2, <3>3
    <2>3. \A i \in 1 .. (n + 1) : i \in 1 .. n \/ i = n + 1
        BY <1>4
    <2>4. \A i \in DOMAIN rows' : rows'[i].start <= starts'
        BY <1>2, <1>5, <1>8, <1>10, <2>1, <2>3
    <2>5. \A i \in DOMAIN rows' : rows'[i].interrupted /\ rows'[i].start = starts' =>
              ended' = "run" /\ pc' \in {"loop", "persist"}
        BY <1>2, <1>8, <1>10, <2>1, <2>3
    <2>6. (\A i \in DOMAIN disk'.rows : disk'.rows[i].start <= starts') /\ LastOfStart(disk'.rows)
        BY <1>2 DEF ExperimentInv, LateInv
    <2> QED
        BY <2>2, <2>4, <2>5, <2>6 DEF LateInv
<1> QED
    BY <1>14, <1>15, <1>16, <1>17 DEF ExperimentInv

\* The row is on disk, and the loop goes on.
LEMMA PersistedInv == ASSUME ExperimentInv, Persisted PROVE ExperimentInv'
<1>1. /\ pc = "persist" /\ pc' = "loop" /\ at' = at + 1
      /\ disk' = [rows |-> rows, finished |-> finished]
      /\ UNCHANGED <<skip, ended, memory, rows, finished, useful, misleading, starts>>
    BY DEF Persisted
<1>2. disk'.rows = rows /\ disk'.finished = finished
    BY <1>1
<1>3. rows \in Seq(Rows) /\ finished \in BOOLEAN /\ Len(rows) \in Nat /\ at \in Nat
    BY RowPositions DEF ExperimentInv, TypeInv
<1>4. PICK n \in 0 .. Len(rows) : /\ skip = {Schedule[i] : i \in 1 .. n}
                                  /\ ~ (at <= n)
                                  /\ at > n => at = Len(rows)
    BY <1>1 DEF ExperimentInv, PlaceInv
<1>5. at = Len(rows)
    BY <1>3, <1>4
<1>6. TypeInv'
    BY <1>1, <1>3 DEF ExperimentInv, TypeInv
<1>7. PlaceInv'
    <2>1. InOrder(rows) /\ ~ finished
        <3>1. InOrder(rows) /\ finished = disk.finished /\ Len(disk.rows) = Len(rows) - 1
              /\ (disk.finished => Len(disk.rows) = Len(Schedule))
            BY <1>1 DEF ExperimentInv, PlaceInv
        <3> QED
            BY <1>3, <3>1, ScheduleIsList DEF InOrder
    <2>2. n \in 0 .. Len(rows') /\ ~ (at' <= n) /\ at' = Len(rows') + 1
        BY <1>1, <1>3, <1>4, <1>5
    <2>3. \E k \in 0 .. Len(rows') :
                /\ skip' = {Schedule[i] : i \in 1 .. k}
                /\ at' <= k => pc' = "loop" /\ Len(rows') = k
                /\ at' > k => at' = IF pc' = "persist" THEN Len(rows') ELSE Len(rows') + 1
        BY <1>1, <1>4, <2>2
    <2> QED
        BY <1>1, <1>2, <2>1, <2>3 DEF PlaceInv, InCase
<1>8. LearnInv'
    BY <1>1 DEF ExperimentInv, LearnInv
<1>9. LateInv'
    BY <1>1, <1>2 DEF ExperimentInv, LateInv
<1> QED
    BY <1>6, <1>7, <1>8, <1>9 DEF ExperimentInv

\* The experiment ends, with the summary it had or with the new one.
LEMMA ReturnLeaves ==
    ASSUME ExperimentInv, Return
    PROVE  \E f \in BOOLEAN : /\ disk' \in {disk, [rows |-> rows, finished |-> f]}
                              /\ f => Len(rows) = Len(Schedule)
                              /\ f = disk.finished \/ f
<1>1. pc = "loop"
    BY DEF Return
<1>2. /\ finished = disk.finished /\ Len(disk.rows) = Len(rows) /\ finished \in BOOLEAN
      /\ (disk.finished => Len(disk.rows) = Len(Schedule))
    BY <1>1 DEF ExperimentInv, PlaceInv, TypeInv
<1>3. CASE disk' \in {disk, [rows |-> rows, finished |-> finished]}
    BY <1>2, <1>3
<1>4. CASE at > Len(Schedule) /\ disk' \in {disk, [rows |-> rows, finished |-> TRUE]}
    <2>1. PICK n \in 0 .. Len(rows) : /\ at <= n => Len(rows) = n
                                      /\ at > n => at = Len(rows) + 1
        BY <1>1 DEF ExperimentInv, PlaceInv
    <2>2. Len(rows) \in Nat /\ Len(rows) <= Len(Schedule) /\ at \in Nat /\ Len(Schedule) \in Nat
        BY RowPositions, ScheduleIsList DEF ExperimentInv, TypeInv, PlaceInv, InOrder
    <2>3. Len(rows) = Len(Schedule)
        BY <1>4, <2>1, <2>2
    <2> QED
        BY <1>4, <2>3
<1> QED
    BY <1>3, <1>4 DEF Return, PersistOrFail

\* The run returns, finished or not.
LEMMA ReturnInv == ASSUME ExperimentInv, Return PROVE ExperimentInv'
<1>1. Stopped /\ starts' = starts /\ pc # "stopped"
    BY DEF Return
<1>2. PICK f \in BOOLEAN : /\ disk' \in {disk, [rows |-> rows, finished |-> f]}
                           /\ f => Len(rows) = Len(Schedule)
    BY ReturnLeaves
<1>3. SummaryOK([rows |-> rows, finished |-> f]) /\ SummaryOK(disk)
    BY <1>1, <1>2, DiskOK, MemoryOK
<1>4. SummaryOK(disk')
    BY <1>2, <1>3
<1> QED
    BY <1>1, <1>4, StoppedInv

\* The run ends with an error, before or after the summary was replaced.
LEMMA PersistFailsInv == ASSUME ExperimentInv, PersistFails PROVE ExperimentInv'
<1>1. /\ Stopped /\ starts' = starts /\ pc = "persist"
      /\ disk' \in {disk, [rows |-> rows, finished |-> finished]}
    BY DEF PersistFails, PersistOrFail
<1>2. finished \in BOOLEAN /\ ~ finished
    <2>1. /\ finished = disk.finished /\ Len(disk.rows) = Len(rows) - 1 /\ finished \in BOOLEAN
          /\ (disk.finished => Len(disk.rows) = Len(Schedule))
          /\ Len(rows) <= Len(Schedule)
        BY <1>1 DEF ExperimentInv, PlaceInv, TypeInv, InOrder
    <2>2. Len(rows) \in Nat /\ Len(Schedule) \in Nat
        BY RowPositions, ScheduleIsList DEF ExperimentInv, TypeInv
    <2> QED
        BY <2>1, <2>2
<1>3. SummaryOK([rows |-> rows, finished |-> finished]) /\ SummaryOK(disk)
    BY <1>1, <1>2, DiskOK, MemoryOK
<1>4. SummaryOK(disk')
    BY <1>1, <1>3
<1> QED
    BY <1>1, <1>4, StoppedInv

\* The invariant is inductive.
LEMMA NextInv == ExperimentInv /\ [Next]_vars => ExperimentInv'
<1> SUFFICES ASSUME ExperimentInv, [Next]_vars PROVE ExperimentInv'
    OBVIOUS
<1>1. CASE Start
    BY <1>1, StartInv
<1>2. CASE Crash
    BY <1>2, CrashInv
<1>3. CASE RunEnds
    BY <1>3, RunEndsInv
<1>4. CASE CaseEnds
    BY <1>4, CaseEndsInv
<1>5. CASE Skip
    BY <1>5, SkipInv
<1>6. CASE StartCase
    BY <1>6, StartCaseInv
<1>7. CASE Return
    BY <1>7, ReturnInv
<1>8. CASE RunCold
    BY <1>8, RunColdInv
<1>9. CASE RunWithMemory
    BY <1>9, RunWithMemoryInv
<1>10. CASE RunMisleading
    BY <1>10, RunMisleadingInv
<1>11. CASE Persisted
    BY <1>11, PersistedInv
<1>12. CASE PersistFails
    BY <1>12, PersistFailsInv
<1>13. CASE AtRest \/ UNCHANGED vars
    BY <1>13 DEF AtRest, vars, ExperimentInv, TypeInv, PlaceInv, LearnInv, LateInv
<1> QED
    BY <1>1, <1>2, <1>3, <1>4, <1>5, <1>6, <1>7, <1>8, <1>9, <1>10, <1>11, <1>12, <1>13 DEF Next

\* It holds in every state of every behaviour.
LEMMA Invariance == Spec => []ExperimentInv
<1> QED
    BY InitInv, NextInv, PTL DEF Spec

-----------------------------------------------------------------------------
(***************************************************************************)
(* The theorems.                                                           *)
(***************************************************************************)

\* The run and its stores stay well formed: the loops stay in the schedule, and
\* neither store holds an identifier twice, also when patterns are consolidated
\* from episodes or the stores are restored from the rows.
THEOREM RunTypeOK == Spec => []TypeOK
<1>1. ExperimentInv => TypeOK
    <2> SUFFICES ASSUME ExperimentInv PROVE TypeOK
        OBVIOUS
    <2>1. Len(rows) \in Nat /\ DOMAIN rows = 1 .. Len(rows) /\ \A i \in DOMAIN rows : rows[i] \in Rows
        BY RowPositions DEF ExperimentInv, TypeInv
    <2>2. Pairs(rows) \in Seq(Range(Schedule))
        <3>1. Pairs(rows) \in [1 .. Len(rows) -> Range(Schedule)]
            BY <2>1, RowShape DEF Pairs
        <3> QED
            BY <2>1, <3>1, SeqDef
    <2>3. at \in 1 .. Len(Schedule) + 1
        <3>1. at \in Nat /\ at # 0 /\ Len(rows) <= Len(Schedule) /\ Len(Schedule) \in Nat
            BY ScheduleIsList DEF ExperimentInv, TypeInv, PlaceInv, InOrder
        <3>2. at <= Len(rows) + 1
            <4>1. CASE pc = "stopped"
                BY <2>1, <4>1 DEF ExperimentInv, PlaceInv
            <4>2. CASE pc # "stopped"
                <5>1. PICK n \in 0 .. Len(rows) :
                          at > n => at = IF pc = "persist" THEN Len(rows) ELSE Len(rows) + 1
                    BY <4>2 DEF ExperimentInv, PlaceInv
                <5>2. CASE at <= n
                    BY <2>1, <3>1, <5>2
                <5>3. CASE ~ (at <= n)
                    <6>1. n \in Nat
                        BY <2>1
                    <6>2. at > n
                        BY <3>1, <5>3, <6>1
                    <6>3. at = Len(rows) \/ at = Len(rows) + 1
                        BY <5>1, <6>2
                    <6> QED
                        BY <2>1, <6>3
                <5> QED
                    BY <5>2, <5>3
            <4> QED
                BY <4>1, <4>2
        <3> QED
            BY <2>1, <3>1, <3>2
    <2> QED
        BY <2>2, <2>3 DEF ExperimentInv, TypeInv, LearnInv, InCase, TypeOK
<1> QED
    BY <1>1, Invariance, PTL

\* Nothing a misleading run left reaches the useful store, neither as an episode
\* nor as the contributor of a pattern, in one process or over restarts.
THEOREM ConditionsStayIsolated == Spec => []ConditionsAreIsolated
<1>1. ExperimentInv => ConditionsAreIsolated
    <2> SUFFICES ASSUME ExperimentInv, NEW i \in DOMAIN useful
                 PROVE  /\ useful[i].id \notin RunIds("misleading")
                        /\ useful[i].from \cap RunIds("misleading") = {}
        BY DEF ConditionsAreIsolated
    <2>1. useful[i] \in Known(rows) /\ rows \in Seq(Rows)
        BY RowPositions DEF ExperimentInv, TypeInv
    <2>2. PICK k \in DOMAIN rows : useful[i] \in LessonsOf(rows[k].pair)
        BY <2>1 DEF Known
    <2>3. CASE useful[i] \in EpisodesOf(rows[k].pair, "memory")
        BY <2>3, EpisodeShape DEF RunIds
    <2>4. CASE useful[i] \in Patterns
        <3>1. /\ useful[i].id = <<Category, useful[i].from>>
              /\ useful[i].from \subseteq SeedIds \cup RunIds("memory")
            BY <2>4, PatternShape
        <3>2. SeedIds \cap RunIds("misleading") = {} /\ RunIds("memory") \cap RunIds("misleading") = {}
            BY MemoryExperimentAssumption DEF Conditions, RunIds
        <3>3. Category \notin Range(Schedule)
            BY MemoryExperimentAssumption
        <3>4. useful[i].id \notin RunIds("misleading")
            BY <3>1, <3>3 DEF RunIds
        <3> QED
            BY <3>1, <3>2, <3>4
    <2> QED
        BY <2>2, <2>3, <2>4 DEF LessonsOf
<1> QED
    BY <1>1, Invariance, PTL

\* A resumed experiment goes on with the memory the interrupted one had.
THEOREM RowsRestoreTheMemory == Spec => []RowsTellTheMemory
<1>1. ExperimentInv => RowsTellTheMemory
    BY DEF ExperimentInv, LearnInv, RowsTellTheMemory
<1> QED
    BY <1>1, Invariance, PTL

\* An interrupted case is recorded, and no case of its start after it.
THEOREM InterruptionsAreLast == Spec => []InterruptedIsLast
<1>1. ExperimentInv => InterruptedIsLast
    BY DEF ExperimentInv, LateInv, LastOfStart, InterruptedIsLast
<1> QED
    BY <1>1, Invariance, PTL

\* Two summaries with as many rows, and one with a row more.
LEMMA PairsInOrder ==
    ASSUME NEW rs \in Seq(Rows), NEW ts \in Seq(Rows), InOrder(rs), InOrder(ts)
    PROVE  /\ Len(Pairs(rs)) = Len(rs)
           /\ Len(ts) = Len(rs) => Pairs(ts) = Pairs(rs)
           /\ Len(ts) = Len(rs) + 1 => Pairs(ts) = Append(Pairs(rs), Schedule[Len(rs) + 1])
<1>1. /\ Len(rs) \in Nat /\ DOMAIN rs = 1 .. Len(rs) /\ \A i \in DOMAIN rs : rs[i] \in Rows
      /\ Len(ts) \in Nat /\ DOMAIN ts = 1 .. Len(ts)
    BY RowPositions
<1>2. /\ Pairs(rs) = [i \in 1 .. Len(rs) |-> Schedule[i]]
      /\ Pairs(ts) = [i \in 1 .. Len(ts) |-> Schedule[i]]
    BY <1>1 DEF Pairs, InOrder
<1>3. Pairs(rs) \in Seq(Range(Schedule)) /\ Len(Pairs(rs)) = Len(rs)
    <2>1. Pairs(rs) \in [1 .. Len(rs) -> Range(Schedule)]
        BY <1>1, RowShape DEF Pairs
    <2> QED
        BY <1>1, <2>1, SeqDef
<1>4. ASSUME Len(ts) = Len(rs) + 1
      PROVE  Pairs(ts) = Append(Pairs(rs), Schedule[Len(rs) + 1])
    <2> DEFINE p == Pairs(rs)
               x == Schedule[Len(rs) + 1]
               q == Append(p, x)
    <2>1. x \in Range(Schedule)
        BY <1>1, <1>4, ScheduleIsList DEF InOrder
    <2>2. /\ q \in Seq(Range(Schedule)) /\ Len(q) = Len(rs) + 1 /\ q[Len(rs) + 1] = x
          /\ \A i \in 1 .. Len(rs) : q[i] = p[i]
        <3> HIDE DEF p, x
        <3> QED
            BY <1>3, <2>1, AppendProperties DEF p
    <2>3. \A i \in 1 .. Len(rs) : p[i] = Schedule[i]
        BY <1>2
    <2>4. \A i \in 1 .. Len(rs) + 1 : i \in 1 .. Len(rs) \/ i = Len(rs) + 1
        BY <1>1
    <2> HIDE DEF p, q
    <2>5. q = [i \in 1 .. Len(rs) + 1 |-> q[i]]
        BY <2>2, LenProperties
    <2>6. \A i \in 1 .. Len(rs) + 1 : q[i] = Schedule[i]
        BY <2>2, <2>3, <2>4
    <2>7. q = [i \in 1 .. Len(rs) + 1 |-> Schedule[i]]
        BY <2>5, <2>6
    <2> QED
        BY <1>2, <1>4, <2>7 DEF q, p
<1> QED
    BY <1>2, <1>3, <1>4

\* A step of the experiment is one of the ledger, or leaves it alone.
LEMMA LedgerStep ==
    ASSUME ExperimentInv, ExperimentInv', [Next]_vars
    PROVE  [Ledger!Next]_(Ledger!ledgerVars)
<1> DEFINE Same == Pairs(disk'.rows) = Pairs(disk.rows) /\ disk'.finished = disk.finished
<1>1. /\ disk.rows \in Seq(Rows) /\ disk'.rows \in Seq(Rows) /\ rows \in Seq(Rows)
      /\ InOrder(disk.rows) /\ InOrder(disk'.rows) /\ InOrder(rows)
      /\ Len(rows) \in Nat /\ Len(disk.rows) \in Nat /\ Len(Schedule) \in Nat
      /\ Len(rows) <= Len(Schedule)
    BY RowPositions, ScheduleIsList DEF ExperimentInv, TypeInv, PlaceInv, InOrder
<1>2. Len(Pairs(disk.rows)) = Len(disk.rows)
    BY <1>1, PairsInOrder
<1>3. ASSUME Same PROVE [Ledger!Next]_(Ledger!ledgerVars)
    BY <1>3 DEF Ledger!ledgerVars
<1>4. ASSUME pc = "persist", disk' = [rows |-> rows, finished |-> finished]
      PROVE  Ledger!Next
    <2>1. finished = disk.finished /\ Len(disk.rows) = Len(rows) - 1
        BY <1>4 DEF ExperimentInv, PlaceInv
    <2>2. disk'.rows = rows /\ disk'.finished = disk.finished
        BY <1>4, <2>1
    <2>3. Pairs(disk'.rows) = Append(Pairs(disk.rows), Schedule[Len(Pairs(disk.rows)) + 1])
        BY <1>1, <1>2, <2>1, <2>2, PairsInOrder
    <2>4. Len(Pairs(disk.rows)) < Len(Schedule)
        BY <1>1, <1>2, <2>1
    <2> QED
        BY <2>2, <2>3, <2>4 DEF Ledger!Next, Ledger!Record
<1>5. CASE Return
    <2>1. PICK f \in BOOLEAN : /\ disk' \in {disk, [rows |-> rows, finished |-> f]}
                               /\ f => Len(rows) = Len(Schedule)
                               /\ f = disk.finished \/ f
        BY <1>5, ReturnLeaves
    <2>2. Len(disk.rows) = Len(rows)
        BY <1>5 DEF Return, ExperimentInv, PlaceInv
    <2>3. CASE disk' = disk
        BY <1>3, <2>3
    <2>4. CASE disk' = [rows |-> rows, finished |-> f]
        <3>1. disk'.rows = rows /\ disk'.finished = f
            BY <2>4
        <3>2. Pairs(disk'.rows) = Pairs(disk.rows)
            BY <1>1, <2>2, <3>1, PairsInOrder
        <3>3. CASE f = disk.finished
            BY <1>3, <3>1, <3>2, <3>3
        <3>4. CASE f
            <4>1. Len(Pairs(disk.rows)) = Len(Schedule)
                BY <1>2, <2>1, <2>2, <3>4
            <4>2. disk'.finished = TRUE
                BY <3>1, <3>4
            <4> QED
                BY <3>2, <4>1, <4>2 DEF Ledger!Next, Ledger!Finish
        <3> QED
            BY <2>1, <3>3, <3>4
    <2> QED
        BY <2>1, <2>3, <2>4
<1>6. CASE Persisted
    BY <1>4, <1>6 DEF Persisted
<1>7. CASE PersistFails
    BY <1>3, <1>4, <1>7 DEF PersistFails, PersistOrFail
<1>8. CASE disk' = disk
    BY <1>3, <1>8
<1>9. Return \/ Persisted \/ PersistFails \/ disk' = disk
    BY DEF Next, Start, Crash, RunEnds, CaseEnds, Skip, StartCase, RunCold, RunWithMemory,
           RunMisleading, AtRest, vars
<1> QED
    BY <1>5, <1>6, <1>7, <1>8, <1>9

\* Every behaviour of the memory experiment is one of the ledger: pairs are
\* recorded in schedule order and once, none is taken back, and the experiment
\* is finished when it has them all.
THEOREM ExperimentImplementsLedger == Spec => ImplementsLedger
<1>1. Init => Ledger!Init
    <2>1. Pairs(<<>>) = <<>>
        BY NoRows DEF Pairs
    <2> QED
        BY <2>1 DEF Init, Empty, Ledger!Init
<1>2. ExperimentInv /\ ExperimentInv' /\ [Next]_vars => [Ledger!Next]_(Ledger!ledgerVars)
    BY LedgerStep
<1> QED
    BY <1>1, <1>2, Invariance, PTL DEF Spec, ImplementsLedger, Ledger!Spec

-----------------------------------------------------------------------------
(***************************************************************************)
(* The pull of a gravity well.  Weight folds a set by a recursive          *)
(* function, of which there is one: it counts the positions whose record   *)
(* is of a run.                                                            *)
(***************************************************************************)

\* The function by which Weight is defined.
IsWeighing(f, store, S) ==
    f = [s \in SUBSET S |->
            IF s = {} THEN 0
            ELSE Evidence(store[CHOOSE x \in s : TRUE]) + f[s \ {CHOOSE x \in s : TRUE}]]

\* The positions of a set at which the record of a run stands.
OfRuns(store, s) == {i \in s : Recorded(store[i])}

\* Weight is a value of that function.
LEMMA WeightUnfolds ==
    ASSUME NEW store, NEW S
    PROVE  Search!Weight(store, S) = (CHOOSE f : IsWeighing(f, store, S))[S]
BY DEF Search!Weight, Search!MapThenSumSet, Search!MapThenFoldSet, IsWeighing

\* A position more counts if the record of a run stands there.
LEMMA OfRunsGrows ==
    ASSUME NEW store, NEW s, IsFiniteSet(s), NEW x \in s
    PROVE  Cardinality(OfRuns(store, s)) =
               Evidence(store[x]) + Cardinality(OfRuns(store, s \ {x}))
<1> DEFINE all == OfRuns(store, s)
           rest == OfRuns(store, s \ {x})
<1>1. IsFiniteSet(all) /\ IsFiniteSet(rest)
    <2>1. all \subseteq s /\ rest \subseteq s
        BY DEF OfRuns
    <2> HIDE DEF all, rest
    <2> QED
        BY <2>1, FS_Subset
<1>2. Cardinality(rest) \in Nat
    BY <1>1, FS_CardinalityType
<1>3. CASE Recorded(store[x])
    <2>1. all = rest \cup {x} /\ x \notin rest
        BY <1>3 DEF OfRuns
    <2> HIDE DEF all, rest
    <2>2. Cardinality(all) = Cardinality(rest) + 1
        BY <1>1, <2>1, FS_AddElement
    <2>3. Evidence(store[x]) = 1
        BY <1>3 DEF Evidence
    <2> QED
        BY <1>2, <2>2, <2>3 DEF all, rest
<1>4. CASE ~ Recorded(store[x])
    <2>1. all = rest
        BY <1>4 DEF OfRuns
    <2>2. Evidence(store[x]) = 0
        BY <1>4 DEF Evidence
    <2> HIDE DEF all, rest
    <2> QED
        BY <1>2, <2>1, <2>2 DEF all, rest
<1> QED
    BY <1>3, <1>4

\* The weight of a set of positions is the number of runs among them.
LEMMA Weighed ==
    ASSUME NEW store, NEW S, IsFiniteSet(S)
    PROVE  Search!Weight(store, S) = Cardinality(OfRuns(store, S))
<1> DEFINE g == [s \in SUBSET S |-> Cardinality(OfRuns(store, s))]
           f == CHOOSE h : IsWeighing(h, store, S)
           Chosen(s) == CHOOSE x \in s : TRUE
<1>1. \A s \in SUBSET S : IsFiniteSet(s)
    BY FS_Subset
<1>2. Cardinality(OfRuns(store, {})) = 0
    <2>1. OfRuns(store, {}) = {}
        BY DEF OfRuns
    <2> QED
        BY <2>1, FS_EmptySet
<1>3. \A s \in SUBSET S : s # {} =>
          /\ Chosen(s) \in s /\ s \ {Chosen(s)} \in SUBSET S
          /\ g[s] = Evidence(store[Chosen(s)]) + g[s \ {Chosen(s)}]
    <2> SUFFICES ASSUME NEW s \in SUBSET S, s # {}
                 PROVE  /\ Chosen(s) \in s /\ s \ {Chosen(s)} \in SUBSET S
                        /\ g[s] = Evidence(store[Chosen(s)]) + g[s \ {Chosen(s)}]
        OBVIOUS
    <2>1. Chosen(s) \in s
        OBVIOUS
    <2> HIDE DEF Chosen
    <2>2. s \ {Chosen(s)} \in SUBSET S
        OBVIOUS
    <2>3. Cardinality(OfRuns(store, s)) =
              Evidence(store[Chosen(s)]) + Cardinality(OfRuns(store, s \ {Chosen(s)}))
        BY <1>1, <2>1, OfRunsGrows
    <2> QED
        BY <2>1, <2>2, <2>3
<1>4. IsWeighing(g, store, S)
    <2>1. g = [s \in SUBSET S |-> g[s]]
        OBVIOUS
    <2>2. g[{}] = 0
        BY <1>2
    <2> HIDE DEF g
    <2>3. \A s \in SUBSET S :
              g[s] = IF s = {} THEN 0 ELSE Evidence(store[Chosen(s)]) + g[s \ {Chosen(s)}]
        BY <1>3, <2>2
    <2> QED
        BY <2>1, <2>3 DEF IsWeighing
<1>5. IsWeighing(f, store, S)
    BY <1>4
<1> HIDE DEF f
<1>6. \A s \in SUBSET S :
          f[s] = IF s = {} THEN 0 ELSE Evidence(store[Chosen(s)]) + f[s \ {Chosen(s)}]
    BY <1>5 DEF IsWeighing
<1> DEFINE T == {n \in Nat : \A s \in SUBSET S : Cardinality(s) = n => f[s] = g[s]}
<1> HIDE DEF Chosen, g
<1>7. 0 \in T
    <2> SUFFICES ASSUME NEW s \in SUBSET S, Cardinality(s) = 0 PROVE f[s] = g[s]
        OBVIOUS
    <2>1. s = {}
        BY <1>1, FS_EmptySet
    <2> QED
        BY <1>2, <1>6, <2>1 DEF g
<1>8. ASSUME NEW n \in Nat, n \in T PROVE n + 1 \in T
    <2> SUFFICES ASSUME NEW s \in SUBSET S, Cardinality(s) = n + 1 PROVE f[s] = g[s]
        OBVIOUS
    <2>1. s # {}
        BY FS_EmptySet
    <2>2. Cardinality(s \ {Chosen(s)}) = n
        <3>1. Chosen(s) \in s /\ IsFiniteSet(s)
            BY <1>1, <1>3, <2>1
        <3>2. Cardinality(s \ {Chosen(s)}) = Cardinality(s) - 1
            BY <3>1, FS_RemoveElement
        <3> QED
            BY <3>2
    <2>3. f[s \ {Chosen(s)}] = g[s \ {Chosen(s)}]
        BY <1>3, <1>8, <2>1, <2>2
    <2> QED
        BY <1>3, <1>6, <2>1, <2>3
<1>9. Cardinality(S) \in T
    <2> HIDE DEF T
    <2> QED
        BY <1>7, <1>8, FS_CardinalityType, SetInduction
<1>10. f[S] = g[S]
    BY <1>9
<1> QED
    BY <1>10, WeightUnfolds DEF f, g

\* What the search may see is a list of records of the store.
LEMMA EligibleList ==
    ASSUME NEW X, NEW store \in Seq(X), NEW evaluation
    PROVE  Search!EligibleRecords(store, evaluation) \in Seq(X)
<1> DEFINE lists == [i \in DOMAIN store |->
                        IF Search!Eligible(store[i], evaluation) THEN <<store[i]>> ELSE <<>>]
<1>1. Search!EligibleRecords(store, evaluation) = FlattenSeq(lists)
    BY DEF Search!EligibleRecords, Search!FlattenSeq, FlattenSeq
<1>2. Len(store) \in Nat /\ DOMAIN store = 1 .. Len(store) /\ \A i \in DOMAIN store : store[i] \in X
    BY RowPositions
<1>3. lists \in [1 .. Len(store) -> Seq(X)]
    BY <1>2, OneElement, EmptySeq
<1>4. CASE Len(store) = 0
    <2>1. store = <<>>
        BY <1>4, EmptySeq
    <2>2. lists = <<>>
        BY <2>1
    <2> HIDE DEF lists
    <2> QED
        BY <1>1, <2>2, NothingJoined, EmptySeq
<1>5. CASE Len(store) # 0
    <2> HIDE DEF lists
    <2> QED
        BY <1>1, <1>2, <1>3, <1>5, Joined
<1> QED
    BY <1>4, <1>5

\* A record that is of a run belongs to the correlation group of its case.
GroupedByCase(r) == Recorded(r) => r.group = CaseOf(r) /\ r.group # Missing

\* Of the records of one case one counts, so a well pulls no more than the
\* distinct cases do, whatever the list holds besides.
LEMMA PullOfCases ==
    ASSUME NEW X, NEW found \in Seq(X), \A i \in DOMAIN found : GroupedByCase(found[i])
    PROVE  Search!SupportingEvidence(found, Category) + Search!ContradictingEvidence(found, Category)
               <= Cardinality({CaseOf(found[i]) : i \in {j \in DOMAIN found : Recorded(found[j])}})
<1> DEFINE counted == Search!Counted(found, Category)
           for == {i \in counted : found[i].status = "supported" /\ ~ found[i].derived}
           against == {i \in counted : found[i].status \in {"contradicted", "stale"}}
           A == OfRuns(found, for)
           B == OfRuns(found, against)
           runs == {j \in DOMAIN found : Recorded(found[j])}
           cases == {CaseOf(found[i]) : i \in runs}
<1>1. IsFiniteSet(DOMAIN found) /\ DOMAIN found = 1 .. Len(found) /\ Len(found) \in Nat
    BY RowPositions, FS_Interval
<1>2. /\ counted \subseteq DOMAIN found
      /\ \A i, j \in counted : j < i => Search!Correlation(found[j]) # Search!Correlation(found[i])
    <2>1. counted \subseteq DOMAIN found
        BY DEF Search!Counted
    <2> SUFFICES ASSUME NEW i \in counted, NEW j \in counted, j < i
                 PROVE  Search!Correlation(found[j]) # Search!Correlation(found[i])
        BY <2>1
    <2>2. j \in 1 .. i - 1
        BY <1>1, <2>1
    <2> QED
        BY <2>2 DEF Search!Counted
<1> HIDE DEF counted
<1>3. /\ for \subseteq DOMAIN found /\ against \subseteq DOMAIN found
      /\ A \subseteq counted \cap runs /\ B \subseteq counted \cap runs /\ A \cap B = {}
    BY <1>2 DEF OfRuns
<1>4. /\ Search!SupportingEvidence(found, Category) = Cardinality(A)
      /\ Search!ContradictingEvidence(found, Category) = Cardinality(B)
    <2>1. IsFiniteSet(for) /\ IsFiniteSet(against)
        BY <1>1, <1>3, FS_Subset
    <2>2. /\ Search!SupportingEvidence(found, Category) = Search!Weight(found, for)
          /\ Search!ContradictingEvidence(found, Category) = Search!Weight(found, against)
        BY DEF Search!SupportingEvidence, Search!ContradictingEvidence, counted
    <2> HIDE DEF for, against
    <2> QED
        BY <2>1, <2>2, Weighed
<1>5. IsFiniteSet(A) /\ IsFiniteSet(B) /\ IsFiniteSet(A \cup B) /\ IsFiniteSet(runs)
    <2>1. A \subseteq DOMAIN found /\ B \subseteq DOMAIN found /\ A \cup B \subseteq DOMAIN found
          /\ runs \subseteq DOMAIN found
        BY <1>3
    <2> HIDE DEF A, B, runs
    <2> QED
        BY <1>1, <2>1, FS_Subset
<1>6. Cardinality(A) + Cardinality(B) = Cardinality(A \cup B)
    <2> HIDE DEF A, B
    <2>1. Cardinality(A \cup B) = Cardinality(A) + Cardinality(B) - Cardinality(A \cap B)
        BY <1>5, FS_Union
    <2>2. Cardinality(A \cap B) = 0
        <3>1. A \cap B = {}
            BY <1>3 DEF A, B
        <3> QED
            BY <3>1, FS_EmptySet
    <2>3. Cardinality(A) \in Nat /\ Cardinality(B) \in Nat
        BY <1>5, FS_CardinalityType
    <2> QED
        BY <2>1, <2>2, <2>3
<1>7. \A i \in runs : Search!Correlation(found[i]) = CaseOf(found[i])
    <2> SUFFICES ASSUME NEW i \in runs PROVE Search!Correlation(found[i]) = CaseOf(found[i])
        OBVIOUS
    <2>1. found[i].group = CaseOf(found[i]) /\ found[i].group # Missing
        BY DEF GroupedByCase
    <2> QED
        BY <2>1 DEF Search!Correlation
<1>8. \A i, j \in A \cup B : CaseOf(found[i]) = CaseOf(found[j]) => i = j
    <2> SUFFICES ASSUME NEW i \in A \cup B, NEW j \in A \cup B,
                        CaseOf(found[i]) = CaseOf(found[j])
                 PROVE  i = j
        OBVIOUS
    <2>1. i \in counted \cap runs /\ j \in counted \cap runs
        BY <1>3
    <2> HIDE DEF A, B
    <2>2. Search!Correlation(found[i]) = Search!Correlation(found[j])
        BY <1>7, <2>1
    <2>3. i \in Nat /\ j \in Nat
        BY <1>1, <2>1
    <2> QED
        BY <1>2, <2>1, <2>2, <2>3
<1>9. IsFiniteSet(cases)
    <2> DEFINE h == [i \in runs |-> CaseOf(found[i])]
    <2> HIDE DEF runs
    <2>1. h \in [runs -> cases] /\ \A c \in cases : \E i \in runs : h[i] = c
        OBVIOUS
    <2>2. h \in Surjection(runs, cases)
        BY <2>1 DEF Surjection
    <2> HIDE DEF h, cases
    <2> QED
        BY <1>5, <2>2, FS_Surjection
<1>10. Cardinality(A \cup B) <= Cardinality(cases)
    <2> DEFINE h == [i \in A \cup B |-> CaseOf(found[i])]
    <2>1. A \cup B \subseteq runs
        BY <1>3
    <2> HIDE DEF A, B, runs
    <2>2. h \in [A \cup B -> cases]
        BY <2>1
    <2>3. IsInjective(h)
        BY <1>8 DEF IsInjective
    <2>4. h \in Injection(A \cup B, cases)
        BY <2>2, <2>3 DEF Injection
    <2> HIDE DEF h, cases
    <2> QED
        BY <1>9, <2>4, FS_Injection
<1> QED
    BY <1>4, <1>6, <1>10

\* What the stores of a case may hold.
Held == Known(rows) \cup KnownMisled(rows) \cup SeedsOf(Case)

\* A case that is asked is one of the dataset.
LEMMA CaseOfDataset == ASSUME at \in DOMAIN Schedule PROVE Case \in DOMAIN Exposure
<1>1. Schedule \in Seq((DOMAIN Exposure) \X Nat)
    BY MemoryExperimentAssumption
<1>2. Schedule[at] \in (DOMAIN Exposure) \X Nat
    BY <1>1, RowPositions
<1> QED
    BY <1>2 DEF Case

\* Every episode is filed under its case; no pattern and no seed is of a run.
LEMMA HeldGrouped ==
    ASSUME ExperimentInv, at \in DOMAIN Schedule, NEW r \in Held
    PROVE  GroupedByCase(r)
<1>1. ASSUME NEW pair \in Range(Schedule), NEW condition, r \in EpisodesOf(pair, condition)
      PROVE  GroupedByCase(r)
    <2>1. r.id = <<pair, condition>> /\ r.group = pair[1]
        BY <1>1 DEF EpisodesOf, EpisodeRecord, Store!Episode
    <2>2. pair[1] \in DOMAIN Exposure
        <3>1. Schedule \in Seq((DOMAIN Exposure) \X Nat)
            BY MemoryExperimentAssumption
        <3>2. PICK i \in DOMAIN Schedule : pair = Schedule[i]
            BY DEF Range
        <3>3. pair \in (DOMAIN Exposure) \X Nat
            BY <3>1, <3>2, RowPositions
        <3> QED
            BY <3>3
    <2>3. r.group # Missing
        BY <2>1, <2>2, MemoryExperimentAssumption
    <2>4. Recorded(r) => CaseOf(r) = pair[1]
        BY <2>1 DEF CaseOf
    <2> QED
        BY <2>1, <2>3, <2>4 DEF GroupedByCase
<1>2. ASSUME r \in Patterns PROVE GroupedByCase(r)
    <2> SUFFICES ASSUME NEW c \in Conditions, r.id \in RunIds(c) PROVE FALSE
        BY DEF GroupedByCase, Recorded
    <2>1. PICK pair \in Range(Schedule) : r.id = <<pair, c>>
        BY DEF RunIds
    <2> QED
        BY <1>2, <2>1, KindsOfIds
<1>3. ASSUME r \in SeedsOf(Case) PROVE GroupedByCase(r)
    <2>1. r.id \in SeedIds
        BY <1>3, CaseOfDataset DEF SeedIds
    <2>2. ~ Recorded(r)
        BY <2>1, MemoryExperimentAssumption DEF Recorded
    <2> QED
        BY <2>2 DEF GroupedByCase
<1>4. \A i \in DOMAIN rows : rows[i].pair \in Range(Schedule)
    BY RowPositions, RowShape DEF ExperimentInv, TypeInv
<1>5. CASE r \in Known(rows)
    <2>1. PICK i \in DOMAIN rows : r \in LessonsOf(rows[i].pair)
        BY <1>5 DEF Known
    <2> QED
        BY <1>1, <1>2, <1>4, <2>1 DEF LessonsOf
<1>6. CASE r \in KnownMisled(rows)
    <2>1. PICK i \in DOMAIN rows : r \in EpisodesOf(rows[i].pair, "misleading")
        BY <1>6 DEF KnownMisled
    <2> QED
        BY <1>1, <1>4, <2>1
<1> QED
    BY <1>3, <1>5, <1>6 DEF Held

\* Both stores are lists of what a case's stores may hold.
LEMMA StoresHeld ==
    ASSUME ExperimentInv, at \in DOMAIN Schedule
    PROVE  MemoryStoreOf \in Seq(Held) /\ MisleadingStoreOf \in Seq(Held)
<1>1. useful \in Seq(Held) /\ misleading \in Seq(Held)
    <2>1. Known(rows) \subseteq Held /\ KnownMisled(rows) \subseteq Held
        BY DEF Held
    <2> QED
        BY <2>1, SeqGrows DEF ExperimentInv, TypeInv
<1>2. Exposure[Case] \in Seq(Held) /\ Misleading[Case] \in Seq(Held)
    <2>1. {Exposure[Case], Misleading[Case]} \subseteq Seq(SeedsOf(Case))
        BY CaseOfDataset, MemoryExperimentAssumption
    <2>2. SeedsOf(Case) \subseteq Held
        BY DEF Held
    <2> QED
        BY <2>1, <2>2, SeqGrows
<1>3. Exposure[Case] \o Misleading[Case] \in Seq(Held)
    BY <1>2, ConcatProperties
<1>4. \A seeds, learned \in Seq(Held) : SeededWith(seeds, learned) \in Seq(Held)
    BY ConcatProperties DEF SeededWith
<1> QED
    BY <1>1, <1>2, <1>3, <1>4 DEF MemoryStoreOf, MisleadingStoreOf

\* A store that holds no more than that pulls no more than its cases.
LEMMA HeldIsBounded ==
    ASSUME ExperimentInv, at \in DOMAIN Schedule, NEW store \in Seq(Held)
    PROVE  PullIsBounded(store)
<1> DEFINE found == Search!EligibleRecords(store, EvaluationID[Case])
<1>1. found \in Seq(Held)
    BY EligibleList
<1> HIDE DEF found
<1>2. \A i \in DOMAIN found : GroupedByCase(found[i])
    BY <1>1, HeldGrouped, RowPositions
<1>3. Search!SupportingEvidence(found, Category) + Search!ContradictingEvidence(found, Category)
          <= Cardinality({CaseOf(found[i]) : i \in {j \in DOMAIN found : Recorded(found[j])}})
    BY <1>1, <1>2, PullOfCases
<1> QED
    BY <1>3 DEF PullIsBounded, found

\* Asking a case again adds nothing to the pull of a gravity well, however often
\* cases are asked, by which condition, and whatever is stopped and resumed
\* (BuildGravityWells over what Retrieve may see).
THEOREM RepetitionsAddNothing == Spec => []RepetitionIsNotEvidence
<1>1. ExperimentInv => RepetitionIsNotEvidence
    <2> SUFFICES ASSUME ExperimentInv, pc \in {"memory", "misleading"}
                 PROVE  PullIsBounded(MemoryStoreOf) /\ PullIsBounded(MisleadingStoreOf)
        BY DEF RepetitionIsNotEvidence
    <2>1. at \in DOMAIN Schedule
        <3>1. at <= Len(Schedule) /\ at \in Nat /\ at # 0
            BY DEF ExperimentInv, PlaceInv, TypeInv, InCase
        <3> QED
            BY <3>1, ScheduleIsList
    <2> QED
        BY <2>1, StoresHeld, HeldIsBounded
<1> QED
    BY <1>1, Invariance, PTL
=============================================================================
