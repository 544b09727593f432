---------------------- MODULE TrainingRecords_proofs ----------------------
(***************************************************************************)
(* For any runs, problems, traces and thresholds: what is eligible for     *)
(* training was found SUPPORTED as often as its tier asks for, a candidate *)
(* of the loop says what the memory says, and a manifest vouches for a     *)
(* whole file.                                                             *)
(*                                                                         *)
(* A command reads any files in any order, so what it writes is as good as *)
(* the worst line it may be given: FileInv says of every line of every file*)
(* that it is told apart by its run and input, and that one which asks for *)
(* training is that of a run that selected and verified it.  Commands keep *)
(* it because joining files adds no line (Joined), and runs because a file *)
(* of candidates is never written again (VerifiedGrows).                   *)
(***************************************************************************)
EXTENDS TrainingRecords, FiniteSetTheorems, SequenceTheorems, WellFoundedInduction, TLAPS

AllFiles == Runs \cup {Promotions, LoopRun}

\* VerifiedRuns, of any state of the files.
VerifiedIn(fs, problem) ==
    {run \in Runs : \E i \in DOMAIN fs[run] :
        fs[run][i].input = problem /\ Verified(fs[run][i])}

IsList(s) == s \in Seq(Range(s))

\* A line says whose it is, and one that asks for training is verified.
Vouched(fs, c) ==
    /\ c.id[1] = c.run
    /\ c.id[3] = c.input
    /\ c.target = "W1_CANDIDATE" => c.run \in VerifiedIn(fs, c.input)

FilesSound(fs, cs) ==
    /\ DOMAIN fs = Runs \cup {Promotions}
    /\ \A path \in DOMAIN fs : /\ IsList(fs[path])
                               /\ \A i \in DOMAIN fs[path] : Vouched(fs, fs[path][i])
    /\ IsList(cs)
    /\ \A i \in DOMAIN cs : Vouched(fs, cs[i])

FileInv == FilesSound(files, candidates)

\* A promotion is as the property says it is.
Reconfirmed(fs, p) ==
    /\ Cardinality(VerifiedIn(fs, p.input)) >= Threshold
    /\ p.count = Cardinality({id[1] : id \in p.from})
    /\ \A id \in p.from : id[1] \in VerifiedIn(fs, p.input)

\* EligibleIsVerified, of any state of the files.
Eligible(fs, ds) ==
    /\ \A i \in DOMAIN fs[Promotions] : Reconfirmed(fs, fs[Promotions][i])
    /\ \A id \in ds : id[1] \in VerifiedIn(fs, id[3])

\* The memory is a list too, and the export a file with its manifest.
LoopInv == IsList(observed) /\ CandidateTellsItsObservation

ExportShape == export \in [lines : {export.lines}, manifest : {export.manifest}]

RecordsInv == FileInv /\ Eligible(files, dataset) /\ LoopInv /\ ExportShape

-----------------------------------------------------------------------------
(***************************************************************************)
(* Lists joined: induction over their number, by the least number for      *)
(* which a statement would fail.                                           *)
(***************************************************************************)

LEMMA LessThanWellFounded == IsWellFoundedOn({ss \in Nat \X Nat : ss[1] < ss[2]}, Nat)
BY NatLessThanWellFounded DEF OpToRel

\* A set that holds zero and with each number the next one holds them all.
LEMMA SetInduction ==
    ASSUME NEW T, 0 \in T, \A n \in Nat : n \in T => n + 1 \in T
    PROVE  Nat \subseteq T
<1> DEFINE U == Nat \ T
           R == {ss \in Nat \X Nat : ss[1] < ss[2]}
<1>1. SUFFICES ASSUME U # {} PROVE FALSE
    OBVIOUS
<1>2. PICK x \in U : \A y \in U : ~ (<<y, x>> \in R)
    <2>1. U \subseteq Nat
        OBVIOUS
    <2> HIDE DEF U
    <2> QED
        BY <1>1, <2>1, LessThanWellFounded, WFMin
<1>3. x \in Nat /\ x # 0
    OBVIOUS
<1>4. x - 1 \in Nat /\ (x - 1) + 1 = x /\ x - 1 < x
    BY <1>3
<1>5. x - 1 \in T
    BY <1>2, <1>3, <1>4
<1> QED
    BY <1>3, <1>4, <1>5

\* What FlattenSeq joins up to each of the lists.
IsFlattening(f, seqs, n) ==
    f = [i \in 1 .. n |-> IF i = 1 THEN seqs[i] ELSE f[i - 1] \o seqs[i]]

LEMMA FlatteningExists ==
    ASSUME NEW seqs, NEW n \in Nat
    PROVE  \E f : IsFlattening(f, seqs, n)
<1> DEFINE T == {m \in Nat : \E f : IsFlattening(f, seqs, m)}
<1>1. 0 \in T
    <2> DEFINE f == [i \in 1 .. 0 |-> seqs[i]]
    <2>1. IsFlattening(f, seqs, 0)
        BY DEF IsFlattening
    <2> QED
        BY <2>1
<1>2. ASSUME NEW m \in Nat, m \in T PROVE m + 1 \in T
    <2>1. PICK f : IsFlattening(f, seqs, m)
        BY <1>2
    <2> DEFINE g == [i \in 1 .. m + 1 |-> IF i <= m THEN f[i]
                                          ELSE IF i = 1 THEN seqs[i] ELSE f[i - 1] \o seqs[i]]
    <2>2. \A i \in 1 .. m + 1 : g[i] = IF i = 1 THEN seqs[i] ELSE g[i - 1] \o seqs[i]
        <3> SUFFICES ASSUME NEW i \in 1 .. m + 1
                     PROVE  g[i] = IF i = 1 THEN seqs[i] ELSE g[i - 1] \o seqs[i]
            OBVIOUS
        <3>1. i # 1 => i - 1 \in 1 .. m + 1 /\ i - 1 <= m
            OBVIOUS
        <3>2. i # 1 => g[i - 1] = f[i - 1]
            BY <3>1
        <3>3. g[i] = IF i = 1 THEN seqs[i] ELSE f[i - 1] \o seqs[i]
            <4>1. CASE i <= m
                <5>1. i \in 1 .. m
                    BY <4>1
                <5>2. f[i] = IF i = 1 THEN seqs[i] ELSE f[i - 1] \o seqs[i]
                    BY <2>1, <5>1 DEF IsFlattening
                <5> QED
                    BY <4>1, <5>2
            <4>2. CASE ~ (i <= m)
                BY <4>2
            <4> QED
                BY <4>1, <4>2
        <3> HIDE DEF g
        <3> QED
            BY <3>2, <3>3
    <2>3. g = [i \in 1 .. m + 1 |-> g[i]]
        OBVIOUS
    <2> HIDE DEF g
    <2>4. IsFlattening(g, seqs, m + 1)
        BY <2>2, <2>3 DEF IsFlattening
    <2> QED
        BY <2>4
<1> HIDE DEF T
<1>3. Nat \subseteq T
    BY <1>1, <1>2, SetInduction
<1> QED
    BY <1>3 DEF T

\* FlattenSeq joins lists of the same elements to one of them.
LEMMA Joined ==
    ASSUME NEW S, NEW n \in Nat \ {0}, NEW seqs \in [1 .. n -> Seq(S)]
    PROVE  FlattenSeq(seqs) \in Seq(S)
<1> DEFINE flatten == CHOOSE f : IsFlattening(f, seqs, n)
<1>1. seqs \in Seq(Seq(S)) /\ Len(seqs) = n
    BY SeqDef
<1>2. FlattenSeq(seqs) = flatten[n]
    BY <1>1 DEF FlattenSeq, IsFlattening
<1>3. IsFlattening(flatten, seqs, n)
    BY FlatteningExists
<1> HIDE DEF flatten
<1>4. \A i \in 1 .. n : flatten[i] = IF i = 1 THEN seqs[i] ELSE flatten[i - 1] \o seqs[i]
    BY <1>3 DEF IsFlattening
<1> DEFINE T == {m \in Nat : m \in 1 .. n => flatten[m] \in Seq(S)}
<1>5. 0 \in T
    OBVIOUS
<1>6. ASSUME NEW m \in Nat, m \in T PROVE m + 1 \in T
    <2> SUFFICES ASSUME m + 1 \in 1 .. n PROVE flatten[m + 1] \in Seq(S)
        OBVIOUS
    <2>1. seqs[m + 1] \in Seq(S)
        OBVIOUS
    <2>2. CASE m = 0
        BY <1>4, <2>1, <2>2
    <2>3. CASE m # 0
        <3>1. m \in 1 .. n /\ (m + 1) - 1 = m /\ m + 1 # 1
            BY <2>3
        <3>2. flatten[m] \in Seq(S)
            BY <1>6, <3>1
        <3>3. flatten[m + 1] = flatten[m] \o seqs[m + 1]
            BY <1>4, <3>1
        <3> QED
            BY <2>1, <3>2, <3>3, ConcatProperties
    <2> QED
        BY <2>2, <2>3
<1>7. n \in T
    <2> HIDE DEF T
    <2> QED
        BY <1>5, <1>6, SetInduction
<1> QED
    BY <1>2, <1>7

-----------------------------------------------------------------------------
(***************************************************************************)
(* What a command makes of the lines it is given.                          *)
(***************************************************************************)

\* A list holds lines of files.
Stored == {c \in UNION {Range(Lines(path)) : path \in AllFiles} : Vouched(files, c)}

LEMMA ListsAreStored ==
    ASSUME FileInv, NEW list \in Lists
    PROVE  list \in Seq(Stored)
<1>1. ASSUME NEW path \in AllFiles PROVE Lines(path) \in Seq(Stored)
    <2>1. IsList(Lines(path)) /\ \A i \in DOMAIN Lines(path) : Vouched(files, Lines(path)[i])
        BY DEF FileInv, FilesSound, Lines, AllFiles
    <2> DEFINE s == Lines(path)
    <2>2. s \in [1 .. Len(s) -> Range(s)] /\ Len(s) \in Nat /\ DOMAIN s = 1 .. Len(s)
        BY <2>1, LenProperties DEF IsList
    <2>3. \A i \in 1 .. Len(s) : s[i] \in Stored
        BY <2>1, <2>2 DEF Stored, Range
    <2> HIDE DEF s
    <2>4. s \in [1 .. Len(s) -> Stored]
        BY <2>2, <2>3
    <2>5. s \in Seq(Stored)
        BY <2>2, <2>4, SeqDef
    <2> QED
        BY <2>5 DEF s
<1>a. PICK n \in 1 .. MaxPaths :
          list \in {FlattenSeq([i \in 1 .. n |-> Lines(paths[i])]) : paths \in [1 .. n -> Paths]}
    BY DEF Lists
<1>2. PICK paths \in [1 .. n -> Paths] : list = FlattenSeq([i \in 1 .. n |-> Lines(paths[i])])
    BY <1>a
<1>3. n \in Nat \ {0}
    BY TrainingAssumption
<1>4. Paths \subseteq AllFiles
    BY DEF Paths, AllFiles
<1>5. [i \in 1 .. n |-> Lines(paths[i])] \in [1 .. n -> Seq(Stored)]
    BY <1>1, <1>4
<1> QED
    BY <1>2, <1>3, <1>5, Joined

\* The positions of a list of lines.
LEMMA ListLines ==
    ASSUME NEW list \in Seq(Stored)
    PROVE  /\ Len(list) \in Nat /\ DOMAIN list = 1 .. Len(list)
           /\ \A i \in DOMAIN list : Vouched(files, list[i])
<1>1. /\ Len(list) \in Nat /\ DOMAIN list = 1 .. Len(list)
      /\ \A i \in 1 .. Len(list) : list[i] \in Stored
    BY LenProperties, ElementOfSeq
<1> QED
    BY <1>1 DEF Stored

\* The runs that confirm an input have verified it.
LEMMA ConfirmingRuns ==
    ASSUME NEW list \in Seq(Stored), NEW input
    PROVE  {list[i].run : i \in Confirming(list, input)} \subseteq VerifiedIn(files, input)
BY ListLines DEF Confirming, Vouched

LEMMA VerifiedRunsFinite == ASSUME NEW fs, NEW input PROVE IsFiniteSet(VerifiedIn(fs, input))
<1>1. VerifiedIn(fs, input) \in SUBSET Runs
    BY DEF VerifiedIn
<1> QED
    BY <1>1, TrainingAssumption, FS_Subset

\* So the repetitions do not exceed them.
LEMMA RepetitionsVerified ==
    ASSUME NEW list \in Seq(Stored), NEW input
    PROVE  /\ Repetitions(list, input) \in Nat
           /\ Cardinality(VerifiedIn(files, input)) \in Nat
           /\ Repetitions(list, input) <= Cardinality(VerifiedIn(files, input))
<1> DEFINE R == {list[i].run : i \in Confirming(list, input)}
<1>1. R \in SUBSET VerifiedIn(files, input) /\ IsFiniteSet(VerifiedIn(files, input))
    BY ConfirmingRuns, VerifiedRunsFinite
<1>2. Repetitions(list, input) = Cardinality(R)
    BY DEF Repetitions
<1> HIDE DEF R
<1>3. IsFiniteSet(R) /\ Cardinality(R) <= Cardinality(VerifiedIn(files, input))
    BY <1>1, FS_Subset
<1>4. Cardinality(R) \in Nat /\ Cardinality(VerifiedIn(files, input)) \in Nat
    BY <1>1, <1>3, FS_CardinalityType
<1> QED
    BY <1>2, <1>3, <1>4

\* What SetToSeq says of a finite set.
LEMMA SetAsList ==
    ASSUME NEW S, IsFiniteSet(S)
    PROVE  SetToSeq(S) \in [1 .. Cardinality(S) -> S]
<1>1. PICK f \in [1 .. Cardinality(S) -> S] : IsInjective(f)
    BY FS_CardinalityType DEF ExistsBijection, Bijection, Injection
<1> QED
    BY <1>1 DEF SetToSeq

\* The inputs that reach the threshold are among those of the list.
LEMMA ReachedInputsFinite ==
    ASSUME NEW list \in Seq(Stored)
    PROVE  IsFiniteSet({p \in Problems : Repetitions(list, p) >= Threshold})
<1> DEFINE reached == {p \in Problems : Repetitions(list, p) >= Threshold}
           inputs  == {list[i].input : i \in DOMAIN list}
           f       == [i \in DOMAIN list |-> list[i].input]
<1>1. IsFiniteSet(DOMAIN list)
    BY ListLines, FS_Interval
<1>2. f \in Surjection(DOMAIN list, inputs)
    BY DEF Surjection
<1>3. IsFiniteSet(inputs)
    BY <1>1, <1>2, FS_Surjection
<1>4. ASSUME NEW p \in reached PROVE p \in inputs
    <2>1. CASE Confirming(list, p) = {}
        <3>1. {list[i].run : i \in Confirming(list, p)} = {}
            BY <2>1
        <3>2. Repetitions(list, p) = 0
            BY <3>1, FS_EmptySet DEF Repetitions
        <3> QED
            BY <3>2, TrainingAssumption
    <2>2. CASE Confirming(list, p) # {}
        BY <2>2 DEF Confirming
    <2> QED
        BY <2>1, <2>2
<1>5. reached \in SUBSET inputs
    BY <1>4
<1> HIDE DEF reached, inputs
<1>6. IsFiniteSet(reached)
    BY <1>3, <1>5, FS_Subset
<1> QED
    BY <1>6 DEF reached

\* Promotions are as they should be.
LEMMA PromotionIsReconfirmed ==
    ASSUME NEW list \in Seq(Stored), NEW input, Repetitions(list, input) >= Threshold
    PROVE  Reconfirmed(files, PromotionOf(list, input)) /\ Vouched(files, PromotionOf(list, input))
<1> DEFINE p == PromotionOf(list, input)
           C == Confirming(list, input)
<1>1. /\ p.id[1] = Promotions /\ p.id[3] = input
      /\ p.run = Promotions /\ p.input = input
      /\ p.target = "W2_CANDIDATE" /\ p.from = {list[i].id : i \in C}
      /\ p.count = Repetitions(list, input)
    BY DEF PromotionOf
<1>2. \A i \in C : list[i].id[1] = list[i].run
    BY ListLines DEF Confirming, Vouched
<1> HIDE DEF p, C
<1>3. {id[1] : id \in p.from} = {list[i].run : i \in C}
    <2>1. \A x : x \in {id[1] : id \in p.from} <=> \E i \in C : x = list[i].id[1]
        BY <1>1
    <2>2. \A x : x \in {list[i].run : i \in C} <=> \E i \in C : x = list[i].id[1]
        BY <1>2
    <2> QED
        BY <2>1, <2>2
<1>4. p.count = Cardinality({id[1] : id \in p.from})
    BY <1>1, <1>3 DEF Repetitions, C
<1>5. \A id \in p.from : id[1] \in VerifiedIn(files, input)
    BY <1>3, ConfirmingRuns DEF C
<1>6. Cardinality(VerifiedIn(files, input)) >= Threshold
    BY RepetitionsVerified, TrainingAssumption
<1>7. Vouched(files, p)
    BY <1>1 DEF Vouched
<1> QED
    BY <1>1, <1>4, <1>5, <1>6, <1>7 DEF Reconfirmed, p

\* So are those of a command, whatever it was given.
LEMMA PromotionsAre ==
    ASSUME NEW list \in Seq(Stored)
    PROVE  /\ IsList(PromotionsOf(list))
           /\ \A i \in DOMAIN PromotionsOf(list) :
                 Reconfirmed(files, PromotionsOf(list)[i]) /\ Vouched(files, PromotionsOf(list)[i])
<1> DEFINE inputs == {p \in Problems : Repetitions(list, p) >= Threshold}
           n == Cardinality(inputs)
           s == PromotionsOf(list)
<1>1. IsFiniteSet(inputs)
    BY ReachedInputsFinite
<1>2. n \in Nat /\ SetToSeq(inputs) \in [1 .. n -> inputs]
    BY <1>1, SetAsList, FS_CardinalityType
<1>3. s = [i \in 1 .. n |-> PromotionOf(list, SetToSeq(inputs)[i])]
    BY DEF PromotionsOf
<1>4. \A i \in 1 .. n : Repetitions(list, SetToSeq(inputs)[i]) >= Threshold
    BY <1>2
<1> HIDE DEF inputs, n, s
<1>5. DOMAIN s = 1 .. n /\ \A i \in 1 .. n : Reconfirmed(files, s[i]) /\ Vouched(files, s[i])
    BY <1>3, <1>4, PromotionIsReconfirmed
<1>6. s \in [1 .. n -> Range(s)]
    BY <1>3 DEF Range
<1>7. s \in Seq(Range(s))
    BY <1>2, <1>6, SeqDef
<1> QED
    BY <1>5, <1>7 DEF IsList, s

LEMMA DatasetIs ==
    ASSUME NEW list \in Seq(Stored), NEW id \in DatasetOf(list)
    PROVE  id[1] \in VerifiedIn(files, id[3])
BY ListLines DEF DatasetOf, Range, Vouched

-----------------------------------------------------------------------------
(***************************************************************************)
(* What a run and a turn of the loop leave.                                *)
(***************************************************************************)

\* A file is written for a run that has none.
Grows(fs, gs) == \A run \in Runs : gs[run] = fs[run] \/ DOMAIN fs[run] = {}

\* Runs that verified an answer go on having done so.
LEMMA VerifiedGrows ==
    ASSUME NEW fs, NEW gs, Grows(fs, gs), NEW input
    PROVE  VerifiedIn(fs, input) \subseteq VerifiedIn(gs, input)
BY DEF Grows, VerifiedIn

\* What holds of a line or a promotion goes on holding.
LEMMA VouchedStays ==
    ASSUME NEW fs, NEW gs, Grows(fs, gs), NEW c
    PROVE  /\ Vouched(fs, c) => Vouched(gs, c)
           /\ Reconfirmed(fs, c) => Reconfirmed(gs, c)
<1> DEFINE V == VerifiedIn(fs, c.input)
           W == VerifiedIn(gs, c.input)
<1>1. V \subseteq W
    BY VerifiedGrows
<1>2. IsFiniteSet(V) /\ IsFiniteSet(W)
    BY VerifiedRunsFinite
<1>3. Cardinality(V) <= Cardinality(W)
    BY <1>1, <1>2, FS_Subset
<1>4. Cardinality(V) \in Nat /\ Cardinality(W) \in Nat
    BY <1>2, FS_CardinalityType
<1>5. Cardinality(V) >= Threshold => Cardinality(W) >= Threshold
    BY <1>3, <1>4, TrainingAssumption
<1> QED
    BY <1>1, <1>5 DEF Vouched, Reconfirmed

\* The candidates of a run: those that ask for training were selected, and a
\* measurement of some authority supports them.
LEMMA CandidatesAre ==
    ASSUME NEW run, NEW problem, NEW trace \in Traces
    PROVE  LET s == CandidatesOf(run, problem, trace)
           IN  /\ IsList(s)
               /\ \A i \in DOMAIN s :
                     /\ s[i].id[1] = run /\ s[i].id[3] = problem
                     /\ s[i].run = run /\ s[i].input = problem
                     /\ s[i].target = "W1_CANDIDATE" => Verified(s[i])
<1> DEFINE s == CandidatesOf(run, problem, trace)
<1>1. \A i \in DOMAIN trace : TargetOf(trace[i]) = "W1_CANDIDATE" =>
          /\ trace[i].selected
          /\ Reports(trace[i].measurements, {"SUPPORTED"})
          /\ ~ AuthoritativelyContradicted(trace[i].measurements)
    <2>1. \A i \in DOMAIN trace : TargetOf(trace[i]) = "W1_CANDIDATE" =>
              trace[i].selected /\ AggregateOutcome(trace[i].measurements) = "SUPPORTED"
        BY DEF TargetOf
    <2>2. \A ms : AggregateOutcome(ms) = "SUPPORTED" =>
              Reports(ms, {"SUPPORTED"}) /\ ~ AuthoritativelyContradicted(ms)
        BY DEF AggregateOutcome
    <2> QED
        BY <2>1, <2>2
<1>2. DOMAIN s = DOMAIN trace
    BY DEF CandidatesOf
<1>3. \A i \in DOMAIN s :
          /\ s[i].id = <<run, i, problem>>
          /\ s[i].run = run /\ s[i].input = problem
          /\ s[i].target = TargetOf(trace[i])
          /\ s[i].selected = trace[i].selected
          /\ s[i].measurements = trace[i].measurements
    BY DEF CandidatesOf
<1>4. s = [i \in DOMAIN s |-> s[i]]
    BY DEF CandidatesOf
<1>5. Len(trace) \in Nat /\ DOMAIN trace = 1 .. Len(trace)
    BY TrainingAssumption, LenProperties
<1> HIDE DEF s
<1>6. s \in [1 .. Len(trace) -> Range(s)]
    BY <1>2, <1>4, <1>5 DEF Range
<1>7. IsList(s)
    BY <1>5, <1>6, SeqDef DEF IsList
<1> QED
    BY <1>1, <1>2, <1>3, <1>7 DEF s, Verified

\* A list with one element more.
LEMMA AppendedList ==
    ASSUME NEW s, IsList(s), NEW x
    PROVE  /\ IsList(Append(s, x))
           /\ \A i \in DOMAIN s : i \in DOMAIN Append(s, x) /\ Append(s, x)[i] = s[i]
           /\ \E i \in DOMAIN Append(s, x) : Append(s, x)[i] = x
           /\ \A i \in DOMAIN Append(s, x) :
                 (i \in DOMAIN s /\ Append(s, x)[i] = s[i]) \/ Append(s, x)[i] = x
<1> DEFINE S == Range(s) \cup {x}
           t == Append(s, x)
<1>1. Len(s) \in Nat /\ DOMAIN s = 1 .. Len(s) /\ s \in [1 .. Len(s) -> Range(s)]
    BY LenProperties DEF IsList
<1>2. s \in [1 .. Len(s) -> S] /\ x \in S
    BY <1>1
<1> HIDE DEF S
<1>3. s \in Seq(S)
    BY <1>1, <1>2, SeqDef
<1>4. /\ t \in Seq(S) /\ Len(t) = Len(s) + 1
      /\ \A i \in 1 .. Len(s) : t[i] = s[i]
      /\ t[Len(s) + 1] = x
    BY <1>2, <1>3, AppendProperties
<1>5. Len(t) \in Nat /\ DOMAIN t = 1 .. Len(t) /\ t \in [1 .. Len(t) -> S]
    BY <1>4, LenProperties
<1> HIDE DEF t
<1>6. t \in [1 .. Len(t) -> Range(t)]
    BY <1>5 DEF Range
<1>7. IsList(t)
    BY <1>5, <1>6, SeqDef DEF IsList
<1> QED
    BY <1>1, <1>4, <1>5, <1>7 DEF t

\* A turn of the loop adds to the memory and, if it ends well, to the candidates.
LEMMA TurnKeeps ==
    ASSUME RecordsInv, Turn
    PROVE  FileInv' /\ LoopInv'
<1>1. PICK input \in Problems, answer \in Answers \cup {Mutation} :
          RememberAndRecord(input, answer) \/ RememberOnly(input, answer)
    BY DEF Turn, LoopRunNext
<1> DEFINE o == Observation(answer)
           c == LoopCandidate(input, answer)
<1>2. /\ observed' = Append(observed, o)
      /\ candidates' = Append(candidates, c) \/ candidates' = candidates
      /\ UNCHANGED files
    BY <1>1 DEF RememberAndRecord, RememberOnly, Turn
<1>3. c.memory = <<o.id>> /\ c.outcome = o.outcome
    BY DEF LoopCandidate, Observation
<1>4. Vouched(files, c)
    <2>1. /\ c.id[1] = c.run /\ c.id[3] = c.input
          /\ c.target \in {"REJECTED", "MEMORY_ONLY"}
        BY DEF LoopCandidate
    <2> HIDE DEF c
    <2> QED
        BY <2>1 DEF Vouched
<1> HIDE DEF o, c
<1>5. IsList(observed) /\ IsList(candidates) /\ FilesSound(files, candidates)
      /\ CandidateTellsItsObservation
    BY DEF RecordsInv, FileInv, LoopInv, FilesSound
<1>6. /\ IsList(observed')
      /\ \A i \in DOMAIN observed : i \in DOMAIN observed' /\ observed'[i] = observed[i]
      /\ \E i \in DOMAIN observed' : observed'[i] = o
    BY <1>2, <1>5, AppendedList
<1>7. /\ IsList(candidates')
      /\ \A i \in DOMAIN candidates' :
            (i \in DOMAIN candidates /\ candidates'[i] = candidates[i]) \/ candidates'[i] = c
    <2>1. CASE candidates' = Append(candidates, c)
        BY <1>5, <2>1, AppendedList
    <2>2. CASE candidates' = candidates
        BY <1>5, <2>2
    <2> QED
        BY <1>2, <2>1, <2>2
<1>8. FileInv'
    BY <1>2, <1>4, <1>5, <1>7 DEF FileInv, FilesSound
<1>9. CandidateTellsItsObservation'
    <2> SUFFICES ASSUME NEW i \in DOMAIN candidates'
                 PROVE  \E j \in DOMAIN observed' :
                            /\ candidates'[i].memory = <<observed'[j].id>>
                            /\ candidates'[i].outcome = observed'[j].outcome
        BY DEF CandidateTellsItsObservation
    <2>1. CASE candidates'[i] = c
        BY <1>3, <1>6, <2>1
    <2>2. CASE i \in DOMAIN candidates /\ candidates'[i] = candidates[i]
        <3>1. PICK j \in DOMAIN observed : /\ candidates[i].memory = <<observed[j].id>>
                                           /\ candidates[i].outcome = observed[j].outcome
            BY <1>5, <2>2 DEF CandidateTellsItsObservation
        <3> QED
            BY <1>6, <2>2, <3>1
    <2> QED
        BY <1>7, <2>1, <2>2
<1> QED
    BY <1>6, <1>8, <1>9 DEF LoopInv

\* What is eligible stays so when a run is recorded.
LEMMA EligibleStays ==
    ASSUME NEW fs, NEW gs, Grows(fs, gs), gs[Promotions] = fs[Promotions],
           NEW ds, Eligible(fs, ds)
    PROVE  Eligible(gs, ds)
<1>1. \A i \in DOMAIN gs[Promotions] : Reconfirmed(gs, gs[Promotions][i])
    BY VouchedStays DEF Eligible
<1>2. \A id \in ds : id[1] \in VerifiedIn(gs, id[3])
    BY VerifiedGrows DEF Eligible
<1> QED
    BY <1>1, <1>2 DEF Eligible

\* A run leaves a file where it had none.
LEMMA RecordRunKeeps ==
    ASSUME RecordsInv, NEW run \in Runs, NEW problem, NEW trace \in Traces,
           RecordRun(run, problem, trace)
    PROVE  FileInv' /\ Eligible(files', dataset')
<1> DEFINE s == CandidatesOf(run, problem, trace)
           gs == [files EXCEPT ![run] = s]
<1>1. files' = gs /\ files[run] = <<>> /\ UNCHANGED <<candidates, dataset>>
    BY DEF RecordRun, loopVars
<1>2. run # Promotions
    BY TrainingAssumption
<1>3. FilesSound(files, candidates) /\ Eligible(files, dataset)
    BY DEF RecordsInv, FileInv
<1>4. /\ IsList(s)
      /\ \A i \in DOMAIN s : /\ s[i].id[1] = run /\ s[i].id[3] = problem
                             /\ s[i].run = run /\ s[i].input = problem
                             /\ s[i].target = "W1_CANDIDATE" => Verified(s[i])
    BY CandidatesAre
<1> HIDE DEF s
<1>5. /\ DOMAIN gs = Runs \cup {Promotions}
      /\ \A path \in DOMAIN gs : gs[path] = IF path = run THEN s ELSE files[path]
    BY <1>3 DEF FilesSound
<1> HIDE DEF gs
<1>6. Grows(files, gs)
    BY <1>1, <1>5 DEF Grows
<1>7. \A i \in DOMAIN s : Vouched(gs, s[i])
    BY <1>4, <1>5 DEF Vouched, VerifiedIn
<1>8. FilesSound(gs, candidates)
    BY <1>3, <1>4, <1>5, <1>6, <1>7, VouchedStays DEF FilesSound
<1>9. Eligible(gs, dataset)
    BY <1>2, <1>3, <1>5, <1>6, EligibleStays
<1> QED
    BY <1>1, <1>8, <1>9 DEF FileInv

\* A dataset of verified answers, whatever files it was made of.
LEMMA WriteDatasetKeeps ==
    ASSUME RecordsInv, NEW list \in Lists, WriteDataset(list)
    PROVE  FileInv' /\ Eligible(files', dataset')
<1>1. UNCHANGED <<files, candidates>> /\ dataset' = DatasetOf(list)
    BY DEF WriteDataset, loopVars
<1>2. FileInv /\ Eligible(files, dataset)
    BY DEF RecordsInv
<1>3. list \in Seq(Stored)
    BY <1>2, ListsAreStored
<1>4. \A id \in DatasetOf(list) : id[1] \in VerifiedIn(files, id[3])
    BY <1>3, DatasetIs
<1> QED
    BY <1>1, <1>2, <1>4 DEF FileInv, Eligible

\* The promotions of a command take the place of those of an earlier one.
LEMMA PromoteKeeps ==
    ASSUME RecordsInv, NEW list \in Lists, Promote(list)
    PROVE  FileInv' /\ Eligible(files', dataset')
<1> DEFINE s == PromotionsOf(list)
           gs == [files EXCEPT ![Promotions] = s]
<1>1. files' = gs /\ UNCHANGED <<candidates, dataset>>
    BY DEF Promote, loopVars
<1>2. Promotions \notin Runs
    BY TrainingAssumption
<1>3. FileInv /\ FilesSound(files, candidates) /\ Eligible(files, dataset)
    BY DEF RecordsInv, FileInv
<1>4. /\ IsList(s)
      /\ \A i \in DOMAIN s : Reconfirmed(files, s[i]) /\ Vouched(files, s[i])
    BY <1>3, ListsAreStored, PromotionsAre
<1> HIDE DEF s
<1>5. /\ DOMAIN gs = Runs \cup {Promotions}
      /\ \A path \in DOMAIN gs : gs[path] = IF path = Promotions THEN s ELSE files[path]
    BY <1>3 DEF FilesSound
<1> HIDE DEF gs
<1>6. Grows(files, gs)
    BY <1>2, <1>5 DEF Grows
<1>7. FilesSound(gs, candidates)
    BY <1>3, <1>4, <1>5, <1>6, VouchedStays DEF FilesSound
<1>8. \A i \in DOMAIN gs[Promotions] : Reconfirmed(gs, gs[Promotions][i])
    BY <1>4, <1>5, <1>6, VouchedStays
<1>9. \A id \in dataset : id[1] \in VerifiedIn(gs, id[3])
    BY <1>3, <1>6, VerifiedGrows DEF Eligible
<1> QED
    BY <1>1, <1>7, <1>8, <1>9 DEF FileInv, Eligible

-----------------------------------------------------------------------------
(***************************************************************************)
(* The theorems.                                                           *)
(***************************************************************************)

LEMMA RecordsInit == Init => RecordsInv
<1> SUFFICES ASSUME Init PROVE RecordsInv
    OBVIOUS
<1>1. IsList(<<>>) /\ DOMAIN <<>> = {}
    BY EmptySeq DEF IsList
<1>2. observed = <<>> /\ candidates = <<>> /\ dataset = {}
    BY DEF Init, LoopInit
<1>3. files = [name \in Runs \cup {Promotions} |-> <<>>]
    BY DEF Init
<1>4. FileInv
    BY <1>1, <1>2, <1>3 DEF FileInv, FilesSound
<1>5. Eligible(files, dataset)
    BY <1>1, <1>2, <1>3 DEF Eligible
<1>6. LoopInv
    BY <1>1, <1>2 DEF LoopInv, CandidateTellsItsObservation
<1>7. ExportShape
    BY DEF Init, ExportShape
<1> QED
    BY <1>4, <1>5, <1>6, <1>7 DEF RecordsInv

LEMMA ExportShapeKept == ExportShape /\ [Next]_vars => ExportShape'
<1> SUFFICES ASSUME ExportShape, [Next]_vars PROVE ExportShape'
    OBVIOUS
<1>1. CASE UNCHANGED export
    BY <1>1 DEF ExportShape
<1>2. ASSUME NEW path, StartExport(path) PROVE ExportShape'
    BY <1>2 DEF StartExport, ExportShape
<1>3. CASE WriteLine
    BY <1>3 DEF WriteLine, ExportShape
<1>4. CASE WriteManifest
    BY <1>4 DEF WriteManifest, ExportShape
<1>5. CASE ExportFails
    BY <1>5 DEF ExportFails, ExportShape
<1> QED
    BY <1>1, <1>2, <1>3, <1>4, <1>5 DEF Next, vars, Turn, RecordRun, WriteDataset, Promote

LEMMA RecordsStep == RecordsInv /\ [Next]_vars => RecordsInv'
<1> SUFFICES ASSUME RecordsInv, [Next]_vars PROVE RecordsInv'
    OBVIOUS
<1>1. ExportShape'
    BY ExportShapeKept DEF RecordsInv
<1>2. ASSUME UNCHANGED <<files, dataset>> PROVE Eligible(files', dataset')
    BY <1>2 DEF RecordsInv
<1>3. ASSUME UNCHANGED loopVars PROVE LoopInv'
    BY <1>3 DEF RecordsInv, LoopInv, CandidateTellsItsObservation, loopVars
<1>4. CASE Turn
    BY <1>1, <1>2, <1>4, TurnKeeps DEF Turn, RecordsInv
<1>5. ASSUME NEW run \in Runs, NEW problem \in Problems, NEW trace \in Traces,
             RecordRun(run, problem, trace)
      PROVE  RecordsInv'
    BY <1>1, <1>3, <1>5, RecordRunKeeps DEF RecordRun, RecordsInv
<1>6. ASSUME NEW list \in Lists, WriteDataset(list) \/ Promote(list) PROVE RecordsInv'
    <2>1. CASE WriteDataset(list)
        BY <1>1, <1>3, <2>1, WriteDatasetKeeps DEF WriteDataset, RecordsInv
    <2>2. CASE Promote(list)
        BY <1>1, <1>3, <2>2, PromoteKeeps DEF Promote, RecordsInv
    <2> QED
        BY <1>6, <2>1, <2>2
<1>7. ASSUME UNCHANGED <<loopVars, files, dataset>> PROVE RecordsInv'
    <2>1. FileInv'
        BY <1>7 DEF RecordsInv, FileInv, loopVars
    <2> QED
        BY <1>1, <1>2, <1>3, <1>7, <2>1 DEF RecordsInv
<1>8. (\E path \in Paths : StartExport(path)) \/ WriteLine \/ WriteManifest \/ ExportFails
          \/ UNCHANGED vars
      => UNCHANGED <<loopVars, files, dataset>>
    BY DEF StartExport, WriteLine, WriteManifest, ExportFails, vars
<1> QED
    BY <1>4, <1>5, <1>6, <1>7, <1>8 DEF Next

\* Of every file, whatever commands read and wrote: its lines are vouched for.
THEOREM RecordsHold == Spec => []RecordsInv
BY RecordsInit, RecordsStep, PTL DEF Spec

\* Whatever is eligible for training was found SUPPORTED as often as its tier
\* asks for, under whatever authority.
THEOREM EligibilityHolds == Spec => []EligibleIsVerified
<1>1. Eligible(files, dataset) => EligibleIsVerified
    <2>1. \A problem : VerifiedRuns(problem) = VerifiedIn(files, problem)
        BY DEF VerifiedRuns, VerifiedIn
    <2>2. \A problem : VerifiedIn(files, problem) \subseteq Runs
        BY DEF VerifiedIn
    <2> QED
        BY <2>1, <2>2 DEF Eligible, Reconfirmed, EligibleIsVerified, PromotionsAreReconfirmed,
                          DatasetIsVerified
<1> QED
    BY <1>1, RecordsHold, PTL DEF RecordsInv

\* A candidate of the loop says of a turn what the memory says of it.
THEOREM ObservationsHold == Spec => []CandidateTellsItsObservation
BY RecordsHold, PTL DEF RecordsInv, LoopInv

\* A manifest is written for the lines that are there.
THEOREM ManifestHolds == Spec => ManifestTellsTheFile
<1> DEFINE Telling == export'.manifest \notin {export.manifest, None}
                          => export'.manifest = export'.lines
<1>1. ExportShape /\ [Next]_vars => [Telling]_vars
    <2> SUFFICES ASSUME ExportShape, Next PROVE Telling
        OBVIOUS
    <2>1. CASE UNCHANGED export
        BY <2>1
    <2>2. ASSUME NEW path, StartExport(path) PROVE Telling
        BY <2>2 DEF StartExport, ExportShape
    <2>3. CASE WriteLine
        BY <2>3 DEF WriteLine, ExportShape
    <2>4. CASE WriteManifest
        BY <2>4 DEF WriteManifest, ExportShape
    <2>5. CASE ExportFails
        BY <2>5 DEF ExportFails, ExportShape
    <2> QED
        BY <2>1, <2>2, <2>3, <2>4, <2>5 DEF Next, Turn, RecordRun, WriteDataset, Promote
<1> QED
    BY <1>1, RecordsHold, PTL DEF Spec, RecordsInv, ManifestTellsTheFile
=============================================================================
