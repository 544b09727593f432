------------------------- MODULE JSONLStore_proofs -------------------------
(***************************************************************************)
(* The file-backed store for every set of identifiers and records, any     *)
(* failures of its file and any number of crashes.                         *)
(*                                                                         *)
(* NothingForgotten and MirroredWhileClean are about a store at rest; the  *)
(* invariant adds what is true inside the calls.                           *)
(***************************************************************************)
EXTENDS JSONLStore, TLAPS

\* Inside an append the index is one record ahead of the file.
InsideAppend ==
    pc = "append" =>
        /\ arg \in promised[arg.id]
        /\ clean => /\ index = Append(file.lines, arg)
                    /\ ~file.cut
                    /\ \A i \in DOMAIN file.lines : /\ file.lines[i] # NoRecord
                                                    /\ file.lines[i].fits

\* Inside a rewrite the temporary file is a beginning of the index.
InsideRewrite ==
    pc = "rewrite" => /\ Len(tmp) <= Len(index)
                      /\ \A i \in DOMAIN tmp : tmp[i] = index[i]

\* Inside a reset the index is empty, and every identifier may be.
InsideReset ==
    pc = "reset" => /\ index = <<>>
                    /\ \A id \in Ids : NoRecord \in promised[id]

StoreInv ==
    /\ TypeOK
    /\ NothingForgotten
    /\ MirroredWhileClean
    /\ InsideAppend
    /\ InsideRewrite
    /\ InsideReset

-----------------------------------------------------------------------------
Lines == Seq(Inputs \cup {NoRecord})

\* A record is not the mark of a missing one.
LEMMA InputsAreRecords ==
    /\ NoRecord \notin Inputs
    /\ \A r \in Inputs : r.id \in Ids /\ r.fits \in BOOLEAN
BY StoreAssumption DEF Record

\* Get of a stored record returns that record.
LEMMA ValueFound ==
    ASSUME NEW s, Distinct(s), NEW i \in DOMAIN s
    PROVE  ValueIn(s, s[i].id) = s[i]
<1>1. Has(s, s[i].id)
    BY DEF Has
<1>2. PICK j \in DOMAIN s : /\ j = CHOOSE k \in DOMAIN s : s[k].id = s[i].id
                            /\ s[j].id = s[i].id
    OBVIOUS
<1>3. j = i
    BY <1>2 DEF Distinct
<1> QED
    BY <1>1, <1>2, <1>3 DEF ValueIn

\* What is found in a store whose records are distinct is one of its records.
LEMMA ValueIsStored ==
    ASSUME NEW s, NEW id, Has(s, id)
    PROVE  \E i \in DOMAIN s : s[i].id = id /\ ValueIn(s, id) = s[i]
BY DEF Has, ValueIn

\* An appended record is found, and hides none.
LEMMA ValueAppended ==
    ASSUME NEW S, NEW s \in Seq(S), NEW r \in S, Distinct(Append(s, r)), NEW id
    PROVE  /\ Distinct(s)
           /\ ValueIn(Append(s, r), id) = IF id = r.id THEN r ELSE ValueIn(s, id)
<1> DEFINE t == Append(s, r)
<1>1. /\ Len(t) = Len(s) + 1
      /\ DOMAIN t = 1..Len(t)
      /\ DOMAIN s = 1..Len(s)
      /\ Len(s) \in Nat
      /\ \A i \in DOMAIN s : t[i] = s[i]
      /\ t[Len(t)] = r
    OBVIOUS
<1> HIDE DEF t
<1>2. Distinct(t)
    BY DEF t
<1>3. Distinct(s)
    BY <1>1, <1>2 DEF Distinct
<1>4. ASSUME id = r.id PROVE ValueIn(t, id) = r
    BY <1>1, <1>2, <1>4, ValueFound
<1>5. ASSUME id # r.id, Has(s, id) PROVE ValueIn(t, id) = ValueIn(s, id)
    <2>1. PICK i \in DOMAIN s : s[i].id = id /\ ValueIn(s, id) = s[i]
        BY <1>5, ValueIsStored
    <2>2. i \in DOMAIN t /\ t[i] = s[i]
        BY <1>1, <2>1
    <2> QED
        BY <1>2, <2>1, <2>2, ValueFound
<1>6. ASSUME id # r.id, ~Has(s, id) PROVE ValueIn(t, id) = ValueIn(s, id)
    <2>1. ~Has(t, id)
        BY <1>1, <1>6 DEF Has
    <2> QED
        BY <1>6, <2>1 DEF ValueIn
<1> QED
    BY <1>3, <1>4, <1>5, <1>6 DEF t

\* A refused duplicate is what keeps identifiers distinct.
LEMMA AppendIsDistinct ==
    ASSUME NEW s \in Seq(Inputs), Distinct(s), NEW r \in Inputs, ~AppendRefused(s, r)
    PROVE  /\ Append(s, r) \in Seq(Inputs)
           /\ Distinct(Append(s, r))
           /\ ValueIn(Append(s, r), r.id) = r
<1>1. Distinct(Append(s, r))
    BY DEF Distinct, AppendRefused, Has
<1> QED
    BY <1>1, ValueAppended

\* A replaced record stands where the old one stood.
LEMMA PutIsDistinct ==
    ASSUME NEW s \in Seq(Inputs), Distinct(s), NEW r \in Inputs, ~ReplaceRefused(s, r)
    PROVE  /\ Put(s, r) \in Seq(Inputs)
           /\ Distinct(Put(s, r))
           /\ ValueIn(Put(s, r), r.id) = r
<1>1. Put(s, r) \in Seq(Inputs)
    BY DEF Put
<1>2. \A i \in DOMAIN s : Put(s, r)[i].id = s[i].id
    BY DEF Put
<1>3. DOMAIN Put(s, r) = DOMAIN s
    BY DEF Put
<1>4. Distinct(Put(s, r))
    BY <1>2, <1>3 DEF Distinct
<1>5. PICK i \in DOMAIN s : s[i].id = r.id
    BY DEF ReplaceRefused, Has
<1>6. Put(s, r)[i] = r
    BY <1>5 DEF Put
<1> QED
    BY <1>1, <1>3, <1>4, <1>6, ValueFound

\* What is found among lines is an input or nothing.
LEMMA ContainedTyped ==
    ASSUME NEW s \in Lines
    PROVE  Contained(s) \in [Ids -> SUBSET (Inputs \cup {NoRecord})]
<1>1. ASSUME NEW id \in Ids PROVE ValueIn(s, id) \in Inputs \cup {NoRecord}
    <2>1. CASE Has(s, id)
        <3>1. PICK i \in DOMAIN s : ValueIn(s, id) = s[i]
            BY <2>1, ValueIsStored
        <3> QED
            BY <3>1 DEF Lines
    <2>2. CASE ~Has(s, id)
        BY <2>2 DEF ValueIn
    <2> QED
        BY <2>1, <2>2
<1> QED
    BY <1>1 DEF Contained

\* A file, as the type invariant describes it.
Files == {f \in [lines : Lines, cut : BOOLEAN] : f.cut => f.lines # <<>>}

\* A write that fails or is cut off leaves a file that does not open, the old
\* contents, or the old contents and the record.
LEMMA WrittenLeaves ==
    ASSUME NEW f \in Files, NEW r \in Inputs, NEW how \in Writes
    PROVE  /\ Written(f, r, how) \in Files
           /\ Readable(Written(f, r, how).lines) =>
                  /\ Readable(f.lines)
                  /\ \A id : \/ ValueIn(Written(f, r, how).lines, id) = ValueIn(f.lines, id)
                            \/ /\ id = r.id
                               /\ ValueIn(Written(f, r, how).lines, id) = r
<1> USE DEF Files, Lines
<1>1. CASE how = "nothing"
    BY <1>1 DEF Written
<1>2. CASE how # "nothing" /\ f.cut
    <2> DEFINE n == Len(f.lines)
               t == [f.lines EXCEPT ![n] = NoRecord]
    <2>1. n \in DOMAIN f.lines /\ t \in Lines /\ t # <<>> /\ n \in DOMAIN t /\ t[n] = NoRecord
        BY <1>2
    <2>2. Written(f, r, how) = [lines |-> t, cut |-> how # "newline"]
        BY <1>2 DEF Written
    <2>3. ~Readable(t)
        BY <2>1 DEF Readable
    <2> QED
        BY <2>1, <2>2, <2>3
<1>3. CASE how # "nothing" /\ ~f.cut
    <2> DEFINE x == IF how = "part" THEN NoRecord ELSE r
               t == Append(f.lines, x)
    <2>1. Written(f, r, how) = [lines |-> t, cut |-> how # "newline"]
        BY <1>3 DEF Written
    <2>2. /\ t \in Lines /\ t # <<>>
          /\ Len(t) \in DOMAIN t /\ t[Len(t)] = x
          /\ DOMAIN f.lines \subseteq DOMAIN t
          /\ \A i \in DOMAIN f.lines : t[i] = f.lines[i]
        OBVIOUS
    <2>3. CASE how = "part"
        BY <2>1, <2>2, <2>3 DEF Readable
    <2>4. CASE how # "part"
        <3>1. x = r
            BY <2>4
        <3>2. ASSUME Readable(t)
              PROVE  /\ Readable(f.lines)
                     /\ \A id : ValueIn(t, id) = IF id = r.id THEN r ELSE ValueIn(f.lines, id)
            <4>1. Distinct(t)
                BY <3>2 DEF Readable
            <4>2. f.lines \in Seq(Inputs \cup {NoRecord}) /\ r \in Inputs \cup {NoRecord}
                OBVIOUS
            <4>3. Distinct(f.lines)
                BY <2>2, <4>1 DEF Distinct
            <4>4. Readable(f.lines)
                BY <2>2, <3>2, <4>3 DEF Readable
            <4>5. ASSUME NEW id
                  PROVE  ValueIn(t, id) = IF id = r.id THEN r ELSE ValueIn(f.lines, id)
                BY <3>1, <4>1, <4>2, ValueAppended
            <4> QED
                BY <4>4, <4>5
        <3> QED
            BY <2>1, <2>2, <3>2
    <2> QED
        BY <2>3, <2>4
<1> QED
    BY <1>1, <1>2, <1>3

-----------------------------------------------------------------------------
LEMMA StoreInvInit == Init => StoreInv
<1> SUFFICES ASSUME Init PROVE StoreInv
    OBVIOUS
<1> USE DEF Init, Empty
<1>1. Distinct(<<>>) /\ \A id : ValueIn(<<>>, id) = NoRecord
    BY DEF Distinct, ValueIn, Has
<1>2. promised \in [Ids -> SUBSET (Inputs \cup {NoRecord})]
    BY DEF Everywhere
<1>3. file \in [lines : Seq(Inputs \cup {NoRecord}), cut : BOOLEAN]
    OBVIOUS
<1>4. <<>> \in Seq(Inputs)
    OBVIOUS
<1>5. index \in Seq(Inputs) /\ tmp \in Seq(Inputs) /\ Distinct(index)
    BY <1>1, <1>4
<1>6. ~file.cut
    OBVIOUS
<1>7. TypeOK
    <2> HIDE DEF Empty
    <2> QED
        BY <1>2, <1>3, <1>5, <1>6 DEF TypeOK
<1>8. NothingForgotten
    BY <1>1 DEF NothingForgotten, Everywhere
<1> QED
    BY <1>7, <1>8 DEF StoreInv, MirroredWhileClean, InsideAppend, InsideRewrite, InsideReset

\* A stopped process has no index; starting takes over what the file holds.
LEMMA OpenKeeps == StoreInv /\ Open => StoreInv'
<1> SUFFICES ASSUME StoreInv, Open PROVE StoreInv'
    OBVIOUS
<1> USE DEF Open
<1>1. file \in [lines : Lines, cut : BOOLEAN] /\ Readable(file.lines)
    BY DEF StoreInv, TypeOK, Lines
<1>2. file.lines \in Seq(Inputs) /\ Distinct(file.lines)
    BY <1>1 DEF Readable, Lines
<1>3. TypeOK'
    BY <1>1, <1>2, ContainedTyped DEF StoreInv, TypeOK
<1>4. NothingForgotten'
    BY DEF NothingForgotten, Contained
<1>5. MirroredWhileClean'
    <2>1. file = [lines |-> file.lines, cut |-> file.cut]
        BY <1>1
    <2> QED
        BY <1>1, <2>1 DEF MirroredWhileClean
<1>6. pc' = "idle"
    BY DEF StoreInv, TypeOK
<1> QED
    BY <1>3, <1>4, <1>5, <1>6 DEF StoreInv, InsideAppend, InsideRewrite, InsideReset

LEMMA BeginAppendKeeps ==
    ASSUME StoreInv, NEW r \in Inputs, BeginAppend(r) PROVE StoreInv'
<1> USE DEF BeginAppend, Begin
<1>1. /\ Append(index, r) \in Seq(Inputs)
      /\ Distinct(Append(index, r))
      /\ ValueIn(Append(index, r), r.id) = r
    BY AppendIsDistinct DEF StoreInv, TypeOK
<1>2. r # NoRecord /\ r.id \in Ids
    BY InputsAreRecords
<1>3. /\ promised' \in [Ids -> SUBSET (Inputs \cup {NoRecord})]
      /\ r \in promised'[r.id]
      /\ \A id \in Ids : promised[id] \subseteq promised'[id]
    BY <1>2 DEF AndMaybe, StoreInv, TypeOK
<1>4. TypeOK'
    BY <1>1, <1>2, <1>3 DEF StoreInv, TypeOK
<1>5. NothingForgotten'
    BY <1>3 DEF StoreInv, NothingForgotten
<1>6. InsideAppend'
    BY <1>3 DEF StoreInv, InsideAppend, MirroredWhileClean, Readable
<1> QED
    BY <1>4, <1>5, <1>6 DEF StoreInv, MirroredWhileClean, InsideRewrite, InsideReset

\* What every answered call leaves, whatever it wrote.
LEMMA EndTyped ==
    ASSUME StoreInv, NEW f \in Files, End(f), clean' \in BOOLEAN,
           promised' \in [Ids -> SUBSET (Inputs \cup {NoRecord})],
           NothingForgotten', MirroredWhileClean'
    PROVE  StoreInv'
<1>1. TypeOK'
    BY DEF StoreInv, TypeOK, End, Files, Lines
<1> QED
    BY <1>1 DEF StoreInv, End, InsideAppend, InsideRewrite, InsideReset

LEMMA FileTyped == StoreInv => file \in Files /\ Empty \in Files
BY DEF StoreInv, TypeOK, Files, Lines, Empty

LEMMA FinishAppendKeeps ==
    ASSUME StoreInv, FinishAppend PROVE StoreInv'
<1> USE DEF FinishAppend
<1> DEFINE f == Written(file, arg, "newline")
<1>1. arg \in Inputs /\ arg.id \in Ids /\ arg.fits \in BOOLEAN
    BY InputsAreRecords DEF StoreInv, TypeOK
<1>2. /\ f \in Files
      /\ Readable(f.lines) =>
             /\ Readable(file.lines)
             /\ \A id : \/ ValueIn(f.lines, id) = ValueIn(file.lines, id)
                       \/ /\ id = arg.id
                          /\ ValueIn(f.lines, id) = arg
    BY <1>1, FileTyped, WrittenLeaves DEF Writes
<1>3. file' = f /\ pc' = "idle" /\ index' = index
    BY DEF End
<1>4. ASSUME Readable(f.lines) PROVE ValueIn(f.lines, arg.id) = arg
    <2>1. file \in Files
        BY FileTyped
    <2>2. ~file.cut
        <3> SUFFICES ASSUME file.cut PROVE FALSE
            BY <2>1 DEF Files
        <3>1. f.lines = [file.lines EXCEPT ![Len(file.lines)] = NoRecord]
            BY DEF Written
        <3>2. Len(file.lines) \in DOMAIN f.lines /\ f.lines[Len(file.lines)] = NoRecord
            BY <2>1, <3>1 DEF Files, Lines
        <3> QED
            BY <1>4, <3>2 DEF Readable
    <2>3. f.lines = Append(file.lines, arg)
        BY <2>2 DEF Written
    <2>4. /\ file.lines \in Seq(Inputs \cup {NoRecord})
          /\ arg \in Inputs \cup {NoRecord}
          /\ Distinct(Append(file.lines, arg))
        BY <1>1, <1>4, <2>1, <2>3 DEF Files, Lines, Readable
    <2>5. ValueIn(Append(file.lines, arg), arg.id) = arg
        <3> HIDE DEF f, FinishAppend
        <3> QED
            BY <2>4, ValueAppended
    <2> QED
        BY <2>3, <2>5
<1>5. promised' \in [Ids -> SUBSET (Inputs \cup {NoRecord})]
    BY <1>1 DEF StoreInv, TypeOK
<1>6. NothingForgotten'
    BY <1>1, <1>2, <1>3, <1>4 DEF StoreInv, NothingForgotten, TypeOK
<1>7. MirroredWhileClean'
    <2> SUFFICES ASSUME clean'
                 PROVE  file' = [lines |-> index, cut |-> FALSE] /\ Readable(file'.lines)
        BY <1>3 DEF MirroredWhileClean
    <2>1. /\ clean /\ arg.fits
          /\ index = Append(file.lines, arg)
          /\ ~file.cut
          /\ \A i \in DOMAIN file.lines : file.lines[i] # NoRecord /\ file.lines[i].fits
        BY DEF StoreInv, InsideAppend
    <2>2. f = [lines |-> index, cut |-> FALSE]
        BY <2>1 DEF Written
    <2>3. file.lines \in Lines /\ Distinct(index) /\ arg # NoRecord
        BY FileTyped DEF Files, StoreInv, TypeOK
    <2>4. Readable(index)
        BY <2>1, <2>3 DEF Readable, Lines
    <2> QED
        BY <1>3, <2>2, <2>4
<1>8. clean' \in BOOLEAN
    BY <1>1 DEF StoreInv, TypeOK
<1> QED
    BY <1>2, <1>5, <1>6, <1>7, <1>8, EndTyped

\* A write that fails adds at most what was promised when it began.
LEMMA TornIsPromised ==
    ASSUME StoreInv, pc = "append", NEW how \in Writes
    PROVE  /\ Written(file, arg, how) \in Files
           /\ Readable(Written(file, arg, how).lines) =>
                  \A id \in Ids : ValueIn(Written(file, arg, how).lines, id) \in promised[id]
<1>1. arg \in Inputs /\ arg \in promised[arg.id]
    BY DEF StoreInv, TypeOK, InsideAppend
<1> QED
    BY <1>1, FileTyped, WrittenLeaves DEF StoreInv, NothingForgotten

LEMMA FailAppendKeeps ==
    ASSUME StoreInv, NEW how \in Writes, FailAppend(how) PROVE StoreInv'
<1> USE DEF FailAppend
<1>1. NothingForgotten'
    BY TornIsPromised DEF NothingForgotten, End
<1>2. MirroredWhileClean'
    BY DEF MirroredWhileClean
<1>3. promised' \in [Ids -> SUBSET (Inputs \cup {NoRecord})]
    BY DEF StoreInv, TypeOK
<1> QED
    BY <1>1, <1>2, <1>3, TornIsPromised, EndTyped

LEMMA BeginReplaceKeeps ==
    ASSUME StoreInv, NEW r \in Inputs, BeginReplace(r) PROVE StoreInv'
<1> USE DEF BeginReplace, Begin
<1>1. /\ Put(index, r) \in Seq(Inputs)
      /\ Distinct(Put(index, r))
      /\ ValueIn(Put(index, r), r.id) = r
    BY PutIsDistinct DEF StoreInv, TypeOK
<1>2. r # NoRecord /\ r.id \in Ids
    BY InputsAreRecords
<1>3. /\ promised' \in [Ids -> SUBSET (Inputs \cup {NoRecord})]
      /\ \A id \in Ids : promised[id] \subseteq promised'[id]
    BY <1>2 DEF AndMaybe, StoreInv, TypeOK
<1>4. TypeOK'
    BY <1>1, <1>2, <1>3 DEF StoreInv, TypeOK
<1>5. NothingForgotten'
    BY <1>3 DEF StoreInv, NothingForgotten
<1>6. InsideRewrite'
    BY <1>1 DEF InsideRewrite
<1> QED
    BY <1>4, <1>5, <1>6 DEF StoreInv, MirroredWhileClean, InsideAppend, InsideReset

LEMMA WriteTemporaryKeeps ==
    ASSUME StoreInv, WriteTemporary PROVE StoreInv'
<1> USE DEF WriteTemporary
<1>1. /\ index \in Seq(Inputs) /\ tmp \in Seq(Inputs)
      /\ Len(tmp) \in Nat /\ Len(index) \in Nat
      /\ Len(tmp) + 1 \in DOMAIN index
      /\ \A i \in DOMAIN tmp : tmp[i] = index[i]
    BY DEF StoreInv, TypeOK, InsideRewrite
<1>2. tmp' \in Seq(Inputs)
    BY <1>1
<1>3. TypeOK'
    BY <1>2 DEF StoreInv, TypeOK
<1>4. InsideRewrite'
    BY <1>1 DEF InsideRewrite
<1> QED
    BY <1>3, <1>4 DEF StoreInv, NothingForgotten, MirroredWhileClean, InsideAppend, InsideReset

\* The rename publishes the whole index at once.
LEMMA RenameKeeps ==
    ASSUME StoreInv, Rename PROVE StoreInv'
<1> USE DEF Rename
<1>1. tmp = index
    BY DEF StoreInv, TypeOK, InsideRewrite
<1>2. /\ file' = [lines |-> index, cut |-> FALSE]
      /\ index' = index
    BY <1>1 DEF End
<1>3. index \in Seq(Inputs) /\ index \in Lines /\ Distinct(index)
    BY DEF StoreInv, TypeOK, Lines
<1>4. file' \in Files
    BY <1>2, <1>3 DEF Files
<1>5. NothingForgotten'
    BY <1>2 DEF NothingForgotten, Contained
<1>6. MirroredWhileClean'
    <2>1. \A i \in DOMAIN index : index[i] # NoRecord
        BY <1>3, InputsAreRecords
    <2>2. clean' => Readable(index)
        BY <1>3, <2>1 DEF Readable
    <2> QED
        BY <1>2, <2>2 DEF MirroredWhileClean
<1>7. clean' \in BOOLEAN
    OBVIOUS
<1> QED
    BY <1>1, <1>2, <1>3, <1>4, <1>5, <1>6, <1>7, ContainedTyped, EndTyped

LEMMA FailReplaceKeeps ==
    ASSUME StoreInv, FailReplace PROVE StoreInv'
<1> USE DEF FailReplace
<1>1. NothingForgotten'
    BY DEF StoreInv, NothingForgotten, End
<1>2. MirroredWhileClean'
    BY DEF MirroredWhileClean
<1>3. promised' \in [Ids -> SUBSET (Inputs \cup {NoRecord})]
    BY DEF StoreInv, TypeOK
<1> QED
    BY <1>1, <1>2, <1>3, FileTyped, EndTyped

LEMMA BeginResetKeeps ==
    ASSUME StoreInv, BeginReset PROVE StoreInv'
<1> USE DEF BeginReset, Begin
<1>1. Distinct(<<>>)
    BY DEF Distinct
<1>2. TypeOK'
    BY <1>1 DEF StoreInv, TypeOK
<1>3. NothingForgotten'
    BY DEF StoreInv, NothingForgotten
<1>4. InsideReset'
    BY DEF InsideReset
<1> QED
    BY <1>2, <1>3, <1>4 DEF StoreInv, MirroredWhileClean, InsideAppend, InsideRewrite

\* In an empty file nothing is found.
LEMMA NothingInEmpty ==
    /\ Readable(Empty.lines)
    /\ \A id : ValueIn(Empty.lines, id) = NoRecord
BY DEF Empty, Readable, Distinct, ValueIn, Has

LEMMA FinishResetKeeps ==
    ASSUME StoreInv, FinishReset PROVE StoreInv'
<1> USE DEF FinishReset
<1>1. file' = Empty /\ index' = <<>>
    BY DEF End, StoreInv, InsideReset
<1>2. NothingForgotten'
    BY <1>1, NothingInEmpty DEF NothingForgotten, Everywhere
<1>3. MirroredWhileClean'
    BY <1>1, NothingInEmpty DEF MirroredWhileClean, Empty
<1>4. promised' \in [Ids -> SUBSET (Inputs \cup {NoRecord})]
    BY DEF Everywhere
<1> QED
    BY <1>2, <1>3, <1>4, FileTyped, EndTyped

LEMMA FailResetKeeps ==
    ASSUME StoreInv, FailReset PROVE StoreInv'
<1> USE DEF FailReset
<1>1. PICK f \in {file, Empty} : End(f)
    OBVIOUS
<1>2. NothingForgotten'
    BY <1>1, NothingInEmpty DEF StoreInv, NothingForgotten, End, InsideReset
<1>3. MirroredWhileClean'
    BY DEF MirroredWhileClean
<1>4. promised' \in [Ids -> SUBSET (Inputs \cup {NoRecord})]
    BY DEF StoreInv, TypeOK
<1> QED
    BY <1>1, <1>2, <1>3, <1>4, FileTyped, EndTyped

LEMMA StopKeeps ==
    ASSUME StoreInv, Stop PROVE StoreInv'
<1> USE DEF Stop
<1>1. /\ file' \in Files
      /\ Readable(file'.lines) => \A id \in Ids : ValueIn(file'.lines, id) \in promised[id]
    <2>1. CASE file' = file
        BY <2>1, FileTyped DEF StoreInv, NothingForgotten
    <2>2. CASE pc = "append" /\ \E how \in Writes : file' = Written(file, arg, how)
        BY <2>2, TornIsPromised
    <2>3. CASE pc = "reset" /\ file' = Empty
        BY <2>3, FileTyped, NothingInEmpty DEF StoreInv, InsideReset
    <2> QED
        BY <2>1, <2>2, <2>3
<1>2. Distinct(<<>>)
    BY DEF Distinct
<1>3. /\ up' = FALSE /\ pc' = "idle" /\ arg' = NoRecord
      /\ index' = <<>> /\ tmp' = <<>>
      /\ promised' = promised /\ clean' = clean
    OBVIOUS
<1>4. file' \in [lines : Seq(Inputs \cup {NoRecord}), cut : BOOLEAN] /\ (file'.cut => file'.lines # <<>>)
    BY <1>1 DEF Files, Lines
<1>5. promised \in [Ids -> SUBSET (Inputs \cup {NoRecord})] /\ clean \in BOOLEAN
    BY DEF StoreInv, TypeOK
<1>6. TypeOK'
    <2> HIDE DEF Stop
    <2>1. index' \in Seq(Inputs) /\ tmp' \in Seq(Inputs) /\ Distinct(index')
        BY <1>2, <1>3
    <2> QED
        BY <1>3, <1>4, <1>5, <2>1 DEF TypeOK
<1>7. NothingForgotten'
    BY <1>1 DEF NothingForgotten
<1> QED
    BY <1>6, <1>7 DEF StoreInv, MirroredWhileClean, InsideAppend, InsideRewrite, InsideReset

LEMMA StutterKeeps == StoreInv /\ UNCHANGED vars => StoreInv'
BY DEF vars, StoreInv, TypeOK, NothingForgotten, MirroredWhileClean,
       InsideAppend, InsideRewrite, InsideReset

LEMMA StoreInvStep == StoreInv /\ [Next]_vars => StoreInv'
<1> SUFFICES ASSUME StoreInv, [Next]_vars PROVE StoreInv'
    OBVIOUS
<1>1. CASE Open
    BY <1>1, OpenKeeps
<1>2. CASE OpenRefused
    BY <1>2, StutterKeeps DEF OpenRefused
<1>3. CASE \E r \in Inputs : Refuse(r)
    BY <1>3, StutterKeeps DEF Refuse
<1>4. CASE AppendStep
    BY <1>4, BeginAppendKeeps, FinishAppendKeeps, FailAppendKeeps DEF AppendStep
<1>5. CASE ReplaceStep
    BY <1>5, BeginReplaceKeeps, WriteTemporaryKeeps, RenameKeeps, FailReplaceKeeps
       DEF ReplaceStep
<1>6. CASE ResetStep
    BY <1>6, BeginResetKeeps, FinishResetKeeps, FailResetKeeps DEF ResetStep
<1>7. CASE Stop
    BY <1>7, StopKeeps
<1>8. CASE UNCHANGED vars
    BY <1>8, StutterKeeps
<1> QED
    BY <1>1, <1>2, <1>3, <1>4, <1>5, <1>6, <1>7, <1>8 DEF Next

-----------------------------------------------------------------------------
\* The invariant behind the theorems holds of every history of a store.
LEMMA StoreInvHolds == Spec => []StoreInv
BY StoreInvInit, StoreInvStep, PTL DEF Spec

\* The variables keep their types: identifiers stay distinct in the index,
\* whatever fails.
THEOREM TypeCorrect == Spec => []TypeOK
<1>1. StoreInv => TypeOK
    BY DEF StoreInv
<1> QED
    BY <1>1, StoreInvHolds, PTL

\* No failure and no crash loses an acknowledged record or brings one back: a
\* file that opens holds the last acknowledged record of every identifier, or
\* that of a later call that was not acknowledged.
THEOREM AcknowledgedRecordsLast == Spec => []NothingForgotten
<1>1. StoreInv => NothingForgotten
    BY DEF StoreInv
<1> QED
    BY <1>1, StoreInvHolds, PTL

\* As long as no call has failed, the file is the index, and opens again.
THEOREM FileMirrorsIndex == Spec => []MirroredWhileClean
<1>1. StoreInv => MirroredWhileClean
    BY DEF StoreInv
<1> QED
    BY <1>1, StoreInvHolds, PTL
=============================================================================
