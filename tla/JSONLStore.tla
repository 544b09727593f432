----------------------------- MODULE JSONLStore -----------------------------
(***************************************************************************)
(* JSONLStore of internal/memory/store.go: a MemoryStore, the index, and   *)
(* its file of one checksummed line per record. A call changes the index   *)
(* first and the file after it; readers see the index at once, since they  *)
(* do not take the lock of the writers. Any call on the file may fail, a   *)
(* write part of the way, and the process may stop at any time. What a     *)
(* failed or interrupted write leaves is decided when it fails: nothing,   *)
(* part of the line, the line without its newline, or the whole line.      *)
(*                                                                         *)
(* A rename and a truncation are taken to last once they return. The       *)
(* temporary file of a rewrite is never read again. MaxLines bounds the     *)
(* file, which grows when resets keep failing.                             *)
(***************************************************************************)
EXTENDS MemoryStore

CONSTANTS
    Ids,        \* record identifiers
    Contents,   \* a record's title and content
    Inputs,     \* the records callers pass
    MaxLines

\* "fits" says that the record's line is within the 4 MiB OpenJSONL takes.
Record == [id : Ids, tier : {"foundation", "other"}, content : Contents,
           valid : BOOLEAN, fits : BOOLEAN]

ASSUME StoreAssumption == /\ Inputs \subseteq Record
                          /\ NoRecord \notin Record
                          /\ MaxLines \in Nat

VARIABLES
    up,         \* a process has the store open
    index,      \* its records
    file,       \* the lines, and whether the last one lacks its newline
    pc,         \* "idle", "append", "rewrite" or "reset": the call under way
    arg,        \* its record
    tmp,        \* the temporary file of a rewrite
    promised,   \* history: what may be found under an identifier later on
    clean       \* history: since the file was opened, rewritten or emptied, no
                \* call has failed and no record has been too long to read

vars == <<up, index, file, pc, arg, tmp, promised, clean>>

Empty  == [lines |-> <<>>, cut |-> FALSE]
Writes == {"nothing", "part", "line", "newline"}

\* A write of r's line to the end of f. A line that continues an unfinished one
\* makes it unreadable.
Written(f, r, how) ==
    CASE how = "nothing" -> f
      [] how # "nothing" /\ f.cut ->
             [lines |-> [f.lines EXCEPT ![Len(f.lines)] = NoRecord],
              cut   |-> how # "newline"]
      [] how # "nothing" /\ ~f.cut ->
             [lines |-> Append(f.lines, IF how = "part" THEN NoRecord ELSE r),
              cut   |-> how # "newline"]

\* OpenJSONL accepts the lines.
Readable(lines) ==
    /\ \A i \in DOMAIN lines : lines[i] # NoRecord
    /\ \A i \in DOMAIN lines : lines[i].fits
    /\ Distinct(lines)

Everywhere(v) == [id \in Ids |-> {v}]
Contained(s)  == [id \in Ids |-> {ValueIn(s, id)}]
AndMaybe(r)   == [promised EXCEPT ![r.id] = @ \cup {r}]

Init ==
    /\ up = FALSE
    /\ index = <<>>
    /\ file = Empty
    /\ pc = "idle"
    /\ arg = NoRecord
    /\ tmp = <<>>
    /\ promised = Everywhere(NoRecord)
    /\ clean = TRUE

-----------------------------------------------------------------------------

Open ==
    /\ ~up
    /\ Readable(file.lines)
    /\ up' = TRUE
    /\ index' = file.lines
    /\ promised' = Contained(file.lines)
    /\ clean' = ~file.cut
    /\ UNCHANGED <<file, pc, arg, tmp>>

\* The store fails closed.
OpenRefused ==
    /\ ~up
    /\ ~Readable(file.lines)
    /\ UNCHANGED vars

Begin(call, r) ==
    /\ up
    /\ pc = "idle"
    /\ pc' = call
    /\ arg' = r
    /\ UNCHANGED <<up, file, clean>>

\* Whatever a call answers, it is over. What it leaves in the file is f.
End(f) ==
    /\ pc' = "idle"
    /\ arg' = NoRecord
    /\ tmp' = <<>>
    /\ file' = f
    /\ UNCHANGED <<up, index>>

Refuse(r) ==
    /\ up
    /\ pc = "idle"
    /\ AppendRefused(index, r) \/ ReplaceRefused(index, r)
    /\ UNCHANGED vars

BeginAppend(r) ==
    /\ Len(file.lines) < MaxLines
    /\ ~AppendRefused(index, r)
    /\ Begin("append", r)
    /\ index' = Append(index, r)
    /\ promised' = AndMaybe(r)
    /\ UNCHANGED tmp

FinishAppend ==
    /\ pc = "append"
    /\ End(Written(file, arg, "newline"))
    /\ promised' = [promised EXCEPT ![arg.id] = {arg}]
    /\ clean' = (clean /\ arg.fits)

\* The open, the write or the sync fails; index keeps the record.
FailAppend(how) ==
    /\ pc = "append"
    /\ End(Written(file, arg, how))
    /\ clean' = FALSE
    /\ UNCHANGED promised

BeginReplace(r) ==
    /\ ~ReplaceRefused(index, r)
    /\ Begin("rewrite", r)
    /\ index' = Put(index, r)
    /\ promised' = AndMaybe(r)
    /\ tmp' = <<>>

WriteTemporary ==
    /\ pc = "rewrite"
    /\ Len(tmp) < Len(index)
    /\ tmp' = Append(tmp, index[Len(tmp) + 1])
    /\ UNCHANGED <<up, index, file, pc, arg, promised, clean>>

\* Faulty: the file is replaced before all of the temporary one is written.
RenameEarly ==
    /\ pc = "rewrite"
    /\ End([lines |-> tmp, cut |-> FALSE])
    /\ promised' = Contained(index)
    /\ clean' = \A i \in DOMAIN index : index[i].fits

Rename ==
    /\ pc = "rewrite"
    /\ Len(tmp) = Len(index)
    /\ End([lines |-> tmp, cut |-> FALSE])
    /\ promised' = Contained(index)
    /\ clean' = \A i \in DOMAIN index : index[i].fits

\* The temporary file is removed; index keeps the record.
FailReplace ==
    /\ pc = "rewrite"
    /\ End(file)
    /\ clean' = FALSE
    /\ UNCHANGED promised

BeginReset ==
    /\ Begin("reset", NoRecord)
    /\ index' = <<>>
    /\ promised' = [id \in Ids |-> promised[id] \cup {NoRecord}]
    /\ UNCHANGED tmp

\* Faulty: the records are dropped and the file is left.
FinishResetInMemory ==
    /\ pc = "reset"
    /\ End(file)
    /\ promised' = Everywhere(NoRecord)
    /\ clean' = TRUE

FinishReset ==
    /\ pc = "reset"
    /\ End(Empty)
    /\ promised' = Everywhere(NoRecord)
    /\ clean' = TRUE

FailReset ==
    /\ pc = "reset"
    /\ \E f \in {file, Empty} : End(f)
    /\ clean' = FALSE
    /\ UNCHANGED promised

\* The process exits, is killed or loses power, perhaps inside a call.
Stop ==
    /\ up
    /\ up' = FALSE
    /\ index' = <<>>
    /\ pc' = "idle"
    /\ arg' = NoRecord
    /\ tmp' = <<>>
    /\ \/ pc \in {"idle", "rewrite"} /\ file' = file
       \/ pc = "append" /\ \E how \in Writes : file' = Written(file, arg, how)
       \/ pc = "reset" /\ file' \in {file, Empty}
    /\ UNCHANGED <<promised, clean>>

AppendStep  == \/ \E r \in Inputs : BeginAppend(r)
               \/ FinishAppend
               \/ \E how \in Writes : FailAppend(how)
ReplaceStep == \/ \E r \in Inputs : BeginReplace(r)
               \/ WriteTemporary
               \/ Rename
               \/ FailReplace
ResetStep   == BeginReset \/ FinishReset \/ FailReset

Next ==
    \/ Open
    \/ OpenRefused
    \/ \E r \in Inputs : Refuse(r)
    \/ AppendStep
    \/ ReplaceStep
    \/ ResetStep
    \/ Stop

Spec == Init /\ [][Next]_vars

-----------------------------------------------------------------------------
\* The variables hold what the code can put there: the records of the index
\* have distinct identifiers and a call under way has its record.
TypeOK ==
    /\ up \in BOOLEAN
    /\ index \in Seq(Inputs) /\ Distinct(index)
    /\ file \in [lines : Seq(Inputs \cup {NoRecord}), cut : BOOLEAN]
    /\ file.cut => file.lines # <<>>
    /\ pc \in {"idle", "append", "rewrite", "reset"}
    /\ pc # "idle" => up
    /\ ~up => index = <<>>
    /\ arg \in Inputs \cup {NoRecord}
    /\ pc \in {"append", "rewrite"} => arg # NoRecord /\ ValueIn(index, arg.id) = arg
    /\ tmp \in Seq(Inputs)
    /\ promised \in [Ids -> SUBSET (Inputs \cup {NoRecord})]
    /\ clean \in BOOLEAN

\* A file that opens holds, under every identifier, the last acknowledged
\* record or one of a later call that failed or was interrupted: an
\* acknowledged append or replacement is not forgotten, nor a reset undone, by
\* any later failure or crash that leaves the store readable.
NothingForgotten ==
    Readable(file.lines) =>
        \A id \in Ids : ValueIn(file.lines, id) \in promised[id]

\* While nothing has failed and no line in the file exceeds what OpenJSONL reads
\* (store.go:133; clean), the file of an open store mirrors its index, record by
\* record and in order, between calls; so it opens again.
MirroredWhileClean ==
    up /\ pc = "idle" /\ clean =>
        /\ file = [lines |-> index, cut |-> FALSE]
        /\ Readable(file.lines)
=============================================================================
