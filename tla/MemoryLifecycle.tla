-------------------------- MODULE MemoryLifecycle --------------------------
(***************************************************************************)
(* What happens to the records of a memory store: they are appended and    *)
(* edited through the store's interface, measured and superseded           *)
(* (internal/memory/update.go), recorded from episodes and consolidated    *)
(* into domain patterns (internal/memory/episode.go). The callers act one  *)
(* at a time. MaxRecords bounds the store and MaxResults the measurements  *)
(* its records have had.                                                   *)
(***************************************************************************)
EXTENDS MemoryStore, Measurement, FiniteSetsExt

CONSTANTS
    Names,              \* identifiers callers choose
    Contents,           \* a record's title and content
    Strategies,         \* the strategies, in alphabetical order
    Groups,             \* correlation groups
    Missing,            \* an empty strategy or correlation group
    MinDistinctEpisodes,
    Seeds,              \* the records callers append
    Experiences,        \* what runs leave to record: [strategy, group, independence, outcome]
    Edits,              \* the <<tier, content>> callers put into a record
    Measured,           \* the results records are confronted with
    MaxRecords, MaxResults

VARIABLE records

Tiers    == {"foundation", "domain", "episodic"}
Statuses == {"active", "supported", "contradicted", "superseded", "uncertain", "stale"}

\* A pattern's identifier is a hash of its strategy and of its contributors.
PatternIds == {Strategies[k] : k \in DOMAIN Strategies} \X SUBSET Names

\* "derived" says that the record's source or independence is the model's;
\* "from" are its contributing records, "results" its related measurements and
\* "by" is the record that supersedes it. "born", its first status, is history.
Record == [id : Names \cup PatternIds, tier : Tiers, content : Contents \cup {Missing},
           valid : BOOLEAN, derived : BOOLEAN, status : Statuses,
           strategy : {Strategies[k] : k \in DOMAIN Strategies} \cup {Missing},
           group : Groups \cup {Missing} \cup PatternIds,
           by : Names \cup {NoRecord}, from : SUBSET Names, results : Seq(Measured),
           born : Statuses]

ASSUME LifecycleAssumption ==
    /\ Seeds \subseteq Record
    /\ \A r \in Seeds : /\ r.id \in Names
                        /\ r.born = r.status
                        /\ r.status # "superseded"
                        /\ r.from = {}
                        /\ r.results = <<>>
                        /\ r.by = NoRecord
    /\ Experiences \subseteq
           [strategy : {Strategies[k] : k \in DOMAIN Strategies} \cup {Missing},
            group : Groups \cup {Missing}, independence : Independences,
            outcome : Outcomes]
    /\ Edits \subseteq Tiers \X Contents
    /\ Measured \subseteq Results
    /\ {MinDistinctEpisodes, MaxRecords, MaxResults} \subseteq Nat
    \* Each strategy once; the generated identifiers are nobody's choice.
    /\ Strategies \in Seq({Strategies[k] : k \in DOMAIN Strategies})
    /\ \A j, k \in DOMAIN Strategies : Strategies[j] = Strategies[k] => j = k
    /\ Names \cap PatternIds = {}
    /\ NoRecord \notin Names

Init == records = <<>>

HasRoom == Len(records) < MaxRecords

-----------------------------------------------------------------------------
\* The store's interface.

AppendRecord(r) ==
    /\ HasRoom
    /\ ~AppendRefused(records, r)
    /\ records' = Append(records, r)

\* Replace by a caller that changes the tier or the content of a record it made.
EditRecord(r, tier, content) ==
    LET edited == [r EXCEPT !.tier = tier, !.content = content]
    IN  /\ ~ReplaceRefused(records, edited)
        /\ records' = Put(records, edited)

Reset == records' = <<>>

-----------------------------------------------------------------------------
\* ApplyCurrentMeasurement

\* Faulty: any contradiction counts.
StatusAfterAny(status, m) ==
    CASE m.outcome = "SUPPORTED" /\ Independent(m) -> "supported"
      [] m.outcome = "CONTRADICTED"                -> "contradicted"
      [] OTHER                                     -> status

StatusAfter(status, m) ==
    CASE m.outcome = "SUPPORTED" /\ Independent(m)    -> "supported"
      [] m.outcome = "CONTRADICTED" /\ Independent(m) -> "contradicted"
      [] /\ m.outcome = "CONTRADICTED"
         /\ ~Independent(m)
         /\ m.authority # "MODEL_ESTIMATE"
         /\ m.independence # "MODEL_DERIVED"          -> "uncertain"
      [] OTHER                                        -> status

Measure(r, m) ==
    /\ MapThenSumSet(LAMBDA i : Len(records[i].results), DOMAIN records) < MaxResults
    /\ records' = Put(records,
           [r EXCEPT !.status = StatusAfter(@, m),
                     !.results = IF m.identified THEN Append(@, m) ELSE @])

-----------------------------------------------------------------------------
\* Supersede appends the replacement and then replaces the old record. It may
\* fail or be cut off in between.

\* Faulty: the old record is marked before the replacement is stored.
SupersedeMarkedFirst(old, replacement) ==
    LET marked == Put(records, [old EXCEPT !.status = "superseded",
                                           !.by = replacement.id])
    IN  /\ HasRoom
        /\ ~AppendRefused(records, replacement)
        /\ records' \in {marked, Append(marked, replacement)}

Supersede(old, replacement) ==
    /\ HasRoom
    /\ ~AppendRefused(records, replacement)
    /\ \/ records' = Append(records, replacement)
       \/ records' = Append(Put(records, [old EXCEPT !.status = "superseded",
                                                     !.by = replacement.id]),
                            replacement)

-----------------------------------------------------------------------------
\* RecordEpisode: a run's experience is guidance, its status the outcome.

EpisodeStatus(outcome) ==
    CASE outcome = "SUPPORTED"    -> "supported"
      [] outcome = "CONTRADICTED" -> "contradicted"
      [] OTHER                    -> "uncertain"

Episode(id, e) ==
    [id |-> id, tier |-> "episodic", content |-> Missing,
     valid |-> e.independence # "INDEPENDENT",
     derived |-> e.independence = "MODEL_DERIVED",
     status |-> EpisodeStatus(e.outcome), strategy |-> e.strategy, group |-> e.group,
     by |-> NoRecord, from |-> {}, results |-> <<>>,
     born |-> EpisodeStatus(e.outcome)]

RecordEpisode(id, e) == AppendRecord(Episode(id, e))

-----------------------------------------------------------------------------
\* Consolidate

Required == IF MinDistinctEpisodes < 2 THEN 2 ELSE MinDistinctEpisodes

\* The measured episodes a strategy was supported in.
SupportOf(strategy) ==
    {i \in DOMAIN records : /\ records[i].tier = "episodic"
                            /\ records[i].strategy = strategy
                            /\ records[i].status = "supported"
                            /\ ~records[i].derived}

\* Faulty: episodes of one correlation group count separately.
PromotableByEpisodes(strategy) ==
    /\ \A i \in DOMAIN records :
           records[i].strategy = strategy => records[i].status # "contradicted"
    /\ Cardinality(SupportOf(strategy)) >= Required

Promotable(strategy) ==
    /\ \A i \in DOMAIN records :
           records[i].strategy = strategy => records[i].status # "contradicted"
    /\ Cardinality({records[i].group : i \in SupportOf(strategy)}) >= Required

Pattern(strategy) ==
    LET from == {records[i].id : i \in SupportOf(strategy)}
    IN  [id |-> <<strategy, from>>, tier |-> "domain", content |-> Missing,
         valid |-> TRUE, derived |-> FALSE, status |-> "supported",
         strategy |-> strategy, group |-> <<strategy, from>>, by |-> NoRecord,
         from |-> from, results |-> <<>>, born |-> "supported"]

\* The strategies are taken in order until the append of one's pattern fails,
\* because the same episodes were consolidated before.
Refused(strategy) ==
    Promotable(strategy) /\ AppendRefused(records, Pattern(strategy))

Promoted ==
    {k \in DOMAIN Strategies : /\ Promotable(Strategies[k])
                               /\ \A j \in 1..k : ~Refused(Strategies[j])}

\* The element of a set of numbers that i of them do not exceed.
Nth(S, i) == CHOOSE k \in S : Cardinality({j \in S : j <= k}) = i

Consolidated ==
    [i \in 1..Cardinality(Promoted) |-> Strategies[Nth(Promoted, i)]]

Consolidate ==
    /\ Len(records) + Len(Consolidated) <= MaxRecords
    /\ records' = records \o [k \in DOMAIN Consolidated |-> Pattern(Consolidated[k])]

-----------------------------------------------------------------------------
StoredRecords == {records[i] : i \in DOMAIN records}

Next ==
    \/ \E r \in Seeds : AppendRecord(r)
    \/ \E r \in StoredRecords, e \in Edits : r.id \in Names /\ EditRecord(r, e[1], e[2])
    \/ \E r \in StoredRecords, m \in Measured : Measure(r, m)
    \/ \E old \in StoredRecords, r \in Seeds : Supersede(old, r)
    \/ \E id \in Names, e \in Experiences : RecordEpisode(id, e)
    \/ Consolidate
    \/ Reset

Spec == Init /\ [][Next]_records

-----------------------------------------------------------------------------
\* The store holds well-formed records under distinct identifiers.
TypeOK ==
    /\ StoredRecords \subseteq Record
    /\ Distinct(records)
    /\ Len(records) <= MaxRecords

\* A superseded record, however it is measured, edited or superseded again,
\* points to a record that arrived after it: following the links always ends, at
\* a record that is stored, also when Supersede is cut off half way.
SupersessionLeadsOn ==
    \A i \in DOMAIN records :
        /\ records[i].status = "superseded" => records[i].by # NoRecord
        /\ records[i].by # NoRecord =>
               \E j \in DOMAIN records : j > i /\ records[j].id = records[i].by

\* The results that may decide on a record.
Decisions(r) ==
    {k \in DOMAIN r.results : /\ Independent(r.results[k])
                              /\ r.results[k].outcome \in {"SUPPORTED", "CONTRADICTED"}}

\* The last of them said o or, where there is none, the record was made with
\* status st.
DecidedBy(r, o, st) ==
    IF Decisions(r) = {}
    THEN r.born = st
    ELSE \E k \in Decisions(r) : /\ \A j \in Decisions(r) : j <= k
                                 /\ r.results[k].outcome = o

\* Memory follows the evidence: a record is supported or contradicted because
\* the last independent authoritative measurement that decided said so or, where
\* none did, because it was recorded that way. Model estimates, partial
\* independence, errors and inconclusive results never have that effect.
StatusFollowsEvidence ==
    \A i \in DOMAIN records :
        LET r == records[i]
        IN  /\ r.status = "supported" => DecidedBy(r, "SUPPORTED", "supported")
            /\ r.status = "contradicted" => DecidedBy(r, "CONTRADICTED", "contradicted")

\* A domain pattern rests on stored episodes of distinct correlation groups, none
\* of them the model's own assertion and none of them a pattern, whatever has
\* become of the episodes since.
PatternsHaveDistinctSupport ==
    \A i \in DOMAIN records : records[i].id \in PatternIds =>
        LET support == {j \in DOMAIN records : records[j].id \in records[i].from}
        IN  /\ Cardinality({records[j].group : j \in support}) >= 2
            /\ \A j \in support : /\ j < i
                                  /\ ~records[j].derived
                                  /\ records[j].id \in Names
=============================================================================
