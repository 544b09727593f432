---------------------------- MODULE MemoryStore ----------------------------
(***************************************************************************)
(* MemoryStore of internal/memory/store.go: records by identifier, kept in *)
(* the order of their arrival. The code's map and order slice are one      *)
(* sequence here, in which no two records share an identifier. Of a record *)
(* these definitions read its id, tier and content, and "valid": whether   *)
(* validateRecord accepts it.                                              *)
(***************************************************************************)
EXTENDS Naturals, Sequences

CONSTANT NoRecord   \* what is found under an identifier that is not stored

Distinct(s) == \A i, j \in DOMAIN s : s[i].id = s[j].id => i = j

Has(s, id) == \E i \in DOMAIN s : s[i].id = id

\* Get
ValueIn(s, id) ==
    IF Has(s, id) THEN s[CHOOSE i \in DOMAIN s : s[i].id = id] ELSE NoRecord

\* Faulty: an identifier may be appended twice.
AppendUnchecked(s, r) == ~r.valid

AppendRefused(s, r) == ~r.valid \/ Has(s, r.id)

\* The record with r's identifier is replaced where it stands.
Put(s, r) == [i \in DOMAIN s |-> IF s[i].id = r.id THEN r ELSE s[i]]

\* A foundation record keeps its content.
ReplaceRefused(s, r) ==
    \/ ~r.valid
    \/ ~Has(s, r.id)
    \/ \E i \in DOMAIN s : /\ s[i].id = r.id
                           /\ s[i].tier = "foundation"
                           /\ s[i].content # r.content
=============================================================================
