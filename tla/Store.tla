------------------------------- MODULE Store --------------------------------
(* The adjudication store: two DuckDB tables and the JSONL files they are     *)
(* exchanged with (eval/store.py).  A database is the set of candidates it    *)
(* holds and the verdict on each; a file is the row of each candidate, in the *)
(* order of the names, and whether its last line is broken off.  The id of a  *)
(* candidate says its corpus: gold ids are slugs, absent ones Scryfall UUIDs. *)
(* A file that does not exist and a file without rows are imported alike.     *)
EXTENDS Integers, FiniteSets

CONSTANTS
  Ids,        \* candidate ids
  GoldIds,    \* those of corpus gold_pool_extras; the others are spellbook_absent
  Rank,       \* their places in ORDER BY left_name, right_name
  Verdicts,   \* an adjudication: class, notes, reasons and the skipped mark
  Unreviewed, \* no adjudication
  Missing     \* no row

ASSUME StoreAssumption ==
  /\ IsFiniteSet(Ids)
  /\ GoldIds \subseteq Ids
  /\ Rank \in [Ids -> Nat]
  /\ Unreviewed \notin Verdicts
  /\ Missing \notin Verdicts \cup {Unreviewed}

Adjudications == Verdicts \cup {Unreviewed}
Databases == [candidates : SUBSET Ids, adjudications : [Ids -> Adjudications]]
Files == [rows : [Ids -> Adjudications \cup {Missing}], torn : BOOLEAN]

EmptyDatabase == [candidates |-> {}, adjudications |-> [i \in Ids |-> Unreviewed]]
EmptyFile == [rows |-> [i \in Ids |-> Missing], torn |-> FALSE]

Corpora == {"all", "gold_pool_extras", "spellbook_absent"}
CorpusIds(corpus) ==
  {i \in Ids : \/ corpus = "all"
               \/ corpus = "gold_pool_extras" /\ i \in GoldIds
               \/ corpus = "spellbook_absent" /\ i \notin GoldIds}

list_candidates(db, corpus) == db.candidates \cap CorpusIds(corpus)

Reviews == {"unreviewed", "reviewed", "all"}

(* A skipped candidate has an adjudication: it counts as reviewed. *)
queue(db, corpus, review) ==
  {i \in list_candidates(db, corpus) :
     \/ review = "all"
     \/ review = "reviewed" /\ db.adjudications[i] # Unreviewed
     \/ review = "unreviewed" /\ db.adjudications[i] = Unreviewed}

upsert_candidate(db, S) == [db EXCEPT !.candidates = @ \cup S]

save_adjudication(db, i, verdict) == [db EXCEPT !.adjudications[i] = verdict]

export_jsonl(db, corpus) ==
  [rows |-> [i \in Ids |-> IF i \in list_candidates(db, corpus) THEN db.adjudications[i]
                                                                 ELSE Missing],
   torn |-> FALSE]

Rows(file) == {i \in Ids : file.rows[i] # Missing}

(* The rows of the n lowest places; what reading or writing a file has done   *)
(* when it is cut off.  A line that is written in part is a torn one.         *)
Below(S, n) == {i \in S : Rank[i] < n}
Cut(file, n, torn) ==
  [rows |-> [i \in Ids |-> IF Rank[i] < n THEN file.rows[i] ELSE Missing], torn |-> torn]

(* Rows are upserted one by one, an adjudication only where the row has one.  *)
(* A torn last line raises, after the rows before it went in.                 *)
ImportRows_Resets(db, file, S) ==
  [candidates |-> db.candidates \cup S,
   adjudications |-> [i \in Ids |-> IF i \in S THEN file.rows[i] ELSE db.adjudications[i]]]
ImportRows(db, file, S) ==
  [candidates |-> db.candidates \cup S,
   adjudications |-> [i \in Ids |-> IF i \in S /\ file.rows[i] # Unreviewed
                                    THEN file.rows[i]
                                    ELSE db.adjudications[i]]]
import_jsonl(db, file) == ImportRows(db, file, Rows(file))
=============================================================================
