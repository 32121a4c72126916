-------------------------- MODULE WorkbenchProofs ---------------------------
(* For any candidates, verdicts, files, tabs and bounds: types, and that the  *)
(* verdict on a gold candidate stands in the database and reaches the file.   *)
EXTENDS Workbench, FiniteSetTheorems, TLAPS

USE StoreAssumption, WorkbenchAssumption

(* A queue that is not empty has a last place, and a candidate at any index.  *)
LEMMA QueueFacts ==
  ASSUME NEW Q \in SUBSET Ids, Q # {}
  PROVE  /\ Cardinality(Q) \in Nat \ {0}
         /\ \A n : At(Q, n) \in Q
<1>1. IsFiniteSet(Q)
  BY FS_Subset
<1>2. Cardinality(Q) \in Nat \ {0}
  BY <1>1, FS_CardinalityType, FS_EmptySet
<1>3. ASSUME NEW n PROVE At(Q, n) \in Q
  <2>1. \E i \in Q : (\E j \in Q : Index(Q, j) = n) => Index(Q, i) = n
    OBVIOUS
  <2> QED BY <2>1 DEF At
<1> QED BY <1>2, <1>3

(* What an import leaves: a database, with more candidates, in which the      *)
(* adjudication of a candidate the file has no row of is the old one.         *)
LEMMA ImportFacts ==
  ASSUME NEW d \in Databases, NEW f \in Files, NEW S \in SUBSET Rows(f)
  PROVE  /\ ImportRows(d, f, S) \in Databases
         /\ d.candidates \subseteq ImportRows(d, f, S).candidates
         /\ \A i \in Ids \ S : ImportRows(d, f, S).adjudications[i] = d.adjudications[i]
BY DEF Databases, Files, ImportRows, Rows, Adjudications

(* An export is a file that has every candidate of its corpus, with the       *)
(* verdict of the database, and no other.                                     *)
LEMMA ExportFacts ==
  ASSUME NEW d \in Databases, NEW corpus
  PROVE  /\ export_jsonl(d, corpus) \in Files
         /\ Rows(export_jsonl(d, corpus)) \subseteq CorpusIds(corpus)
         /\ \A i \in d.candidates \cap CorpusIds(corpus) :
              export_jsonl(d, corpus).rows[i] = d.adjudications[i]
BY DEF Databases, Files, export_jsonl, Rows, Adjudications, list_candidates, CorpusIds

LEMMA CutFacts ==
  ASSUME NEW f \in Files, NEW n, NEW torn \in BOOLEAN
  PROVE  Cut(f, n, torn) \in Files /\ Rows(Cut(f, n, torn)) \subseteq Rows(f)
BY DEF Files, Cut, Rows

-----------------------------------------------------------------------------
(* The invariant: what else the properties rest on.  The absent file speaks   *)
(* of no gold candidate; an adjudication is of a candidate of the database; a *)
(* tab about to save means such a candidate; sessions live in the process,    *)
(* and from seeding or a page on they hold the lock.  A tab that is alone is  *)
(* the only one between the halves of a save, and what it has collected is    *)
(* what the database has.                                                     *)
AbsentFileAbsent == Rows(absent) \subseteq Ids \ GoldIds
Stored(d) == \A i \in Ids : d.adjudications[i] # Unreviewed => i \in d.candidates
PickIsStored ==
  \A t \in Tabs : (tab[t].pc = "saving" \/ Exporting(t)) =>
    tab[t].pick \in db.candidates /\ tab[t].size >= 1
NoProcessNoSession == ~up => \A t \in Tabs : tab[t].pc = "closed"
OnPage(s) == s.pc = "idle" /\ s.shown # Nobody
Locks(s) == s.pc \in {"seeding", "saving", "exporting", "collected", "writing"} \/ OnPage(s)
LockIsHeld == \A t \in Tabs : Locks(tab[t]) => holder = "workbench"
PageIsStored == \A t \in Tabs : OnPage(tab[t]) => db.candidates # {}
SharedWrites == \A t \in shared : tab[t].pc = "writing"
AloneIsAlone ==
  \A t \in alone : Exporting(t) => t \notin shared /\ \A u \in Tabs : Exporting(u) => u = t
RowsAreNew ==
  \A t \in alone : (stops = 0 /\ tab[t].pc \in {"collected", "writing"}) =>
    \A i \in GoldIds :
      db.adjudications[i] # Unreviewed => tab[t].rows.rows[i] = db.adjudications[i]

IInv ==
  /\ TypeOK /\ FileKeepsUp /\ Stored(db)
  /\ AbsentFileAbsent /\ PickIsStored /\ NoProcessNoSession
  /\ LockIsHeld /\ PageIsStored /\ SharedWrites /\ AloneIsAlone /\ RowsAreNew

(* What a load may do to the database: an adjudication of a gold candidate is *)
(* the old one or that of the file, and the old one if nothing is seeded.     *)
Keeps(d) ==
  /\ d \in Databases /\ Stored(d)
  /\ db.candidates \subseteq d.candidates
  /\ \A i \in GoldIds : d.adjudications[i] \in {db.adjudications[i], gold.rows[i]}
Holds(d) == \A i \in GoldIds : d.adjudications[i] = db.adjudications[i]

LEMMA SeedKeeps ==
  ASSUME IInv, NEW S \in SUBSET Rows(gold)
  PROVE  Keeps(ImportRows(db, gold, S))
BY ImportFacts DEF IInv, TypeOK, Stored, Keeps, ImportRows, Rows, Databases, Files

LEMMA SeededKeeps ==
  ASSUME IInv, NEW t
  PROVE  Keeps(Seeded(t)) /\ (tab[t].pc # "seeding" => Holds(Seeded(t)))
BY SeedKeeps DEF Seeded, import_jsonl, Keeps, Holds, IInv, TypeOK

LEMMA MergeKeeps ==
  ASSUME IInv, NEW t, NEW S \in SUBSET Rows(absent)
  PROVE  /\ Keeps(ImportRows(Seeded(t), absent, S))
         /\ tab[t].pc # "seeding" => Holds(ImportRows(Seeded(t), absent, S))
<1> DEFINE d == Seeded(t)
<1>1. /\ Keeps(d) /\ (tab[t].pc # "seeding" => Holds(d))
      /\ absent \in Files /\ S \cap GoldIds = {}
  BY SeededKeeps DEF IInv, TypeOK, AbsentFileAbsent
<1> HIDE DEF d
<1>2. /\ ImportRows(d, absent, S) \in Databases
      /\ d.candidates \subseteq ImportRows(d, absent, S).candidates
      /\ \A i \in Ids \ S : ImportRows(d, absent, S).adjudications[i] = d.adjudications[i]
  BY <1>1, ImportFacts DEF Keeps
<1>3. \A i \in GoldIds : ImportRows(d, absent, S).adjudications[i] = d.adjudications[i]
  BY <1>1, <1>2
<1>4. Stored(ImportRows(d, absent, S))
  <2>1. S \subseteq ImportRows(d, absent, S).candidates
    BY DEF ImportRows
  <2> QED BY <1>1, <1>2, <2>1 DEF Keeps, Stored
<1>5. Keeps(ImportRows(d, absent, S)) /\ (tab[t].pc # "seeding" => Holds(ImportRows(d, absent, S)))
  BY <1>1, <1>2, <1>3, <1>4 DEF Keeps, Holds
<1> QED BY <1>5 DEF d

LEMMA LoadedKeeps ==
  ASSUME IInv, NEW t
  PROVE  Keeps(Loaded(t)) /\ (tab[t].pc # "seeding" => Holds(Loaded(t)))
BY SeededKeeps, MergeKeeps DEF Loaded, import_jsonl

LEMMA UpsertKeeps ==
  ASSUME NEW d, Keeps(d), NEW S \in SUBSET Ids
  PROVE  /\ Keeps(upsert_candidate(d, S))
         /\ Holds(d) => Holds(upsert_candidate(d, S))
BY DEF Keeps, Holds, Stored, Databases, upsert_candidate

(* The page of a tab: index and candidate are of the queue. *)
LEMMA PageFacts ==
  ASSUME IInv, NEW t \in Tabs, View(t, Loaded(t)) # {}
  PROVE  /\ Clamped(t, Loaded(t)) \in Nat
         /\ Candidate(t, Loaded(t)) \in Loaded(t).candidates
         /\ Candidate(t, Loaded(t)) \in Ids
         /\ Cardinality(View(t, Loaded(t))) \in Nat \ {0}
<1>1. Loaded(t) \in Databases
  BY LoadedKeeps DEF Keeps
<1>2. View(t, Loaded(t)) \in SUBSET Ids /\ View(t, Loaded(t)) \subseteq Loaded(t).candidates
  BY <1>1 DEF View, queue, list_candidates, Databases
<1>3. tab[t].idx \in Nat
  BY DEF IInv, TypeOK, Sessions
<1> QED BY <1>2, <1>3, QueueFacts DEF Clamped, Candidate, Least

LEMMA InitInv == Init => IInv
<1> SUFFICES ASSUME Init PROVE IInv
  OBVIOUS
<1>1. TypeOK
  <2>1. EmptyDatabase \in Databases /\ EmptyFile \in Files
    BY DEF EmptyDatabase, EmptyFile, Databases, Files, Adjudications
  <2>2. Closed \in Sessions
    BY <2>1 DEF Closed, Sessions, Reviews, Corpora, Adjudications
  <2>3. tab \in [Tabs -> Sessions] /\ judged \in [Ids -> Adjudications]
    BY <2>2 DEF Init, Adjudications
  <2>4. gold \in Files /\ stops \in 0..MaxStops
    BY DEF Init
  <2> QED BY <2>1, <2>3, <2>4 DEF Init, TypeOK
<1>2. FileKeepsUp /\ Stored(db)
  BY DEF Init, FileKeepsUp, Stored, EmptyDatabase
<1>3. AbsentFileAbsent
  BY DEF Init, AbsentFileAbsent, EmptyFile, Rows
<1>4. PickIsStored /\ NoProcessNoSession /\ LockIsHeld /\ PageIsStored
  BY DEF Init, PickIsStored, NoProcessNoSession, LockIsHeld, PageIsStored, Locks, OnPage,
         Exporting, Closed
<1>5. SharedWrites /\ AloneIsAlone /\ RowsAreNew
  BY DEF Init, SharedWrites, AloneIsAlone, RowsAreNew
<1> QED BY <1>1, <1>2, <1>3, <1>4, <1>5 DEF IInv

LEMMA OpenProcess ==
  ASSUME IInv, NEW t \in Tabs, tab[t].pc # "closed"
  PROVE  up
BY DEF IInv, NoProcessNoSession, TypeOK

LEMMA TabType ==
  ASSUME IInv, NEW t \in Tabs
  PROVE  tab \in [Tabs -> Sessions] /\ tab[t] \in Sessions
BY DEF IInv, TypeOK

(* A step of a tab that is not between the halves of a save, before and       *)
(* after: it loads or leaves the database alone.                              *)
LEMMA SessionStep ==
  ASSUME IInv, NEW t \in Tabs, NEW s \in Sessions, tab' = [tab EXCEPT ![t] = s],
         ~Exporting(t), s.pc \notin {"exporting", "collected", "writing"}, up,
         Keeps(db'), (alone' = alone /\ Holds(db')) \/ alone' = {},
         holder' \in {holder, "workbench"},
         UNCHANGED <<gold, absent, up, shared, blurred, judged, stops>>,
         s.pc = "saving" => s.pick \in db'.candidates /\ s.size >= 1,
         Locks(s) => holder' = "workbench",
         OnPage(s) => db'.candidates # {}
  PROVE  IInv'
<1>1. tab' \in [Tabs -> Sessions] /\ \A u \in Tabs : tab'[u] = IF u = t THEN s ELSE tab[u]
  BY TabType
<1>2. \A u \in Tabs : Exporting(u)' <=> Exporting(u)
  BY <1>1 DEF Exporting
<1>3. TypeOK'
  BY <1>1 DEF IInv, TypeOK, Keeps
<1>4. FileKeepsUp' /\ Stored(db)'
  <2>1. \A i \in GoldIds : db'.adjudications[i] \in {db.adjudications[i], gold.rows[i]}
    BY DEF Keeps
  <2>2. Stored(db)'
    BY DEF Keeps, Stored
  <2> QED BY <1>2, <2>1, <2>2 DEF IInv, FileKeepsUp
<1>5. AbsentFileAbsent'
  BY DEF IInv, AbsentFileAbsent, Rows
<1>6. PickIsStored'
  <2>1. ASSUME NEW u \in Tabs, u # t, (tab[u].pc = "saving" \/ Exporting(u))'
        PROVE  (tab[u].pick \in db.candidates /\ tab[u].size >= 1)'
    BY <1>1, <1>2, <2>1 DEF IInv, PickIsStored, Keeps
  <2>2. ASSUME (tab[t].pc = "saving" \/ Exporting(t))'
        PROVE  (tab[t].pick \in db.candidates /\ tab[t].size >= 1)'
    BY <1>1, <1>2, <2>2
  <2> QED BY <2>1, <2>2 DEF PickIsStored
<1>7. NoProcessNoSession'
  BY DEF NoProcessNoSession
<1>8. LockIsHeld' /\ PageIsStored'
  <2>1. ASSUME NEW u \in Tabs, u # t
        PROVE  (Locks(tab[u]) => holder = "workbench")' /\ (OnPage(tab[u]) => db.candidates # {})'
    BY <1>1, <2>1 DEF IInv, LockIsHeld, PageIsStored, Locks, OnPage, Keeps
  <2>2. (Locks(tab[t]) => holder = "workbench")' /\ (OnPage(tab[t]) => db.candidates # {})'
    BY <1>1 DEF Locks, OnPage
  <2> QED BY <2>1, <2>2 DEF LockIsHeld, PageIsStored
<1>9. SharedWrites' /\ AloneIsAlone' /\ RowsAreNew'
  <2>1. shared \subseteq Tabs /\ alone \subseteq Tabs /\ t \notin shared
    BY DEF IInv, TypeOK, SharedWrites, Exporting
  <2>2. SharedWrites'
    BY <1>1, <2>1 DEF IInv, SharedWrites
  <2>3. AloneIsAlone'
    BY <1>2, <2>1 DEF IInv, AloneIsAlone
  <2>4. RowsAreNew'
    BY <1>1, <2>1 DEF IInv, RowsAreNew, Holds
  <2> QED BY <2>2, <2>3, <2>4
<1> QED BY <1>3, <1>4, <1>5, <1>6, <1>7, <1>8, <1>9 DEF IInv

LEMMA ShowInv ==
  ASSUME IInv, NEW t \in Tabs, Show(t)
  PROVE  IInv'
<1>1. Keeps(db) /\ Holds(db)
  BY DEF IInv, TypeOK, Keeps, Holds
<1>2. CASE StartSeed(t)
  <2> DEFINE s == [tab[t] EXCEPT !.pc = "seeding"]
  <2>1. s \in Sessions /\ tab' = [tab EXCEPT ![t] = s] /\ s.pc = "seeding"
    BY <1>2, TabType DEF StartSeed, Sessions
  <2>2. up
    BY <1>2, OpenProcess DEF StartSeed
  <2> HIDE DEF s
  <2> QED BY <1>1, <1>2, <2>1, <2>2, SessionStep DEF StartSeed, exports, OnPage, Exporting
<1>3. CASE ShowLocked(t)
  <2> DEFINE s == [tab[t] EXCEPT !.pc = "idle", !.shown = Nobody]
  <2>1. s \in Sessions /\ tab' = [tab EXCEPT ![t] = s] /\ s.pc = "idle" /\ s.shown = Nobody
    BY <1>3, TabType DEF ShowLocked, Sessions
  <2>2. up
    BY <1>3, OpenProcess DEF ShowLocked
  <2> HIDE DEF s
  <2> QED BY <1>1, <1>3, <2>1, <2>2, SessionStep DEF ShowLocked, exports, OnPage, Locks, Exporting
<1>4. ASSUME Loads(t)
      PROVE  /\ up /\ Keeps(db') /\ ((alone' = alone /\ Holds(db')) \/ alone' = {})
             /\ holder' = "workbench" /\ db' = Loaded(t) /\ ~Exporting(t)
             /\ UNCHANGED <<gold, absent, up, shared, blurred, judged, stops>>
  BY <1>4, LoadedKeeps, OpenProcess DEF Loads, Exporting
<1>5. CASE ShowNothing(t)
  <2> DEFINE s == [tab[t] EXCEPT !.pc = "idle", !.shown = Nobody]
  <2>1. s \in Sessions /\ tab' = [tab EXCEPT ![t] = s] /\ s.pc = "idle" /\ s.shown = Nobody
    BY <1>5, TabType DEF ShowNothing, Sessions
  <2>2. Loads(t)
    BY <1>5 DEF ShowNothing
  <2> HIDE DEF s
  <2> QED BY <1>4, <2>1, <2>2, SessionStep DEF OnPage
<1>6. CASE ShowCandidate(t)
  <2> DEFINE s == [tab[t] EXCEPT !.pc = "idle", !.idx = Clamped(t, Loaded(t)),
                                 !.shown = Candidate(t, Loaded(t))]
  <2>1. /\ Clamped(t, Loaded(t)) \in Nat /\ Candidate(t, Loaded(t)) \in Ids
        /\ Candidate(t, Loaded(t)) \in Loaded(t).candidates
    BY <1>6, PageFacts DEF ShowCandidate
  <2>2. s \in Sessions /\ tab' = [tab EXCEPT ![t] = s] /\ s.pc = "idle"
    BY <1>6, <2>1, TabType DEF ShowCandidate, Sessions
  <2>3. Loads(t)
    BY <1>6 DEF ShowCandidate
  <2> HIDE DEF s
  <2> QED BY <1>4, <2>1, <2>2, <2>3, SessionStep
<1> QED BY <1>2, <1>3, <1>5, <1>6 DEF Show

(* The part of a run before a button: it loads, and leaves a session. *)
LEMMA ClickStep ==
  ASSUME IInv, NEW t \in Tabs, NEW s \in Sessions, tab' = [tab EXCEPT ![t] = s],
         OnPage(tab[t]), db' = Loaded(t),
         UNCHANGED <<gold, absent, up, holder, exports, judged, stops>>,
         s.pc \in {"rerun", "saving"} \/ (s.pc = "idle" /\ s.shown = Nobody),
         s.pc = "saving" => s.pick \in Loaded(t).candidates /\ s.size >= 1
  PROVE  IInv'
<1>1. Keeps(db') /\ Holds(db') /\ ~Exporting(t)
  BY LoadedKeeps DEF OnPage, Exporting
<1>2. up
  BY OpenProcess DEF OnPage
<1>3. holder' = "workbench"
  BY DEF IInv, LockIsHeld, Locks
<1> QED BY <1>1, <1>2, <1>3, SessionStep DEF exports, OnPage

LEMMA PickSession ==
  ASSUME NEW r \in Sessions, NEW b \in Buttons, NEW n \in Nat, NEW i \in Ids, NEW k \in Nat,
         NEW v \in Verdicts
  PROVE  [r EXCEPT !.pc = "saving", !.button = b, !.idx = n, !.pick = i, !.size = k,
                   !.verdict = v] \in Sessions
BY DEF Sessions, Adjudications

LEMMA ClickInv ==
  ASSUME IInv, NEW t \in Tabs,
         \/ ClickBack(t) \/ ClickLost(t)
         \/ \E button \in Buttons \ {"back"}, v \in Verdicts : ClickVerdict(t, button, v)
  PROVE  IInv'
<1>1. CASE ClickBack(t)
  <2> DEFINE s == [tab[t] EXCEPT !.pc = "rerun", !.button = "back",
                                 !.idx = Greatest(Clamped(t, Loaded(t)) - 1, 0)]
  <2>1. Greatest(Clamped(t, Loaded(t)) - 1, 0) \in Nat
    BY <1>1, PageFacts DEF ClickBack, Greatest
  <2>2. s \in Sessions /\ tab' = [tab EXCEPT ![t] = s] /\ s.pc = "rerun"
    BY <1>1, <2>1, TabType DEF ClickBack, Sessions, Buttons
  <2> HIDE DEF s
  <2> QED BY <1>1, <2>2, ClickStep DEF ClickBack, OnPage
<1>2. CASE ClickLost(t)
  <2> DEFINE s == [tab[t] EXCEPT !.shown = Nobody, !.button = "none"]
  <2>1. s \in Sessions /\ tab' = [tab EXCEPT ![t] = s] /\ s.pc = "idle" /\ s.shown = Nobody
    BY <1>2, TabType DEF ClickLost, Sessions
  <2> HIDE DEF s
  <2> QED BY <1>2, <2>1, ClickStep DEF ClickLost, OnPage
<1>3. ASSUME NEW button \in Buttons \ {"back"}, NEW v \in Verdicts, ClickVerdict(t, button, v)
      PROVE  IInv'
  <2> DEFINE s == [tab[t] EXCEPT !.pc = "saving", !.button = button,
                     !.idx = Clamped(t, Loaded(t)), !.pick = Candidate(t, Loaded(t)),
                     !.size = Cardinality(View(t, Loaded(t))), !.verdict = v]
  <2>1. /\ Clamped(t, Loaded(t)) \in Nat /\ Candidate(t, Loaded(t)) \in Ids
        /\ Candidate(t, Loaded(t)) \in Loaded(t).candidates
        /\ Cardinality(View(t, Loaded(t))) \in Nat \ {0}
    BY <1>3, PageFacts DEF ClickVerdict
  <2>2. s \in Sessions
    BY <2>1, TabType, PickSession
  <2>3. tab' = [tab EXCEPT ![t] = s]
    BY <1>3, TabType DEF ClickVerdict
  <2>4. s.pc = "saving" /\ s.pick \in Loaded(t).candidates /\ s.size >= 1
    BY <2>1, TabType DEF Sessions
  <2>5. /\ OnPage(tab[t]) /\ db' = Loaded(t)
        /\ UNCHANGED <<gold, absent, up, holder, exports, judged, stops>>
    BY <1>3 DEF ClickVerdict, OnPage
  <2> HIDE DEF s
  <2> QED BY <2>2, <2>3, <2>4, <2>5, ClickStep
<1> QED BY <1>1, <1>2, <1>3

LEMMA RefilterInv ==
  ASSUME IInv, NEW t \in Tabs, OpenTab(t) \/ \E filter \in Filters : Refilter(t, filter)
  PROVE  IInv'
<1>1. ASSUME NEW s \in Sessions, tab' = [tab EXCEPT ![t] = s], s.pc = "rerun", up,
             tab[t].pc \in {"closed", "idle"},
             UNCHANGED <<db, gold, absent, up, holder, exports, judged, stops>>
      PROVE  IInv'
  <2>1. Keeps(db') /\ Holds(db') /\ ~Exporting(t) /\ ~Locks(s) /\ ~OnPage(s)
    BY <1>1 DEF IInv, TypeOK, Keeps, Holds, Stored, Exporting, Locks, OnPage
  <2> QED BY <1>1, <2>1, SessionStep DEF exports
<1>2. CASE OpenTab(t)
  <2> DEFINE s == [tab[t] EXCEPT !.pc = "rerun"]
  <2>1. s \in Sessions /\ tab' = [tab EXCEPT ![t] = s] /\ s.pc = "rerun"
    BY <1>2, TabType DEF OpenTab, Sessions
  <2> HIDE DEF s
  <2> QED BY <1>1, <1>2, <2>1 DEF OpenTab
<1>3. ASSUME NEW filter \in Filters, Refilter(t, filter) PROVE IInv'
  <2> DEFINE s == [tab[t] EXCEPT !.pc = "rerun", !.corpus = filter[1], !.review = filter[2],
                                 !.button = "none"]
  <2>1. filter[1] \in Corpora /\ filter[2] \in Reviews
    OBVIOUS
  <2>2. s \in Sessions /\ s.pc = "rerun"
    BY <2>1, TabType DEF Sessions
  <2>3. tab' = [tab EXCEPT ![t] = s]
    BY <1>3, TabType DEF Refilter
  <2>4. up
    BY <1>3, OpenProcess DEF Refilter
  <2> HIDE DEF s
  <2> QED BY <1>1, <1>3, <2>2, <2>3, <2>4 DEF Refilter
<1> QED BY <1>2, <1>3

LEMMA SaveInv ==
  ASSUME IInv, NEW t \in Tabs, Save(t)
  PROVE  IInv'
<1> DEFINE s == [tab[t] EXCEPT !.pc = "exporting"]
           i == tab[t].pick
<1>1. /\ tab[t] \in Sessions /\ tab[t].verdict \in Adjudications /\ i \in db.candidates
      /\ tab[t].size >= 1 /\ db \in Databases /\ judged \in [Ids -> Adjudications] /\ i \in Ids
  BY DEF IInv, TypeOK, PickIsStored, Save, Sessions, Databases
<1>2. /\ s \in Sessions /\ tab' = [tab EXCEPT ![t] = s]
      /\ s.pc = "exporting" /\ s.pick = i /\ s.size = tab[t].size
  BY <1>1, TabType DEF Save, Sessions
<1>3. /\ db' \in Databases /\ db'.candidates = db.candidates
      /\ db'.adjudications = [db.adjudications EXCEPT ![i] = tab[t].verdict]
  BY <1>1 DEF Save, save_adjudication, Databases
<1>4. judged' \in [Ids -> Adjudications]
  BY <1>1 DEF Save
<1>5. tab' \in [Tabs -> Sessions] /\ \A u \in Tabs : tab'[u] = IF u = t THEN s ELSE tab[u]
  BY <1>2, TabType
<1> HIDE DEF s, i
<1>6. /\ tab[t].pc = "saving" /\ alone' = Undisturbed(t) /\ t \notin shared
      /\ UNCHANGED <<gold, absent, up, holder, shared, blurred, stops>>
  BY DEF Save, IInv, SharedWrites
<1>7. Exporting(t)' /\ \A u \in Tabs \ {t} : Exporting(u)' <=> Exporting(u)
  BY <1>2, <1>5 DEF Exporting
<1>8. Stored(db)'
  BY <1>1, <1>3 DEF IInv, Stored, Databases
<1>9. FileKeepsUp' /\ AbsentFileAbsent'
  BY <1>6, <1>7 DEF IInv, FileKeepsUp, AbsentFileAbsent, Rows
<1>10. PickIsStored' /\ NoProcessNoSession'
  <2>1. up
    BY OpenProcess DEF Save
  <2> QED BY <1>1, <1>2, <1>3, <1>5, <1>6, <1>7, <2>1 DEF IInv, PickIsStored, NoProcessNoSession
<1>11. LockIsHeld' /\ PageIsStored'
  BY <1>2, <1>3, <1>5, <1>6 DEF IInv, LockIsHeld, PageIsStored, Locks, OnPage
<1>12. SharedWrites' /\ AloneIsAlone' /\ RowsAreNew'
  <2>1. alone' \subseteq {t} /\ (t \in alone' => \A u \in Tabs \ {t} : ~Exporting(u))
    BY <1>6 DEF Undisturbed
  <2>2. shared \subseteq Tabs
    BY DEF IInv, TypeOK
  <2> QED BY <1>2, <1>5, <1>6, <1>7, <2>1, <2>2 DEF IInv, SharedWrites, AloneIsAlone, RowsAreNew
<1>13. TypeOK'
  <2>1. alone' \subseteq Tabs
    BY <1>6 DEF Undisturbed
  <2> QED BY <1>3, <1>4, <1>5, <1>6, <2>1 DEF IInv, TypeOK
<1> QED BY <1>8, <1>9, <1>10, <1>11, <1>12, <1>13 DEF IInv

(* The steps of the export, up to the last: the tab stays between the halves  *)
(* of its save, with the rows it has collected or is about to.                *)
LEMMA ExportStep ==
  ASSUME IInv, NEW t \in Tabs, NEW s \in Sessions, tab' = [tab EXCEPT ![t] = s],
         Exporting(t), s.pc \in {"collected", "writing"}, tab[t].pc # "writing",
         s.pick = tab[t].pick, s.size = tab[t].size, gold' \in Files,
         UNCHANGED <<db, absent, up, holder, alone, blurred, judged, stops>>,
         shared' \subseteq Tabs, \A u \in shared' : (tab[u].pc = "writing")',
         \A u \in alone : Exporting(u) => u \notin shared',
         (t \in alone /\ stops = 0) =>
           \A i \in GoldIds :
             db.adjudications[i] # Unreviewed => s.rows.rows[i] = db.adjudications[i]
  PROVE  IInv'
<1>1. tab' \in [Tabs -> Sessions] /\ \A u \in Tabs : tab'[u] = IF u = t THEN s ELSE tab[u]
  BY TabType
<1>2. /\ \A u \in Tabs : Exporting(u)' <=> Exporting(u)
      /\ Locks(tab[t]) /\ ~OnPage(s)
  BY <1>1 DEF Exporting, Locks, OnPage
<1>3. TypeOK'
  BY <1>1 DEF IInv, TypeOK
<1>4. FileKeepsUp' /\ Stored(db)' /\ AbsentFileAbsent'
  BY <1>2 DEF IInv, FileKeepsUp, Stored, AbsentFileAbsent, Rows
<1>5. PickIsStored'
  BY <1>1, <1>2 DEF IInv, PickIsStored
<1>6. NoProcessNoSession'
  <2>1. up
    BY OpenProcess DEF Exporting
  <2> QED BY <2>1 DEF NoProcessNoSession
<1>7. LockIsHeld' /\ PageIsStored'
  <2>1. ASSUME NEW u \in Tabs
        PROVE  (Locks(tab[u]) => holder = "workbench")' /\ (OnPage(tab[u]) => db.candidates # {})'
    <3>1. CASE u = t
      BY <1>1, <1>2, <3>1 DEF IInv, LockIsHeld, PageIsStored
    <3>2. CASE u # t
      BY <1>1, <3>2 DEF IInv, LockIsHeld, PageIsStored, Locks, OnPage
    <3> QED BY <3>1, <3>2
  <2> QED BY <2>1 DEF LockIsHeld, PageIsStored
<1>8. SharedWrites' /\ AloneIsAlone'
  BY <1>2 DEF IInv, TypeOK, SharedWrites, AloneIsAlone
<1>9. RowsAreNew'
  BY <1>1 DEF IInv, TypeOK, RowsAreNew
<1> QED BY <1>3, <1>4, <1>5, <1>6, <1>7, <1>8, <1>9 DEF IInv

LEMMA CollectInv ==
  ASSUME IInv, NEW t \in Tabs, Collect(t)
  PROVE  IInv'
<1> DEFINE s == [tab[t] EXCEPT !.pc = "collected", !.rows = export_jsonl(db, "all")]
<1>1. /\ export_jsonl(db, "all") \in Files /\ db \in Databases
      /\ \A i \in db.candidates : export_jsonl(db, "all").rows[i] = db.adjudications[i]
  BY ExportFacts DEF IInv, TypeOK, CorpusIds, Databases
<1>2. /\ s \in Sessions /\ tab' = [tab EXCEPT ![t] = s] /\ s.pc = "collected"
      /\ s.rows = export_jsonl(db, "all") /\ s.pick = tab[t].pick /\ s.size = tab[t].size
  BY <1>1, TabType DEF Collect, Sessions
<1> HIDE DEF s
<1>3. \A i \in GoldIds :
        db.adjudications[i] # Unreviewed => s.rows.rows[i] = db.adjudications[i]
  BY <1>1, <1>2 DEF IInv, Stored
<1>4. /\ Exporting(t) /\ tab[t].pc = "exporting"
      /\ UNCHANGED <<db, gold, absent, up, holder, shared, alone, blurred, judged, stops>>
  BY DEF Collect, Exporting, exports
<1>5. /\ gold' \in Files /\ shared' \subseteq Tabs
      /\ \A u \in alone : Exporting(u) => u \notin shared'
  BY <1>4 DEF IInv, TypeOK, AloneIsAlone
<1>6. \A u \in shared' : (tab[u].pc = "writing")'
  BY <1>2, <1>4, TabType DEF IInv, TypeOK, SharedWrites
<1> QED BY <1>2, <1>3, <1>4, <1>5, <1>6, ExportStep

LEMMA OpenFileInv ==
  ASSUME IInv, NEW t \in Tabs, NEW n, NEW torn \in BOOLEAN, OpenFile(t, n, torn)
  PROVE  IInv'
<1> DEFINE s == [tab[t] EXCEPT !.pc = "writing"]
           others == {u \in Tabs : tab[u].pc = "writing"}
<1>1. /\ s \in Sessions /\ tab' = [tab EXCEPT ![t] = s] /\ s.pc = "writing"
      /\ s.rows = tab[t].rows /\ s.pick = tab[t].pick /\ s.size = tab[t].size
  BY TabType DEF OpenFile, Sessions
<1> HIDE DEF s
<1>2. /\ Exporting(t) /\ tab[t].pc = "collected"
      /\ UNCHANGED <<db, absent, up, holder, alone, blurred, judged, stops>>
      /\ gold' = Cut(tab[t].rows, n, torn)
      /\ shared' = IF others = {} THEN shared ELSE shared \cup others \cup {t}
  BY DEF OpenFile, Exporting
<1>3. gold' \in Files
  BY <1>2, TabType, CutFacts DEF Sessions
<1>4. \A u \in Tabs : tab'[u] = IF u = t THEN s ELSE tab[u]
  BY <1>1, TabType
<1>5. shared' \subseteq Tabs /\ \A u \in shared' : (tab[u].pc = "writing")'
  BY <1>1, <1>2, <1>4 DEF IInv, TypeOK, SharedWrites
<1>6. ASSUME NEW u \in alone, Exporting(u) PROVE u \notin shared'
  <2>1. u \notin shared /\ u \in Tabs /\ t = u /\ \A v \in Tabs : Exporting(v) => v = u
    BY <1>2, <1>6 DEF IInv, TypeOK, AloneIsAlone
  <2>2. others = {}
    BY <1>2, <2>1 DEF Exporting
  <2> QED BY <1>2, <2>1, <2>2
<1>7. (t \in alone /\ stops = 0) =>
        \A i \in GoldIds :
          db.adjudications[i] # Unreviewed => s.rows.rows[i] = db.adjudications[i]
  BY <1>1, <1>2 DEF IInv, RowsAreNew
<1> HIDE DEF others
<1> QED BY <1>1, <1>2, <1>3, <1>5, <1>6, <1>7, ExportStep

LEMMA WriteFileInv ==
  ASSUME IInv, NEW t \in Tabs, WriteFile(t)
  PROVE  IInv'
<1> DEFINE s == [tab[t] EXCEPT !.pc = "rerun", !.idx = NextIdx(tab[t]), !.rows = EmptyFile]
<1>1. NextIdx(tab[t]) \in Nat
  BY TabType DEF IInv, PickIsStored, WriteFile, Exporting, NextIdx, Least, Greatest, Sessions
<1>2. EmptyFile \in Files
  BY DEF EmptyFile, Files
<1>3. s \in Sessions /\ tab' = [tab EXCEPT ![t] = s] /\ s.pc = "rerun"
  BY <1>1, <1>2, TabType DEF WriteFile, Sessions
<1> HIDE DEF s
<1>4. tab' \in [Tabs -> Sessions] /\ \A u \in Tabs : tab'[u] = IF u = t THEN s ELSE tab[u]
  BY <1>3, TabType
<1>5. /\ tab[t].pc = "writing" /\ Exporting(t) /\ gold' \in Written(t)
      /\ shared' = shared \ {t} /\ blurred' = (t \notin alone)
      /\ UNCHANGED <<db, absent, up, holder, alone, judged, stops>>
  BY DEF WriteFile, Exporting
<1>6. gold' \in Files
  <2>1. CASE t \notin shared
    BY <1>5, <2>1, TabType DEF Written, Sessions
  <2>2. CASE t \in shared
    <3> DEFINE Writers == {u \in Tabs : tab[u].pc = "writing"}
               Sources(i) == {Missing, gold.rows[i]} \cup {tab[u].rows.rows[i] : u \in Writers}
    <3>1. gold' \in [rows : [Ids -> UNION {Sources(i) : i \in Ids}], torn : BOOLEAN]
      BY <1>5, <2>2 DEF Written, Mixed
    <3>2. ASSUME NEW i \in Ids PROVE Sources(i) \subseteq Adjudications \cup {Missing}
      <4>1. gold.rows[i] \in Adjudications \cup {Missing}
        BY DEF IInv, TypeOK, Files
      <4>2. \A u \in Tabs : tab[u].rows.rows[i] \in Adjudications \cup {Missing}
        BY TabType DEF Sessions, Files
      <4> QED BY <4>1, <4>2
    <3>3. UNION {Sources(i) : i \in Ids} \subseteq Adjudications \cup {Missing}
      BY <3>2
    <3> HIDE DEF Sources
    <3> QED BY <3>1, <3>3 DEF Files
  <2> QED BY <2>1, <2>2
<1>7. /\ ~Exporting(t)' /\ \A u \in Tabs \ {t} : Exporting(u)' <=> Exporting(u)
      /\ ~Locks(s) /\ ~OnPage(s)
  BY <1>3, <1>4 DEF Exporting, Locks, OnPage
<1>8. FileKeepsUp'
  <2> SUFFICES ASSUME stops = 0, t \in alone PROVE FileKeepsUp'
    BY <1>5 DEF FileKeepsUp
  <2>1. gold' = tab[t].rows
    BY <1>5 DEF IInv, AloneIsAlone, Written
  <2> QED BY <1>5, <2>1 DEF IInv, RowsAreNew, FileKeepsUp
<1>9. Stored(db)' /\ AbsentFileAbsent'
  BY <1>5 DEF IInv, Stored, AbsentFileAbsent, Rows
<1>10. PickIsStored' /\ NoProcessNoSession'
  <2>1. up
    BY <1>5, OpenProcess
  <2> QED BY <1>3, <1>4, <1>5, <1>7, <2>1 DEF IInv, PickIsStored, NoProcessNoSession
<1>11. LockIsHeld' /\ PageIsStored'
  <2>1. ASSUME NEW u \in Tabs
        PROVE  (Locks(tab[u]) => holder = "workbench")' /\ (OnPage(tab[u]) => db.candidates # {})'
    <3>1. CASE u = t
      BY <1>4, <1>7, <3>1
    <3>2. CASE u # t
      BY <1>4, <1>5, <3>2 DEF IInv, LockIsHeld, PageIsStored, Locks, OnPage
    <3> QED BY <3>1, <3>2
  <2> QED BY <2>1 DEF LockIsHeld, PageIsStored
<1>12. SharedWrites' /\ AloneIsAlone' /\ RowsAreNew'
  <2>1. shared \subseteq Tabs /\ alone \subseteq Tabs
    BY DEF IInv, TypeOK
  <2>2. SharedWrites'
    BY <1>4, <1>5, <2>1 DEF IInv, SharedWrites
  <2>3. AloneIsAlone'
    BY <1>5, <1>7, <2>1 DEF IInv, AloneIsAlone
  <2>4. RowsAreNew'
    BY <1>3, <1>4, <1>5, <2>1 DEF IInv, RowsAreNew
  <2> QED BY <2>2, <2>3, <2>4
<1>13. TypeOK'
  BY <1>4, <1>5, <1>6 DEF IInv, TypeOK
<1> QED BY <1>8, <1>9, <1>10, <1>11, <1>12, <1>13 DEF IInv

-----------------------------------------------------------------------------
(* A step that may change the database and ends all sessions.                 *)
LEMMA StopInv ==
  ASSUME IInv, StopProcess, Keeps(db')
  PROVE  IInv'
<1>1. /\ stops' \in 0..MaxStops /\ stops' # 0 /\ shared' = {}
      /\ tab' = [t \in Tabs |-> Closed] /\ Closed \in Sessions
      /\ UNCHANGED <<gold, absent, judged, alone, blurred>> /\ up' = FALSE
      /\ holder' \in {"none", "workbench", "script"}
  BY DEF StopProcess, IInv, TypeOK, Closed, Sessions, Reviews, Corpora, Adjudications,
         EmptyFile, Files
<1>2. TypeOK'
  BY <1>1 DEF IInv, TypeOK, Keeps
<1>3. Stored(db)' /\ FileKeepsUp' /\ AbsentFileAbsent'
  BY <1>1 DEF IInv, Keeps, Stored, FileKeepsUp, AbsentFileAbsent, Rows
<1>4. PickIsStored' /\ NoProcessNoSession' /\ LockIsHeld' /\ PageIsStored'
  BY <1>1 DEF PickIsStored, NoProcessNoSession, LockIsHeld, PageIsStored, Locks, OnPage,
              Exporting, Closed
<1>5. SharedWrites' /\ AloneIsAlone' /\ RowsAreNew'
  BY <1>1 DEF IInv, TypeOK, SharedWrites, AloneIsAlone, RowsAreNew, Exporting, Closed
<1> QED BY <1>2, <1>3, <1>4, <1>5 DEF IInv

(* What a stop leaves of the database is something a load may leave. *)
LEMMA StopsKeep ==
  ASSUME IInv, NEW t \in Tabs, NEW n \in Places, NEW m \in {n, n + 1},
         Stop \/ StopInSeed(t, n, m) \/ StopInMerge(t, n, m)
  PROVE  /\ StopProcess /\ Keeps(db')
         /\ tab[t].pc # "seeding" => Holds(db')
<1>1. CASE Stop
  BY <1>1 DEF Stop, IInv, TypeOK, Keeps, Holds, Stored
<1>2. CASE StopInSeed(t, n, m)
  <2>1. Below(Rows(gold), n) \in SUBSET Rows(gold) /\ Below(Rows(gold), m) \in SUBSET Ids
    BY DEF Below, Rows
  <2>2. Keeps(db')
    BY <1>2, <2>1, SeedKeeps, UpsertKeeps DEF StopInSeed, PartOf
  <2> QED BY <1>2, <2>2 DEF StopInSeed
<1>3. CASE StopInMerge(t, n, m)
  <2>1. Below(Rows(absent), n) \in SUBSET Rows(absent) /\ Below(Rows(absent), m) \in SUBSET Ids
    BY DEF Below, Rows
  <2>2. Keeps(db') /\ (tab[t].pc # "seeding" => Holds(db'))
    BY <1>3, <2>1, MergeKeeps, UpsertKeeps DEF StopInMerge, PartOf
  <2> QED BY <1>3, <2>2 DEF StopInMerge
<1> QED BY <1>1, <1>2, <1>3

(* The scripts run without the connection of the workbench: they leave the    *)
(* sessions alone, none of which holds the lock, and the database only grows. *)
LEMMA ScriptStep ==
  ASSUME IInv, holder \in {"none", "script"}, UNCHANGED <<up, tab, shared, alone>>,
         db' \in Databases, Stored(db'), gold' \in Files, absent' \in Files,
         holder' \in {"none", "script"}, blurred' \in BOOLEAN,
         judged' \in [Ids -> Adjudications], stops' \in 0..MaxStops
  PROVE  /\ TypeOK' /\ Stored(db)' /\ PickIsStored' /\ NoProcessNoSession' /\ LockIsHeld'
         /\ PageIsStored' /\ SharedWrites' /\ AloneIsAlone' /\ RowsAreNew'
         /\ \A t \in Tabs : ~Locks(tab[t]) /\ ~Exporting(t)
<1>1. \A t \in Tabs : ~Locks(tab[t])
  BY DEF IInv, LockIsHeld
<1>2. \A t \in Tabs : ~Exporting(t) /\ ~OnPage(tab[t]) /\ tab[t].pc # "saving"
  BY <1>1 DEF Locks, Exporting
<1>3. TypeOK' /\ Stored(db)' /\ NoProcessNoSession'
  BY DEF IInv, TypeOK, Stored, NoProcessNoSession
<1>4. PickIsStored' /\ LockIsHeld' /\ PageIsStored'
  BY <1>1, <1>2 DEF PickIsStored, LockIsHeld, PageIsStored, Exporting
<1>5. SharedWrites' /\ AloneIsAlone' /\ RowsAreNew'
  BY <1>2 DEF IInv, TypeOK, SharedWrites, AloneIsAlone, RowsAreNew, Exporting
<1> QED BY <1>1, <1>2, <1>3, <1>4, <1>5

LEMMA LabelFacts ==
  ASSUME IInv, NEW S \in SUBSET DOMAIN Label
  PROVE  /\ Labelled(S) \in Databases
         /\ Labelled(S).candidates = db.candidates \cup S
         /\ \A i \in Ids :
              Labelled(S).adjudications[i] = IF i \in S THEN Label[i] ELSE db.adjudications[i]
         /\ Stored(Labelled(S))
         /\ Relabel(judged, S) \in [Ids -> Adjudications]
         /\ \A i \in Ids : Relabel(judged, S)[i] = IF i \in S THEN Label[i] ELSE judged[i]
<1>1. db \in Databases /\ judged \in [Ids -> Adjudications] /\ Stored(db)
  BY DEF IInv, TypeOK
<1>2. S \subseteq Ids /\ \A i \in S : Label[i] \in Verdicts
  OBVIOUS
<1>3. ASSUME NEW f \in [Ids -> Adjudications]
      PROVE  /\ Relabel(f, S) \in [Ids -> Adjudications]
             /\ \A i \in Ids : Relabel(f, S)[i] = IF i \in S THEN Label[i] ELSE f[i]
  BY <1>2 DEF Relabel, Adjudications
<1>4. Relabel(db.adjudications, S) \in [Ids -> Adjudications]
  BY <1>1, <1>3 DEF Databases
<1>5. /\ Labelled(S) \in Databases /\ Labelled(S).candidates = db.candidates \cup S
      /\ \A i \in Ids :
           Labelled(S).adjudications[i] = IF i \in S THEN Label[i] ELSE db.adjudications[i]
  BY <1>1, <1>2, <1>3, <1>4 DEF Databases, Labelled
<1> QED BY <1>1, <1>3, <1>5 DEF Stored

LEMMA GoldExtrasInv ==
  ASSUME IInv, NEW n, NEW torn \in BOOLEAN, GoldExtras \/ StopInGoldExtras(n, torn)
  PROVE  IInv'
<1> DEFINE file == export_jsonl(db', "gold_pool_extras")
<1>1. /\ db' = Labelled(DOMAIN Label) /\ judged' = Relabel(judged, DOMAIN Label)
      /\ UNCHANGED <<absent, up, tab, shared, alone>> /\ holder = "script" /\ holder' = "none"
      /\ stops' \in 0..MaxStops /\ blurred' \in BOOLEAN
      /\ gold' = file \/ (stops' # 0 /\ gold' = Cut(file, n, torn))
  <2>1. stops \in 0..MaxStops /\ blurred \in BOOLEAN
    BY DEF IInv, TypeOK
  <2>2. CASE GoldExtras
    BY <2>1, <2>2 DEF GoldExtras
  <2>3. CASE StopInGoldExtras(n, torn)
    <3>1. /\ db' = Labelled(DOMAIN Label) /\ judged' = Relabel(judged, DOMAIN Label)
          /\ UNCHANGED <<absent, up, tab, shared, alone, blurred>>
          /\ holder = "script" /\ holder' = "none"
      BY <2>3 DEF StopInGoldExtras, exports
    <3>2. stops' \in 0..MaxStops /\ stops' # 0
      BY <2>1, <2>3 DEF StopInGoldExtras
    <3>3. gold' = Cut(file, n, torn)
      BY <2>3 DEF StopInGoldExtras
    <3> HIDE DEF file
    <3> QED BY <2>1, <3>1, <3>2, <3>3
  <2> QED BY <2>2, <2>3
<1>2. /\ db' \in Databases /\ Stored(db') /\ judged' \in [Ids -> Adjudications]
      /\ \A i \in Ids :
           db'.adjudications[i] = IF i \in DOMAIN Label THEN Label[i] ELSE db.adjudications[i]
  BY <1>1, LabelFacts
<1>3. file \in Files /\ \A i \in db'.candidates \cap GoldIds : file.rows[i] = db'.adjudications[i]
  BY <1>2, ExportFacts DEF CorpusIds
<1>4. gold' \in Files /\ absent' \in Files
  BY <1>1, <1>3, CutFacts DEF IInv, TypeOK
<1> HIDE DEF file
<1>5. /\ TypeOK' /\ Stored(db)' /\ PickIsStored' /\ NoProcessNoSession' /\ LockIsHeld'
      /\ PageIsStored' /\ SharedWrites' /\ AloneIsAlone' /\ RowsAreNew'
  BY <1>1, <1>2, <1>4, ScriptStep
<1>6. FileKeepsUp'
  BY <1>1, <1>2, <1>3 DEF FileKeepsUp, Stored
<1>7. AbsentFileAbsent'
  BY <1>1 DEF IInv, AbsentFileAbsent, Rows
<1> QED BY <1>5, <1>6, <1>7 DEF IInv

LEMMA GoldExtrasRaisesInv ==
  ASSUME IInv, NEW S \in SUBSET DOMAIN Label, NEW extra \in GoldIds, GoldExtrasRaises(S, extra)
  PROVE  IInv'
<1>1. /\ db' = upsert_candidate(Labelled(S), {extra}) /\ judged' = Relabel(judged, S)
      /\ UNCHANGED <<gold, absent, up, tab, shared, alone, blurred>>
      /\ holder = "script" /\ holder' = "none" /\ stops' \in 0..MaxStops /\ stops' # 0
  BY DEF GoldExtrasRaises, exports, IInv, TypeOK
<1>2. db' \in Databases /\ Stored(db') /\ judged' \in [Ids -> Adjudications]
  BY <1>1, LabelFacts DEF Databases, Stored, upsert_candidate
<1>3. gold' \in Files /\ absent' \in Files /\ blurred' \in BOOLEAN
  BY <1>1 DEF IInv, TypeOK
<1>4. /\ TypeOK' /\ Stored(db)' /\ PickIsStored' /\ NoProcessNoSession' /\ LockIsHeld'
      /\ PageIsStored' /\ SharedWrites' /\ AloneIsAlone' /\ RowsAreNew'
  BY <1>1, <1>2, <1>3, ScriptStep
<1>5. FileKeepsUp' /\ AbsentFileAbsent'
  BY <1>1 DEF IInv, FileKeepsUp, AbsentFileAbsent, Rows
<1> QED BY <1>4, <1>5 DEF IInv

LEMMA DiscoveryInv ==
  ASSUME IInv, NEW found \in SUBSET (Ids \ GoldIds), NEW n \in Places, NEW torn \in BOOLEAN,
         AbsentDiscovery(found) \/ StopInDiscovery(found, n, torn)
  PROVE  IInv'
<1> DEFINE file == export_jsonl(upsert_candidate(db, found), "spellbook_absent")
<1>1. /\ db' = upsert_candidate(db, found)
      /\ UNCHANGED <<gold, up, tab, shared, alone, blurred, judged>>
      /\ holder = "script" /\ holder' = "none"
      /\ stops' \in 0..MaxStops /\ (stops' = 0 => stops = 0)
      /\ absent' = file \/ absent' = Cut(file, n, torn)
  BY DEF AbsentDiscovery, StopInDiscovery, exports, IInv, TypeOK
<1>2. /\ db' \in Databases /\ Stored(db') /\ db'.adjudications = db.adjudications
  BY <1>1 DEF IInv, TypeOK, Databases, Stored, upsert_candidate
<1>3. file \in Files /\ Rows(file) \subseteq Ids \ GoldIds
  BY <1>1, <1>2, ExportFacts DEF CorpusIds
<1>4. absent' \in Files /\ AbsentFileAbsent'
  <2>1. CASE absent' = file
    BY <1>3, <2>1 DEF AbsentFileAbsent, Rows
  <2>2. CASE absent' = Cut(file, n, torn)
    BY <1>3, <2>2, CutFacts DEF AbsentFileAbsent, Rows
  <2> QED BY <1>1, <2>1, <2>2
<1> HIDE DEF file
<1>5. gold' \in Files /\ judged' \in [Ids -> Adjudications] /\ blurred' \in BOOLEAN
  BY <1>1 DEF IInv, TypeOK
<1>6. /\ TypeOK' /\ Stored(db)' /\ PickIsStored' /\ NoProcessNoSession' /\ LockIsHeld'
      /\ PageIsStored' /\ SharedWrites' /\ AloneIsAlone' /\ RowsAreNew'
  BY <1>1, <1>2, <1>4, <1>5, ScriptStep
<1>7. FileKeepsUp'
  BY <1>1, <1>2 DEF IInv, FileKeepsUp, Exporting
<1> QED BY <1>4, <1>6, <1>7 DEF IInv

LEMMA OtherInv ==
  ASSUME IInv, Launch \/ StartScript \/ ScriptFails \/ FreshCheckout
  PROVE  IInv'
<1>1. CASE Launch
  <2>1. ~up /\ up' /\ UNCHANGED <<db, gold, absent, holder, tab, shared, alone, blurred, judged, stops>>
    BY <1>1 DEF Launch, exports
  <2>2. TypeOK' /\ FileKeepsUp' /\ Stored(db)' /\ AbsentFileAbsent'
    BY <2>1 DEF IInv, TypeOK, FileKeepsUp, Stored, AbsentFileAbsent, Rows, Exporting
  <2>3. PickIsStored' /\ NoProcessNoSession' /\ LockIsHeld' /\ PageIsStored'
    BY <2>1 DEF IInv, PickIsStored, NoProcessNoSession, LockIsHeld, PageIsStored, Exporting
  <2>4. SharedWrites' /\ AloneIsAlone' /\ RowsAreNew'
    BY <2>1 DEF IInv, SharedWrites, AloneIsAlone, RowsAreNew, Exporting
  <2> QED BY <2>2, <2>3, <2>4 DEF IInv
<1>2. CASE StartScript \/ ScriptFails
  <2>1. /\ UNCHANGED <<db, gold, absent, up, tab, shared, alone, blurred, judged, stops>>
        /\ holder \in {"none", "script"} /\ holder' \in {"none", "script"}
    BY <1>2 DEF StartScript, ScriptFails, exports
  <2>2. /\ db' \in Databases /\ Stored(db') /\ gold' \in Files /\ absent' \in Files
        /\ blurred' \in BOOLEAN /\ judged' \in [Ids -> Adjudications] /\ stops' \in 0..MaxStops
    BY <2>1 DEF IInv, TypeOK, Stored
  <2>3. /\ TypeOK' /\ Stored(db)' /\ PickIsStored' /\ NoProcessNoSession' /\ LockIsHeld'
        /\ PageIsStored' /\ SharedWrites' /\ AloneIsAlone' /\ RowsAreNew'
    BY <2>1, <2>2, ScriptStep
  <2>4. FileKeepsUp' /\ AbsentFileAbsent'
    BY <2>1 DEF IInv, FileKeepsUp, AbsentFileAbsent, Rows, Exporting
  <2> QED BY <2>3, <2>4 DEF IInv
<1>3. CASE FreshCheckout
  <2>1. /\ EmptyDatabase \in Databases /\ EmptyFile \in Files /\ Rows(EmptyFile) = {}
        /\ Stored(EmptyDatabase)
        /\ judged' = [i \in Ids |-> Unreviewed] /\ judged' \in [Ids -> Adjudications]
    BY <1>3 DEF FreshCheckout, EmptyDatabase, EmptyFile, Databases, Files, Adjudications, Rows,
                Stored
  <2>2. /\ db' = EmptyDatabase /\ absent' = EmptyFile /\ holder = "none" /\ ~up
        /\ UNCHANGED <<gold, up, holder, tab, shared, alone, blurred>>
        /\ stops' \in 0..MaxStops /\ stops' # 0
    BY <1>3 DEF FreshCheckout, exports, IInv, TypeOK
  <2>3. gold' \in Files /\ blurred' \in BOOLEAN
    BY <2>2 DEF IInv, TypeOK
  <2>4. /\ TypeOK' /\ Stored(db)' /\ PickIsStored' /\ NoProcessNoSession' /\ LockIsHeld'
        /\ PageIsStored' /\ SharedWrites' /\ AloneIsAlone' /\ RowsAreNew'
    BY <2>1, <2>2, <2>3, ScriptStep
  <2>5. FileKeepsUp' /\ AbsentFileAbsent'
    BY <2>1, <2>2 DEF FileKeepsUp, AbsentFileAbsent, Rows
  <2> QED BY <2>4, <2>5 DEF IInv
<1> QED BY <1>1, <1>2, <1>3

LEMMA NextInv == IInv /\ [Next]_vars => IInv'
<1> SUFFICES ASSUME IInv, [Next]_vars PROVE IInv'
  OBVIOUS
<1>1. CASE UNCHANGED vars
  <2>1. TypeOK' /\ FileKeepsUp' /\ Stored(db)' /\ AbsentFileAbsent'
    BY <1>1 DEF vars, IInv, TypeOK, FileKeepsUp, Stored, AbsentFileAbsent, Rows, Exporting
  <2>2. PickIsStored' /\ NoProcessNoSession' /\ LockIsHeld' /\ PageIsStored'
    BY <1>1 DEF vars, IInv, PickIsStored, NoProcessNoSession, LockIsHeld, PageIsStored, Exporting
  <2>3. SharedWrites' /\ AloneIsAlone' /\ RowsAreNew'
    BY <1>1 DEF vars, IInv, SharedWrites, AloneIsAlone, RowsAreNew, Exporting
  <2> QED BY <2>1, <2>2, <2>3 DEF IInv
<1>2. ASSUME NEW t \in Tabs, TabStep(t) PROVE IInv'
  <2>1. ASSUME NEW n \in Places, NEW m \in {n, n + 1}, StopInSeed(t, n, m) \/ StopInMerge(t, n, m)
        PROVE  IInv'
    BY <2>1, StopsKeep, StopInv
  <2>2. ASSUME NEW n \in Places, NEW torn \in BOOLEAN, OpenFile(t, n, torn) PROVE IInv'
    BY <2>2, OpenFileInv
  <2> QED BY <1>2, <2>1, <2>2, RefilterInv, ShowInv, ClickInv, SaveInv, CollectInv, WriteFileInv
          DEF TabStep
<1>3. CASE Stop
  <2>1. Keeps(db')
    BY <1>3 DEF Stop, IInv, TypeOK, Keeps, Stored
  <2> QED BY <1>3, <2>1, StopInv DEF Stop
<1>4. ASSUME NEW found \in SUBSET (Ids \ GoldIds),
             \/ AbsentDiscovery(found)
             \/ \E n \in Places, torn \in BOOLEAN : StopInDiscovery(found, n, torn)
      PROVE  IInv'
  <2>1. 0 \in Places /\ FALSE \in BOOLEAN
    BY FS_CardinalityType DEF Places
  <2>2. CASE AbsentDiscovery(found)
    BY <2>1, <2>2, DiscoveryInv
  <2>3. ASSUME NEW n \in Places, NEW torn \in BOOLEAN, StopInDiscovery(found, n, torn)
        PROVE  IInv'
    BY <2>3, DiscoveryInv
  <2> QED BY <1>4, <2>2, <2>3
<1>5. CASE Launch \/ StartScript \/ ScriptFails \/ FreshCheckout
  BY <1>5, OtherInv
<1>6. CASE GoldExtras \/ \E n \in Places, torn \in BOOLEAN : StopInGoldExtras(n, torn)
  <2>1. CASE GoldExtras
    <3>1. FALSE \in BOOLEAN
      OBVIOUS
    <3> QED BY <2>1, <3>1, GoldExtrasInv
  <2>2. ASSUME NEW n \in Places, NEW torn \in BOOLEAN, StopInGoldExtras(n, torn) PROVE IInv'
    BY <2>2, GoldExtrasInv
  <2> QED BY <1>6, <2>1, <2>2
<1>7. ASSUME NEW S \in SUBSET DOMAIN Label, NEW extra \in GoldIds \ S, GoldExtrasRaises(S, extra)
      PROVE  IInv'
  BY <1>7, GoldExtrasRaisesInv
<1> QED BY <1>1, <1>2, <1>3, <1>4, <1>5, <1>6, <1>7 DEF Next

-----------------------------------------------------------------------------
(* In every behaviour, whatever is stopped when, the variables have their     *)
(* types.                                                                     *)
THEOREM TypeCorrect == Spec => []TypeOK
<1>1. IInv => TypeOK
  BY DEF IInv
<1> QED BY InitInv, NextInv, <1>1, PTL DEF Spec

(* For any number of tabs, however their runs interleave: without a stop, the *)
(* gold file has every verdict that the database has on a gold candidate once *)
(* no tab is between the halves of its save and the last one to write the     *)
(* file was not disturbed from its save on.                                   *)
THEOREM FileIsUpToDate == Spec => []FileKeepsUp
<1>1. IInv => FileKeepsUp
  BY DEF IInv
<1> QED BY InitInv, NextInv, <1>1, PTL DEF Spec

-----------------------------------------------------------------------------
(* Verdicts.  Two tabs may both find the database empty, and the second to    *)
(* import the gold file would then do so over verdicts given on the page of   *)
(* the first.  If only one seeds at a time, the database is empty until it    *)
(* has.                                                                       *)
OneSeeds ==
  \A t, u \in Tabs : tab[t].pc = "seeding" /\ tab[u].pc = "seeding" => t = u
SeedsEmpty == \A t \in Tabs : tab[t].pc = "seeding" => db.candidates = {}
VInv == GoldVerdictStands /\ SeedsEmpty

(* A load keeps the verdicts. *)
LEMMA LoadVerdicts ==
  ASSUME IInv, VInv, NEW t \in Tabs, Keeps(db'), tab[t].pc # "seeding" => Holds(db'),
         judged' = judged
  PROVE  GoldVerdictStands'
<1>1. CASE tab[t].pc = "seeding"
  <2>1. \A i \in GoldIds : db.adjudications[i] = Unreviewed
    BY <1>1 DEF IInv, VInv, SeedsEmpty, Stored
  <2> QED BY <2>1 DEF VInv, GoldVerdictStands
<1>2. CASE tab[t].pc # "seeding"
  BY <1>2 DEF VInv, GoldVerdictStands, Holds
<1> QED BY <1>1, <1>2

(* A step of a tab that was the one that seeds, or found the database filled. *)
LEMMA SeedStep ==
  ASSUME IInv, VInv, OneSeeds, NEW t \in Tabs, NEW s, tab' = [tab EXCEPT ![t] = s],
         s.pc # "seeding", tab[t].pc = "seeding" \/ db.candidates # {} \/ db' = db
  PROVE  SeedsEmpty'
<1>1. \A u \in Tabs : tab'[u] = IF u = t THEN s ELSE tab[u]
  BY TabType
<1> QED BY <1>1 DEF VInv, SeedsEmpty, OneSeeds

LEMMA ShowVerdicts ==
  ASSUME IInv, VInv, OneSeeds, NEW t \in Tabs, Show(t)
  PROVE  VInv'
<1>1. CASE StartSeed(t)
  <2>1. db' = db /\ judged' = judged /\ db.candidates = {}
    BY <1>1 DEF StartSeed
  <2> QED BY <2>1 DEF VInv, GoldVerdictStands, SeedsEmpty
<1>2. CASE ShowLocked(t)
  <2> DEFINE s == [tab[t] EXCEPT !.pc = "idle", !.shown = Nobody]
  <2>1. tab' = [tab EXCEPT ![t] = s] /\ s.pc # "seeding" /\ db' = db /\ judged' = judged
    BY <1>2, TabType DEF ShowLocked, Sessions
  <2> HIDE DEF s
  <2> QED BY <2>1, SeedStep DEF VInv, GoldVerdictStands
<1>3. ASSUME Loads(t)
      PROVE  GoldVerdictStands' /\ (tab[t].pc = "seeding" \/ db.candidates # {})
  BY <1>3, LoadedKeeps, LoadVerdicts DEF Loads
<1>4. CASE ShowNothing(t)
  <2> DEFINE s == [tab[t] EXCEPT !.pc = "idle", !.shown = Nobody]
  <2>1. tab' = [tab EXCEPT ![t] = s] /\ s.pc # "seeding" /\ Loads(t)
    BY <1>4, TabType DEF ShowNothing, Sessions
  <2> HIDE DEF s
  <2> QED BY <1>3, <2>1, SeedStep DEF VInv
<1>5. CASE ShowCandidate(t)
  <2> DEFINE s == [tab[t] EXCEPT !.pc = "idle", !.idx = Clamped(t, Loaded(t)),
                                 !.shown = Candidate(t, Loaded(t))]
  <2>1. tab' = [tab EXCEPT ![t] = s] /\ s.pc # "seeding" /\ Loads(t)
    BY <1>5, TabType DEF ShowCandidate, Sessions
  <2> HIDE DEF s
  <2> QED BY <1>3, <2>1, SeedStep DEF VInv
<1> QED BY <1>1, <1>2, <1>4, <1>5 DEF Show

LEMMA ClickVerdicts ==
  ASSUME IInv, VInv, OneSeeds, NEW t \in Tabs,
         \/ ClickBack(t) \/ ClickLost(t)
         \/ \E button \in Buttons \ {"back"}, v \in Verdicts : ClickVerdict(t, button, v)
  PROVE  VInv'
<1>1. OnPage(tab[t]) /\ db' = Loaded(t) /\ judged' = judged
  BY DEF ClickBack, ClickLost, ClickVerdict, OnPage
<1>2. GoldVerdictStands' /\ db.candidates # {}
  BY <1>1, LoadedKeeps, LoadVerdicts DEF IInv, PageIsStored, OnPage
<1>3. CASE ClickBack(t)
  <2> DEFINE s == [tab[t] EXCEPT !.pc = "rerun", !.button = "back",
                                 !.idx = Greatest(Clamped(t, Loaded(t)) - 1, 0)]
  <2>1. tab' = [tab EXCEPT ![t] = s] /\ s.pc # "seeding"
    BY <1>3, TabType DEF ClickBack, Sessions
  <2> HIDE DEF s
  <2> QED BY <1>2, <2>1, SeedStep DEF VInv
<1>4. CASE ClickLost(t)
  <2> DEFINE s == [tab[t] EXCEPT !.shown = Nobody, !.button = "none"]
  <2>1. tab' = [tab EXCEPT ![t] = s] /\ s.pc # "seeding"
    BY <1>4, TabType DEF ClickLost, Sessions
  <2> HIDE DEF s
  <2> QED BY <1>2, <2>1, SeedStep DEF VInv
<1>5. ASSUME NEW button \in Buttons \ {"back"}, NEW v \in Verdicts, ClickVerdict(t, button, v)
      PROVE  VInv'
  <2> DEFINE s == [tab[t] EXCEPT !.pc = "saving", !.button = button,
                     !.idx = Clamped(t, Loaded(t)), !.pick = Candidate(t, Loaded(t)),
                     !.size = Cardinality(View(t, Loaded(t))), !.verdict = v]
  <2>1. tab' = [tab EXCEPT ![t] = s]
    BY <1>5, TabType DEF ClickVerdict
  <2>2. s.pc # "seeding"
    BY TabType DEF Sessions
  <2> HIDE DEF s
  <2> QED BY <1>2, <2>1, <2>2, SeedStep DEF VInv
<1> QED BY <1>3, <1>4, <1>5

LEMMA SaveVerdicts ==
  ASSUME IInv, VInv, OneSeeds, NEW t \in Tabs, Save(t)
  PROVE  VInv'
<1> DEFINE s == [tab[t] EXCEPT !.pc = "exporting"]
           i == tab[t].pick
<1>1. /\ tab[t].verdict \in Adjudications /\ i \in db.candidates /\ i \in Ids
      /\ db \in Databases /\ judged \in [Ids -> Adjudications]
  BY TabType DEF IInv, TypeOK, PickIsStored, Save, Sessions, Databases
<1>2. /\ db'.adjudications = [db.adjudications EXCEPT ![i] = tab[t].verdict]
      /\ judged' = [judged EXCEPT ![i] = tab[t].verdict]
  BY <1>1 DEF Save, save_adjudication, Databases
<1>3. GoldVerdictStands'
  BY <1>1, <1>2 DEF VInv, GoldVerdictStands, Databases
<1>4. tab' = [tab EXCEPT ![t] = s] /\ s.pc # "seeding"
  BY TabType DEF Save, Sessions
<1> HIDE DEF s
<1> QED BY <1>1, <1>3, <1>4, SeedStep DEF VInv

(* The other steps of a tab leave database and verdicts alone. *)
LEMMA PlainVerdicts ==
  ASSUME IInv, VInv, OneSeeds, NEW t \in Tabs,
         \/ OpenTab(t) \/ Collect(t) \/ WriteFile(t)
         \/ \E filter \in Filters : Refilter(t, filter)
         \/ \E n \in Places, torn \in BOOLEAN : OpenFile(t, n, torn)
  PROVE  VInv'
<1>1. db' = db /\ judged' = judged
  BY DEF OpenTab, Collect, WriteFile, Refilter, OpenFile
<1>2. PICK s : tab' = [tab EXCEPT ![t] = s] /\ s.pc # "seeding"
  <2>1. tab[t] \in Sessions
    BY TabType
  <2>2. CASE OpenTab(t)
    <3> DEFINE s == [tab[t] EXCEPT !.pc = "rerun"]
    <3>1. tab' = [tab EXCEPT ![t] = s] /\ s.pc # "seeding"
      BY <2>1, <2>2 DEF OpenTab, Sessions
    <3> QED BY <3>1
  <2>3. CASE Collect(t)
    <3> DEFINE s == [tab[t] EXCEPT !.pc = "collected", !.rows = export_jsonl(db, "all")]
    <3>1. tab' = [tab EXCEPT ![t] = s] /\ s.pc # "seeding"
      BY <2>1, <2>3 DEF Collect, Sessions
    <3> QED BY <3>1
  <2>4. CASE WriteFile(t)
    <3> DEFINE s == [tab[t] EXCEPT !.pc = "rerun", !.idx = NextIdx(tab[t]), !.rows = EmptyFile]
    <3>1. tab' = [tab EXCEPT ![t] = s] /\ s.pc # "seeding"
      BY <2>1, <2>4 DEF WriteFile, Sessions
    <3> QED BY <3>1
  <2>5. ASSUME NEW filter \in Filters, Refilter(t, filter)
        PROVE  \E s : tab' = [tab EXCEPT ![t] = s] /\ s.pc # "seeding"
    <3> DEFINE s == [tab[t] EXCEPT !.pc = "rerun", !.corpus = filter[1],
                                   !.review = filter[2], !.button = "none"]
    <3>1. tab' = [tab EXCEPT ![t] = s] /\ s.pc # "seeding"
      BY <2>1, <2>5 DEF Refilter, Sessions
    <3> QED BY <3>1
  <2>6. ASSUME NEW n \in Places, NEW torn \in BOOLEAN, OpenFile(t, n, torn)
        PROVE  \E s : tab' = [tab EXCEPT ![t] = s] /\ s.pc # "seeding"
    <3> DEFINE s == [tab[t] EXCEPT !.pc = "writing"]
    <3>1. tab' = [tab EXCEPT ![t] = s] /\ s.pc # "seeding"
      BY <2>1, <2>6 DEF OpenFile, Sessions
    <3> QED BY <3>1
  <2> QED BY <2>2, <2>3, <2>4, <2>5, <2>6
<1> QED BY <1>1, <1>2, SeedStep DEF VInv, GoldVerdictStands

(* The scripts run when no tab seeds. *)
LEMMA ScriptVerdicts ==
  ASSUME IInv, VInv, holder \in {"none", "script"}, UNCHANGED tab, GoldVerdictStands'
  PROVE  VInv'
<1>1. \A t \in Tabs : tab[t].pc # "seeding"
  BY DEF IInv, LockIsHeld, Locks
<1> QED BY <1>1 DEF VInv, SeedsEmpty

LEMMA OtherVerdicts ==
  ASSUME IInv, VInv, Next, ~Stop, ~\E t \in Tabs : TabStep(t)
  PROVE  VInv'
<1>1. CASE Launch
  BY <1>1 DEF Launch, VInv, GoldVerdictStands, SeedsEmpty
<1>2. CASE StartScript \/ ScriptFails
  <2>1. holder \in {"none", "script"} /\ UNCHANGED <<db, tab, judged>>
    BY <1>2 DEF StartScript, ScriptFails
  <2> QED BY <2>1, ScriptVerdicts DEF VInv, GoldVerdictStands
<1>3. ASSUME NEW S \in SUBSET DOMAIN Label, holder = "script", tab' = tab,
             db'.adjudications = Labelled(S).adjudications, judged' = Relabel(judged, S)
      PROVE  VInv'
  <2>1. \A i \in Ids :
          /\ db'.adjudications[i] = IF i \in S THEN Label[i] ELSE db.adjudications[i]
          /\ judged'[i] = IF i \in S THEN Label[i] ELSE judged[i]
    BY <1>3, LabelFacts
  <2> QED BY <1>3, <2>1, ScriptVerdicts DEF VInv, GoldVerdictStands
<1>4. CASE GoldExtras \/ \E n \in Places, torn \in BOOLEAN : StopInGoldExtras(n, torn)
  <2>1. /\ holder = "script" /\ tab' = tab /\ db' = Labelled(DOMAIN Label)
        /\ judged' = Relabel(judged, DOMAIN Label)
    BY <1>4 DEF GoldExtras, StopInGoldExtras
  <2> QED BY <1>3, <2>1
<1>5. ASSUME NEW S \in SUBSET DOMAIN Label, NEW extra \in GoldIds \ S, GoldExtrasRaises(S, extra)
      PROVE  VInv'
  <2>1. /\ holder = "script" /\ tab' = tab /\ judged' = Relabel(judged, S)
        /\ db' = upsert_candidate(Labelled(S), {extra})
    BY <1>5 DEF GoldExtrasRaises
  <2>2. db'.adjudications = Labelled(S).adjudications
    BY <2>1, LabelFacts DEF upsert_candidate, Databases
  <2> QED BY <1>3, <2>1, <2>2
<1>6. ASSUME NEW found \in SUBSET (Ids \ GoldIds),
             \/ AbsentDiscovery(found)
             \/ \E n \in Places, torn \in BOOLEAN : StopInDiscovery(found, n, torn)
      PROVE  VInv'
  <2>1. holder = "script" /\ UNCHANGED <<tab, judged>> /\ db' = upsert_candidate(db, found)
    BY <1>6 DEF AbsentDiscovery, StopInDiscovery
  <2>2. db'.adjudications = db.adjudications
    BY <2>1 DEF IInv, TypeOK, Databases, upsert_candidate
  <2> QED BY <2>1, <2>2, ScriptVerdicts DEF VInv, GoldVerdictStands
<1>7. CASE FreshCheckout
  <2>1. holder = "none" /\ tab' = tab /\ judged' = [i \in Ids |-> Unreviewed]
    BY <1>7 DEF FreshCheckout
  <2> QED BY <2>1, ScriptVerdicts DEF GoldVerdictStands
<1> QED BY <1>1, <1>2, <1>4, <1>5, <1>6, <1>7 DEF Next

LEMMA VerdictNext == IInv /\ VInv /\ OneSeeds /\ [Next]_vars => VInv'
<1> SUFFICES ASSUME IInv, VInv, OneSeeds, [Next]_vars PROVE VInv'
  OBVIOUS
<1>1. CASE UNCHANGED vars
  BY <1>1 DEF vars, VInv, GoldVerdictStands, SeedsEmpty
<1>2. ASSUME NEW t \in Tabs, StopProcess, Keeps(db'), tab[t].pc # "seeding" => Holds(db')
      PROVE  VInv'
  <2>1. judged' = judged /\ tab' = [u \in Tabs |-> Closed]
    BY <1>2 DEF StopProcess
  <2>2. GoldVerdictStands'
    BY <1>2, <2>1, LoadVerdicts
  <2> QED BY <2>1, <2>2 DEF VInv, SeedsEmpty, Closed
<1>3. ASSUME NEW t \in Tabs, TabStep(t) PROVE VInv'
  <2>1. ASSUME NEW n \in Places, NEW m \in {n, n + 1}, StopInSeed(t, n, m) \/ StopInMerge(t, n, m)
        PROVE  VInv'
    BY <1>2, <2>1, StopsKeep
  <2> QED BY <1>3, <2>1, ShowVerdicts, ClickVerdicts, SaveVerdicts, PlainVerdicts DEF TabStep
<1>4. CASE Stop
  BY <1>4 DEF Stop, StopProcess, VInv, GoldVerdictStands, SeedsEmpty, Closed
<1>5. CASE Next /\ ~Stop /\ ~\E t \in Tabs : TabStep(t)
  BY <1>5, OtherVerdicts
<1> QED BY <1>1, <1>3, <1>4, <1>5

LEMMA InitVerdicts == Init => VInv
BY DEF Init, VInv, GoldVerdictStands, SeedsEmpty, Closed

(* If no two tabs seed the database at once, a verdict given on a gold        *)
(* candidate in the workbench, or by the labels of eval-gold-extras, is never *)
(* undone by a reload, a restart, another tab or what a broken file has: only *)
(* by the next verdict or a fresh checkout.                                   *)
THEOREM GoldVerdictsAreKept == Spec /\ []OneSeeds => []GoldVerdictStands
<1>1. VInv => GoldVerdictStands
  BY DEF VInv
<1> QED BY InitInv, NextInv, InitVerdicts, VerdictNext, <1>1, PTL DEF Spec

-----------------------------------------------------------------------------
(* One reviewer, one page.  Two more properties rest on what the page of a    *)
(* tab says of the queue.  They need that no other tab moves the queue under  *)
(* it, and the second one that no two candidates share a place in the order.  *)
OneTab == \A t, u \in Tabs : t = u
NamesDiffer == \A i, j \in Ids : Rank[i] = Rank[j] => i = j

(* A database in which a load changes no queue: it has every candidate of the *)
(* absent file, and a verdict wherever the file has one.                      *)
Settled(d) ==
  /\ d.candidates # {} /\ ~absent.torn /\ Rows(absent) \subseteq d.candidates
  /\ \A i \in Rows(absent) : absent.rows[i] # Unreviewed => d.adjudications[i] # Unreviewed

(* The page is what a run would find now. *)
Stands(t) ==
  /\ Settled(db) /\ holder = "workbench"
  /\ tab[t].idx \in 0..(Cardinality(View(t, db)) - 1)
  /\ tab[t].shown = At(View(t, db), tab[t].idx)

PageStands ==
  \A t \in Tabs :
    /\ tab[t].pc = "closed" => tab[t].button = "none"
    /\ (tab[t].pc = "idle" /\ tab[t].shown # Nobody) => Stands(t)
    /\ tab[t].pc = "saving" =>
         /\ Stands(t) /\ tab[t].pick = tab[t].shown
         /\ tab[t].size = Cardinality(View(t, db)) /\ tab[t].verdict \in Verdicts

(* How many of the queue come before the candidate that was shown. *)
Passed(t) == Index(View(t, db), tab[t].shown)

(* A verdict was just saved: the queue of the unreviewed has lost its         *)
(* candidate, and the index is about to be, or is, that of the first one      *)
(* after it.                                                                  *)
Moving(t) ==
  /\ Exporting(t) \/ tab[t].pc \in {"rerun", "seeding"}
  /\ tab[t].button \in {"save", "skip"}
  /\ tab[t].review = "unreviewed"

MovesOn(t) ==
  /\ Settled(db) /\ holder = "workbench" /\ tab[t].pc # "seeding"
  /\ tab[t].shown \in Ids \ View(t, db)
  /\ IF Exporting(t)
     THEN tab[t].idx = Passed(t) /\ tab[t].size = Cardinality(View(t, db)) + 1
     ELSE tab[t].idx = Least(Passed(t), Greatest(Cardinality(View(t, db)) - 1, 0))

QueueMoves == \A t \in Tabs : Moving(t) => MovesOn(t)

-----------------------------------------------------------------------------
(* In an order without ties every index within the queue has a candidate.     *)
LEMMA PlaceFacts ==
  ASSUME NamesDiffer, NEW Q \in SUBSET Ids, NEW n \in 0..(Cardinality(Q) - 1)
  PROVE  At(Q, n) \in Q /\ Index(Q, At(Q, n)) = n
<1> DEFINE T == 0..(Cardinality(Q) - 1)
           f == [i \in Q |-> Index(Q, i)]
           Lower(i) == {j \in Q : Rank[j] < Rank[i]}
<1>1. IsFiniteSet(Q) /\ Cardinality(Q) \in Nat
  BY FS_Subset, FS_CardinalityType
<1>2. IsFiniteSet(T) /\ Cardinality(T) = Cardinality(Q)
  BY <1>1, FS_Interval
<1>3. ASSUME NEW i \in Q, NEW S \in SUBSET Q, i \notin S
      PROVE  IsFiniteSet(S) /\ Cardinality(S) \in Nat /\ Cardinality(S) < Cardinality(Q)
  BY <1>1, <1>3, FS_Subset, FS_CardinalityType
<1>4. f \in [Q -> T]
  <2> SUFFICES ASSUME NEW i \in Q PROVE Index(Q, i) \in T
    OBVIOUS
  <2>1. Lower(i) \in SUBSET Q /\ i \notin Lower(i)
    BY DEF NamesDiffer
  <2>2. Cardinality(Lower(i)) \in Nat /\ Cardinality(Lower(i)) < Cardinality(Q)
    BY <2>1, <1>3
  <2> HIDE DEF Lower
  <2>3. Index(Q, i) = Cardinality(Lower(i))
    BY DEF Index, Lower
  <2> QED BY <1>1, <2>2, <2>3
<1>5. ASSUME NEW i \in Q, NEW j \in Q, Rank[i] < Rank[j]
      PROVE  Index(Q, i) < Index(Q, j)
  <2>1. Lower(i) \in SUBSET Lower(j) /\ Lower(j) \in SUBSET Q /\ i \in Lower(j) /\ i \notin Lower(i)
    BY <1>5
  <2>2. IsFiniteSet(Lower(j))
    BY <1>1, <2>1, FS_Subset
  <2>3. /\ Cardinality(Lower(i)) \in Nat /\ Cardinality(Lower(j)) \in Nat
        /\ Cardinality(Lower(i)) < Cardinality(Lower(j))
    <3> HIDE DEF Lower
    <3> QED BY <2>1, <2>2, FS_Subset, FS_CardinalityType
  <2> QED BY <2>3 DEF Index
<1>6. ASSUME NEW i \in Q, NEW j \in Q, Index(Q, i) = Index(Q, j) PROVE i = j
  <2>1. Index(Q, i) \in Nat /\ Index(Q, j) \in Nat
    BY <1>1, <1>4
  <2>2. Rank[i] \in Nat /\ Rank[j] \in Nat
    OBVIOUS
  <2>3. ~(Rank[i] < Rank[j]) /\ ~(Rank[j] < Rank[i])
    <3>1. CASE Rank[i] < Rank[j]
      BY <1>5, <1>6, <2>1, <3>1
    <3>2. CASE Rank[j] < Rank[i]
      BY <1>5, <1>6, <2>1, <3>2
    <3> QED BY <3>1, <3>2
  <2>4. Rank[i] = Rank[j]
    BY <2>2, <2>3
  <2> QED BY <2>4 DEF NamesDiffer
<1>7. f \in Injection(Q, T)
  <2>1. \A i, j \in Q : f[i] = f[j] => i = j
    BY <1>6
  <2> HIDE DEF f
  <2> QED BY <1>4, <2>1 DEF Injection, IsInjective
<1>8. f \in Surjection(Q, T)
  <2> HIDE DEF f, T
  <2> QED BY <1>1, <1>2, <1>7, FS_Injection
<1>9. \E i \in Q : Index(Q, i) = n
  <2>1. n \in T
    OBVIOUS
  <2>2. \E i \in Q : f[i] = n
    <3> HIDE DEF f, T
    <3> QED BY <2>1, <1>8 DEF Surjection
  <2> QED BY <2>2
<1> QED BY <1>9 DEF At

(* Of a queue without the candidate s: at the index that s had comes the      *)
(* first one after it.                                                        *)
LEMMA NextPlace ==
  ASSUME NamesDiffer, NEW Q \in SUBSET Ids, NEW s \in Ids \ Q,
         NEW later, later = {i \in Q : Rank[i] > Rank[s]}, later # {}
  PROVE  /\ Index(Q, s) \in 0..(Cardinality(Q) - 1)
         /\ At(Q, Index(Q, s)) \in later
         /\ \A i \in later : Rank[At(Q, Index(Q, s))] <= Rank[i]
<1> DEFINE Lower(i) == {j \in Q : Rank[j] < Rank[i]}
           n == Index(Q, s)
           c == At(Q, n)
<1>1. /\ IsFiniteSet(Q) /\ Cardinality(Q) \in Nat
      /\ \A i \in Ids : Rank[i] \in Nat
      /\ \A i \in Ids : Index(Q, i) = Cardinality(Lower(i)) /\ Lower(i) \in SUBSET Q
  BY FS_Subset, FS_CardinalityType DEF Index
<1>2. PICK m \in Q : m \notin Lower(s)
  BY <1>1
<1>3. n \in 0..(Cardinality(Q) - 1)
  <2>1. /\ IsFiniteSet(Lower(s)) /\ Cardinality(Lower(s)) <= Cardinality(Q)
        /\ Cardinality(Lower(s)) # Cardinality(Q)
    <3> HIDE DEF Lower
    <3> QED BY <1>1, <1>2, FS_Subset
  <2>2. Cardinality(Lower(s)) \in Nat
    BY <2>1, FS_CardinalityType
  <2>3. n = Cardinality(Lower(s))
    BY <1>1
  <2> HIDE DEF Lower, n
  <2> QED BY <1>1, <2>1, <2>2, <2>3
<1>4. c \in Q /\ Index(Q, c) = n
  BY <1>3, PlaceFacts
<1> HIDE DEF c
<1>5. ~(Rank[c] < Rank[s])
  <2> SUFFICES ASSUME Rank[c] < Rank[s] PROVE FALSE
    OBVIOUS
  <2>1. Lower(c) \in SUBSET Lower(s) /\ c \in Lower(s) /\ c \notin Lower(c)
    BY <1>1, <1>4
  <2>2. IsFiniteSet(Lower(s))
    BY <1>1, FS_Subset
  <2>3. Cardinality(Lower(c)) # Cardinality(Lower(s))
    <3> HIDE DEF Lower
    <3> QED BY <2>1, <2>2, FS_Subset
  <2> QED BY <1>1, <1>4, <2>3
<1>6. c \in later
  <2>1. Rank[c] # Rank[s]
    BY <1>4 DEF NamesDiffer
  <2> QED BY <1>1, <1>4, <1>5, <2>1
<1>7. ASSUME NEW i \in later PROVE Rank[c] <= Rank[i]
  <2> SUFFICES ASSUME Rank[i] < Rank[c] PROVE FALSE
    BY <1>1, <1>4
  <2>1. Lower(s) \in SUBSET Lower(c) /\ i \in Lower(c) /\ i \notin Lower(s)
    BY <1>1, <1>4, <1>6
  <2>2. IsFiniteSet(Lower(c))
    BY <1>1, <1>4, FS_Subset
  <2>3. Cardinality(Lower(c)) # Cardinality(Lower(s))
    <3> HIDE DEF Lower
    <3> QED BY <2>1, <2>2, FS_Subset
  <2> QED BY <1>1, <1>4, <2>3
<1> QED BY <1>3, <1>6, <1>7 DEF c
-----------------------------------------------------------------------------
(* Loading a settled database moves no queue; a load that raised nothing has  *)
(* settled it.                                                                *)
LEMMA SettledView ==
  ASSUME IInv, Settled(db), NEW t \in Tabs, tab[t].pc # "seeding"
  PROVE  /\ ~LoadRaises(t) /\ Loaded(t).candidates = db.candidates
         /\ \A i \in Ids :
              Loaded(t).adjudications[i] = Unreviewed <=> db.adjudications[i] = Unreviewed
         /\ View(t, Loaded(t)) = View(t, db)
<1>1. db \in Databases /\ absent \in Files
  BY DEF IInv, TypeOK
<1>2. ~LoadRaises(t) /\ Loaded(t) = ImportRows(db, absent, Rows(absent))
  BY DEF Settled, LoadRaises, SeedRaises, Loaded, Seeded, import_jsonl
<1>3. Loaded(t).candidates = db.candidates
  BY <1>2 DEF ImportRows, Settled
<1>4. \A i \in Ids :
        Loaded(t).adjudications[i] = Unreviewed <=> db.adjudications[i] = Unreviewed
  BY <1>1, <1>2 DEF ImportRows, Settled
<1>5. View(t, Loaded(t)) = View(t, db)
  <2>1. db.candidates \subseteq Ids
    BY <1>1 DEF Databases
  <2> QED BY <1>3, <1>4, <2>1 DEF View, queue, list_candidates
<1> QED BY <1>2, <1>3, <1>4, <1>5

LEMMA LoadSettles ==
  ASSUME IInv, NEW t, ~LoadRaises(t), Loaded(t).candidates # {}
  PROVE  Settled(Loaded(t))
<1>1. absent \in Files /\ Seeded(t) \in Databases
  BY SeededKeeps DEF IInv, TypeOK, Keeps
<1>2. ~absent.torn /\ Loaded(t) = ImportRows(Seeded(t), absent, Rows(absent))
  BY DEF LoadRaises, Loaded, import_jsonl
<1>3. Rows(absent) \subseteq Loaded(t).candidates
  BY <1>2 DEF ImportRows
<1>4. \A i \in Rows(absent) : absent.rows[i] # Unreviewed => Loaded(t).adjudications[i] # Unreviewed
  BY <1>1, <1>2 DEF ImportRows, Rows
<1> QED BY <1>2, <1>3, <1>4 DEF Settled

LEMMA ViewFacts ==
  ASSUME IInv, NEW t \in Tabs, NEW d \in Databases
  PROVE  /\ View(t, d) \in SUBSET Ids /\ View(t, d) \subseteq d.candidates
         /\ IsFiniteSet(View(t, d)) /\ Cardinality(View(t, d)) \in Nat
         /\ tab[t].idx \in Nat /\ tab[t].shown \in Ids \cup {Nobody}
<1>1. View(t, d) \in SUBSET Ids /\ View(t, d) \subseteq d.candidates
  BY DEF View, queue, list_candidates, Databases
<1>2. tab[t].idx \in Nat /\ tab[t].shown \in Ids \cup {Nobody}
  BY TabType DEF Sessions
<1> QED BY <1>1, <1>2, FS_Subset, FS_CardinalityType

(* What the page found is still there when the run looks it up.               *)
LEMMA StandsFinds ==
  ASSUME IInv, NEW t \in Tabs, Stands(t), tab[t].pc # "seeding"
  PROVE  /\ View(t, Loaded(t)) = View(t, db) /\ View(t, db) # {}
         /\ Clamped(t, Loaded(t)) = tab[t].idx /\ Candidate(t, Loaded(t)) = tab[t].shown
         /\ tab[t].shown \in View(t, db)
<1>1. db \in Databases
  BY DEF IInv, TypeOK
<1>2. View(t, Loaded(t)) = View(t, db)
  BY SettledView DEF Stands
<1>3. Clamped(t, Loaded(t)) = tab[t].idx
  BY <1>1, <1>2, ViewFacts DEF Stands, Clamped, Least
<1>4. View(t, db) # {}
  <2>1. Cardinality(View(t, db)) # 0
    BY <1>1, ViewFacts DEF Stands
  <2> QED BY <2>1, FS_EmptySet
<1>5. tab[t].shown \in View(t, db)
  BY <1>1, <1>4, ViewFacts, QueueFacts DEF Stands
<1> QED BY <1>2, <1>3, <1>4, <1>5 DEF Candidate, Stands

(* The programs that want the lock wait for it, and nothing else touches the  *)
(* one session: only a step of the tab itself disturbs its page.              *)
LEMMA OthersWait ==
  ASSUME IInv, [Next]_vars, NEW t \in Tabs, OneTab, ~TabStep(t)
  PROVE  /\ tab' = tab \/ tab' = [u \in Tabs |-> Closed]
         /\ tab[t].pc # "closed" /\ holder = "workbench"
              => UNCHANGED <<db, absent, holder, tab>> \/ tab' = [u \in Tabs |-> Closed]
<1>1. tab[t].pc # "closed" => up
  BY OpenProcess
<1>2. \A u \in Tabs : u = t
  BY DEF OneTab
<1> QED BY <1>1, <1>2 DEF Next, vars, Launch, Stop, StopProcess, StartScript, GoldExtras,
           StopInGoldExtras, GoldExtrasRaises, AbsentDiscovery, StopInDiscovery, ScriptFails, FreshCheckout

LEMMA StaysStanding ==
  ASSUME NEW t, UNCHANGED <<db, absent, holder, tab>>
  PROVE  /\ Stands(t)' <=> Stands(t)
         /\ MovesOn(t)' <=> MovesOn(t)
BY DEF Stands, MovesOn, Settled, View, Passed, Rows, Exporting

LEMMA InitPage == Init => PageStands /\ QueueMoves
BY DEF Init, PageStands, QueueMoves, Moving, Closed, Exporting

(* The session and the queue after a step of the tab. *)
LEMMA SessionAfter ==
  ASSUME IInv, NEW t \in Tabs, NEW s, tab' = [tab EXCEPT ![t] = s], OneTab
  PROVE  tab'[t] = s /\ \A u \in Tabs : u = t
BY TabType DEF OneTab

LEMMA ShowPage ==
  ASSUME IInv, NEW t \in Tabs, ShowCandidate(t), OneTab
  PROVE  PageStands' /\ QueueMoves'
<1> DEFINE s == [tab[t] EXCEPT !.pc = "idle", !.idx = Clamped(t, Loaded(t)),
                               !.shown = Candidate(t, Loaded(t))]
<1>1. /\ tab' = [tab EXCEPT ![t] = s] /\ db' = Loaded(t) /\ holder' = "workbench"
      /\ absent' = absent /\ View(t, Loaded(t)) # {} /\ ~LoadRaises(t)
  BY TabType DEF ShowCandidate, Loads
<1>2. /\ s.pc = "idle" /\ s.idx = Clamped(t, Loaded(t)) /\ s.shown = Candidate(t, Loaded(t))
      /\ s.corpus = tab[t].corpus /\ s.review = tab[t].review
  BY TabType DEF Sessions
<1>3. tab'[t] = s /\ \A u \in Tabs : u = t
  BY <1>1, SessionAfter
<1> HIDE DEF s
<1>4. View(t, db)' = View(t, Loaded(t))
  BY <1>1, <1>2, <1>3 DEF View
<1>5. Settled(Loaded(t))
  BY <1>1, LoadSettles DEF View, queue, list_candidates
<1>6. Settled(db)'
  BY <1>1, <1>5 DEF Settled, Rows
<1>7. Clamped(t, Loaded(t)) \in 0..(Cardinality(View(t, Loaded(t))) - 1)
  BY <1>1, PageFacts DEF Clamped, Least
<1>8. Stands(t)'
  BY <1>1, <1>2, <1>3, <1>4, <1>6, <1>7 DEF Stands, Candidate
<1> QED BY <1>2, <1>3, <1>8 DEF PageStands, QueueMoves, Moving, Exporting

LEMMA ClickPage ==
  ASSUME IInv, PageStands, NEW t \in Tabs, OneTab,
         NEW button, NEW v \in Verdicts, ClickVerdict(t, button, v)
  PROVE  PageStands' /\ QueueMoves'
<1> DEFINE s == [tab[t] EXCEPT !.pc = "saving", !.button = button,
                   !.idx = Clamped(t, Loaded(t)), !.pick = Candidate(t, Loaded(t)),
                   !.size = Cardinality(View(t, Loaded(t))), !.verdict = v]
<1>1. /\ tab' = [tab EXCEPT ![t] = s] /\ db' = Loaded(t) /\ holder' = holder
      /\ absent' = absent /\ tab[t].pc = "idle" /\ tab[t].shown # Nobody
  BY TabType DEF ClickVerdict
<1>2. /\ s.pc = "saving" /\ s.idx = Clamped(t, Loaded(t)) /\ s.pick = Candidate(t, Loaded(t))
      /\ s.size = Cardinality(View(t, Loaded(t))) /\ s.verdict = v /\ s.shown = tab[t].shown
      /\ s.corpus = tab[t].corpus /\ s.review = tab[t].review
  BY TabType DEF Sessions
<1>3. tab'[t] = s /\ \A u \in Tabs : u = t
  BY <1>1, SessionAfter
<1> HIDE DEF s
<1>4. Stands(t)
  BY <1>1 DEF PageStands
<1>5. /\ View(t, Loaded(t)) = View(t, db) /\ Clamped(t, Loaded(t)) = tab[t].idx
      /\ Candidate(t, Loaded(t)) = tab[t].shown /\ View(t, db) # {}
  BY <1>1, <1>4, StandsFinds
<1>6. View(t, db)' = View(t, db)
  BY <1>1, <1>2, <1>3, <1>5 DEF View
<1>7. Settled(db)'
  <2>1. ~LoadRaises(t) /\ Loaded(t).candidates # {}
    BY <1>1, <1>4, SettledView DEF Stands, Settled
  <2>2. Settled(Loaded(t))
    BY <2>1, LoadSettles
  <2> QED BY <1>1, <2>2 DEF Settled, Rows
<1>8. Stands(t)'
  BY <1>1, <1>2, <1>3, <1>4, <1>5, <1>6, <1>7 DEF Stands
<1> QED BY <1>2, <1>3, <1>5, <1>6, <1>8 DEF PageStands, QueueMoves, Moving, Exporting

LEMMA SavePage ==
  ASSUME IInv, PageStands, NEW t \in Tabs, OneTab, NamesDiffer, Save(t)
  PROVE  QueueMoves'
<1> DEFINE s == [tab[t] EXCEPT !.pc = "exporting"]
           i == tab[t].shown
           v == tab[t].verdict
           Q == View(t, db)
<1>1. /\ tab' = [tab EXCEPT ![t] = s] /\ db' = save_adjudication(db, tab[t].pick, v)
      /\ holder' = holder /\ absent' = absent /\ tab[t].pc = "saving"
  BY TabType DEF Save
<1>2. /\ s.pc = "exporting" /\ s.idx = tab[t].idx /\ s.shown = i /\ s.size = tab[t].size
      /\ s.corpus = tab[t].corpus /\ s.review = tab[t].review
  BY TabType DEF Sessions
<1>3. tab'[t] = s /\ \A u \in Tabs : u = t
  BY <1>1, SessionAfter
<1>4. Stands(t) /\ tab[t].pick = i /\ tab[t].size = Cardinality(Q) /\ v \in Verdicts
  BY <1>1 DEF PageStands
<1>5. i \in Q /\ db \in Databases
  BY <1>1, <1>4, StandsFinds DEF IInv, TypeOK
<1>6. Q \in SUBSET Ids /\ IsFiniteSet(Q)
  BY <1>5, ViewFacts
<1> HIDE DEF s, v
<1>7. /\ db'.candidates = db.candidates
      /\ \A j \in Ids : db'.adjudications[j] = IF j = i THEN v ELSE db.adjudications[j]
  BY <1>1, <1>4, <1>5 DEF save_adjudication, Databases
<1>8. Settled(db)'
  BY <1>1, <1>4, <1>7 DEF Stands, Settled, Rows
<1>9. ASSUME Moving(t)' PROVE MovesOn(t)'
  <2>1. tab[t].review = "unreviewed"
    BY <1>2, <1>3, <1>9 DEF Moving
  <2>2. View(t, db)' = Q \ {i}
    BY <1>2, <1>3, <1>4, <1>5, <1>7, <2>1 DEF View, queue, list_candidates, Databases
  <2>3. tab[t].idx = Index(Q, i)
    BY <1>4, <1>6, PlaceFacts DEF Stands
  <2>4. Index(Q \ {i}, i) = Index(Q, i)
    <3>1. {j \in Q \ {i} : Rank[j] < Rank[i]} = {j \in Q : Rank[j] < Rank[i]}
      BY <1>5, <1>6
    <3> QED BY <3>1 DEF Index
  <2>5. Cardinality(Q) = Cardinality(Q \ {i}) + 1
    <3>1. Cardinality(Q) \in Nat /\ Cardinality(Q \ {i}) = Cardinality(Q) - 1
      <4> HIDE DEF Q, i
      <4> QED BY <1>5, <1>6, FS_RemoveElement, FS_CardinalityType
    <3> HIDE DEF Q, i
    <3> QED BY <3>1
  <2>6. Passed(t)' = Index(Q \ {i}, i)
    BY <1>2, <1>3, <2>2 DEF Passed
  <2>7. i \in Ids \ View(t, db)'
    BY <1>5, <1>6, <2>2
  <2> HIDE DEF Q, i
  <2> QED BY <1>1, <1>2, <1>3, <1>4, <1>8, <2>2, <2>3, <2>4, <2>5, <2>6, <2>7
          DEF MovesOn, Stands, Exporting, Q, i
<1> QED BY <1>2, <1>3, <1>9 DEF QueueMoves

LEMMA CollectPage ==
  ASSUME IInv, QueueMoves, NEW t \in Tabs, OneTab,
         Collect(t) \/ \E n \in Places, torn \in BOOLEAN : OpenFile(t, n, torn)
  PROVE  QueueMoves'
<1>1. PICK s : /\ tab' = [tab EXCEPT ![t] = s] /\ s.pc \in {"collected", "writing"}
               /\ s.idx = tab[t].idx /\ s.shown = tab[t].shown /\ s.size = tab[t].size
               /\ s.button = tab[t].button /\ s.corpus = tab[t].corpus
               /\ s.review = tab[t].review
  <2>1. tab[t] \in Sessions
    BY TabType
  <2>2. CASE Collect(t)
    <3> DEFINE s == [tab[t] EXCEPT !.pc = "collected", !.rows = export_jsonl(db, "all")]
    <3>1. tab' = [tab EXCEPT ![t] = s]
      BY <2>2, TabType DEF Collect
    <3>2. /\ s.pc = "collected" /\ s.idx = tab[t].idx /\ s.shown = tab[t].shown
          /\ s.size = tab[t].size /\ s.button = tab[t].button
          /\ s.corpus = tab[t].corpus /\ s.review = tab[t].review
      BY <2>1 DEF Sessions
    <3> HIDE DEF s
    <3> QED BY <3>1, <3>2
  <2>3. ASSUME NEW n \in Places, NEW torn \in BOOLEAN, OpenFile(t, n, torn)
        PROVE  LET s == [tab[t] EXCEPT !.pc = "writing"] IN tab' = [tab EXCEPT ![t] = s]
    BY <2>3, TabType DEF OpenFile
  <2>4. CASE \E n \in Places, torn \in BOOLEAN : OpenFile(t, n, torn)
    <3> DEFINE s == [tab[t] EXCEPT !.pc = "writing"]
    <3>1. tab' = [tab EXCEPT ![t] = s]
      BY <2>3, <2>4
    <3>2. /\ s.pc = "writing" /\ s.idx = tab[t].idx /\ s.shown = tab[t].shown
          /\ s.size = tab[t].size /\ s.button = tab[t].button
          /\ s.corpus = tab[t].corpus /\ s.review = tab[t].review
      BY <2>1 DEF Sessions
    <3> HIDE DEF s
    <3> QED BY <3>1, <3>2
  <2> QED BY <2>2, <2>4
<1>2. UNCHANGED <<db, absent, holder>> /\ Exporting(t)
  BY DEF Collect, OpenFile, Exporting
<1>3. tab'[t] = s /\ \A u \in Tabs : u = t
  BY <1>1, SessionAfter
<1>4. ASSUME Moving(t)' PROVE MovesOn(t)'
  <2>1. Moving(t)
    BY <1>1, <1>2, <1>3, <1>4 DEF Moving
  <2>2. MovesOn(t)
    BY <2>1 DEF QueueMoves
  <2>3. View(t, db)' = View(t, db)
    BY <1>1, <1>2, <1>3 DEF View
  <2>4. Passed(t)' = Passed(t)
    BY <1>1, <1>3, <2>3 DEF Passed
  <2>5. Settled(db)' /\ Exporting(t)'
    BY <1>1, <1>2, <1>3, <2>2 DEF MovesOn, Settled, Rows, Exporting
  <2> QED BY <1>1, <1>2, <1>3, <2>2, <2>3, <2>4, <2>5 DEF MovesOn
<1> QED BY <1>3, <1>4 DEF QueueMoves

LEMMA WritePage ==
  ASSUME IInv, QueueMoves, NEW t \in Tabs, OneTab, WriteFile(t)
  PROVE  QueueMoves'
<1> DEFINE s == [tab[t] EXCEPT !.pc = "rerun", !.idx = NextIdx(tab[t]), !.rows = EmptyFile]
<1>1. /\ tab' = [tab EXCEPT ![t] = s] /\ UNCHANGED <<db, absent, holder>> /\ Exporting(t)
  BY TabType DEF WriteFile, Exporting
<1>2. /\ s.pc = "rerun" /\ s.idx = NextIdx(tab[t]) /\ s.shown = tab[t].shown
      /\ s.button = tab[t].button /\ s.corpus = tab[t].corpus /\ s.review = tab[t].review
  BY TabType DEF Sessions
<1>3. tab'[t] = s /\ \A u \in Tabs : u = t
  BY <1>1, SessionAfter
<1> HIDE DEF s
<1>4. ASSUME Moving(t)' PROVE MovesOn(t)'
  <2>1. Moving(t)
    BY <1>1, <1>2, <1>3, <1>4 DEF Moving
  <2>2. MovesOn(t)
    BY <2>1 DEF QueueMoves
  <2>3. View(t, db)' = View(t, db)
    BY <1>1, <1>2, <1>3 DEF View
  <2>4. Passed(t)' = Passed(t)
    BY <1>2, <1>3, <2>3 DEF Passed
  <2>5. Cardinality(View(t, db)) \in Nat
    BY ViewFacts DEF IInv, TypeOK
  <2>6. NextIdx(tab[t]) = Least(Passed(t), Greatest(Cardinality(View(t, db)) - 1, 0))
    <3>1. tab[t].idx = Passed(t) /\ tab[t].size - 2 = Cardinality(View(t, db)) - 1
      BY <1>1, <2>2, <2>5 DEF MovesOn
    <3>2. NextIdx(tab[t]) = Least(tab[t].idx, Greatest(tab[t].size - 2, 0))
      BY <2>1 DEF NextIdx, Moving
    <3> QED BY <3>1, <3>2
  <2>7. Settled(db)' /\ ~Exporting(t)'
    BY <1>1, <1>2, <1>3, <2>2 DEF MovesOn, Settled, Rows, Exporting
  <2> QED BY <1>1, <1>2, <1>3, <2>2, <2>3, <2>4, <2>6, <2>7 DEF MovesOn
<1> QED BY <1>3, <1>4 DEF QueueMoves

(* After the other steps of a tab no page is on show, and nothing moves. *)
Saves(t) ==
  \/ Save(t) \/ Collect(t) \/ WriteFile(t)
  \/ \E n \in Places, torn \in BOOLEAN : OpenFile(t, n, torn)

LEMMA PlainStep ==
  ASSUME IInv, PageStands, NEW t \in Tabs, TabStep(t),
         ~ShowCandidate(t), ~StartSeed(t), ~Saves(t),
         ~\E button \in Buttons \ {"back"}, v \in Verdicts : ClickVerdict(t, button, v)
  PROVE  \/ tab'[t] = Closed
         \/ tab'[t].pc = "idle" /\ tab'[t].shown = Nobody
         \/ tab'[t].pc = "rerun" /\ tab'[t].button \in {"none", "back"}
<1>1. tab \in [Tabs -> Sessions] /\ tab[t] \in Sessions
  BY TabType
<1>2. CASE OpenTab(t)
  <2> DEFINE s == [tab[t] EXCEPT !.pc = "rerun"]
  <2>1. tab[t].button = "none" /\ tab'[t] = s
    BY <1>1, <1>2 DEF OpenTab, PageStands
  <2> QED BY <1>1, <2>1 DEF Sessions
<1>3. CASE ShowLocked(t) \/ ShowNothing(t)
  <2> DEFINE s == [tab[t] EXCEPT !.pc = "idle", !.shown = Nobody]
  <2>1. tab'[t] = s
    BY <1>1, <1>3 DEF ShowLocked, ShowNothing
  <2> QED BY <1>1, <2>1 DEF Sessions
<1>4. CASE ClickBack(t)
  <2> DEFINE s == [tab[t] EXCEPT !.pc = "rerun", !.button = "back",
                                 !.idx = Greatest(Clamped(t, Loaded(t)) - 1, 0)]
  <2>1. tab'[t] = s
    BY <1>1, <1>4 DEF ClickBack
  <2> QED BY <1>1, <2>1 DEF Sessions
<1>5. CASE ClickLost(t)
  <2> DEFINE s == [tab[t] EXCEPT !.shown = Nobody, !.button = "none"]
  <2>1. tab'[t] = s /\ tab[t].pc = "idle"
    BY <1>1, <1>5 DEF ClickLost
  <2> QED BY <1>1, <2>1 DEF Sessions
<1>6. ASSUME NEW filter \in Filters, Refilter(t, filter)
      PROVE  tab'[t].pc = "rerun" /\ tab'[t].button = "none"
  <2> DEFINE s == [tab[t] EXCEPT !.pc = "rerun", !.corpus = filter[1], !.review = filter[2],
                                 !.button = "none"]
  <2>1. tab'[t] = s
    BY <1>1, <1>6 DEF Refilter
  <2> QED BY <1>1, <2>1 DEF Sessions
<1>7. CASE StopProcess
  BY <1>7 DEF StopProcess
<1> QED BY <1>2, <1>3, <1>4, <1>5, <1>6, <1>7
        DEF TabStep, Show, Saves, StopInSeed, StopInMerge

(* A step keeps the page. *)
LEMMA PageNext == IInv /\ PageStands /\ OneTab /\ [Next]_vars => PageStands'
<1> SUFFICES ASSUME IInv, PageStands, OneTab, [Next]_vars, NEW t \in Tabs
             PROVE  PageStands'
  BY DEF PageStands
<1>1. \A u \in Tabs : u = t
  BY DEF OneTab
<1>2. ASSUME NEW button \in Buttons \ {"back"}, NEW v \in Verdicts, ClickVerdict(t, button, v)
      PROVE  PageStands'
  BY <1>2, ClickPage
<1>3. CASE ShowCandidate(t)
  BY <1>3, ShowPage
<1>4. CASE Saves(t) \/ StartSeed(t)
  <2>1. tab'[t].pc \in {"exporting", "collected", "writing", "rerun", "seeding"}
    BY <1>4, TabType DEF Saves, Save, Collect, OpenFile, WriteFile, StartSeed, Sessions
  <2> QED BY <1>1, <2>1 DEF PageStands
<1>5. CASE TabStep(t) /\ ~ShowCandidate(t) /\ ~StartSeed(t) /\ ~Saves(t)
           /\ ~\E button \in Buttons \ {"back"}, v \in Verdicts : ClickVerdict(t, button, v)
  BY <1>1, <1>5, PlainStep DEF PageStands, Closed
<1>6. CASE ~TabStep(t)
  <2>1. CASE UNCHANGED <<db, absent, holder, tab>>
    <3>1. (Stands(t)' <=> Stands(t)) /\ View(t, db)' = View(t, db)
      BY <2>1, StaysStanding DEF View
    <3> QED BY <1>1, <2>1, <3>1 DEF PageStands
  <2>2. CASE tab' = [u \in Tabs |-> Closed]
    BY <1>1, <2>2 DEF PageStands, Closed
  <2>3. CASE tab' = tab /\ (tab[t].pc = "closed" \/ holder # "workbench")
    BY <1>1, <2>3 DEF PageStands, Stands
  <2> QED BY <1>6, <2>1, <2>2, <2>3, OthersWait
<1> QED BY <1>2, <1>3, <1>4, <1>5, <1>6

(* Without ties a step keeps the place in the queue. *)
LEMMA QueueNext ==
  IInv /\ PageStands /\ QueueMoves /\ OneTab /\ NamesDiffer /\ [Next]_vars => QueueMoves'
<1> SUFFICES ASSUME IInv, PageStands, QueueMoves, OneTab, NamesDiffer, [Next]_vars,
                    NEW t \in Tabs
             PROVE  QueueMoves'
  BY DEF QueueMoves
<1>1. \A u \in Tabs : u = t
  BY DEF OneTab
<1>2. ASSUME NEW button \in Buttons \ {"back"}, NEW v \in Verdicts, ClickVerdict(t, button, v)
      PROVE  QueueMoves'
  BY <1>2, ClickPage
<1>3. CASE ShowCandidate(t)
  BY <1>3, ShowPage
<1>4. CASE Saves(t)
  BY <1>4, SavePage, CollectPage, WritePage DEF Saves
<1>8. CASE StartSeed(t)
  <2>1. db.candidates = {} /\ tab[t].pc = "rerun" /\ tab' = [tab EXCEPT ![t].pc = "seeding"]
    BY <1>8 DEF StartSeed
  <2>2. tab'[t].button = tab[t].button /\ tab'[t].review = tab[t].review
    BY <2>1, TabType DEF Sessions
  <2>3. Moving(t)' => Moving(t)
    BY <2>1, <2>2 DEF Moving
  <2>4. ~Moving(t)
    BY <2>1 DEF QueueMoves, MovesOn, Settled
  <2> QED BY <1>1, <2>3, <2>4 DEF QueueMoves
<1>5. CASE TabStep(t) /\ ~ShowCandidate(t) /\ ~StartSeed(t) /\ ~Saves(t)
           /\ ~\E button \in Buttons \ {"back"}, v \in Verdicts : ClickVerdict(t, button, v)
  BY <1>1, <1>5, PlainStep DEF QueueMoves, Moving, Closed, Exporting
<1>6. CASE ~TabStep(t)
  <2>1. CASE UNCHANGED <<db, absent, holder, tab>>
    BY <1>1, <2>1, StaysStanding DEF QueueMoves, Moving, Exporting
  <2>2. CASE tab' = [u \in Tabs |-> Closed]
    BY <1>1, <2>2 DEF QueueMoves, Moving, Closed, Exporting
  <2>3. CASE tab' = tab /\ (tab[t].pc = "closed" \/ holder # "workbench")
    BY <1>1, <2>3 DEF QueueMoves, MovesOn, Moving, Exporting
  <2> QED BY <1>6, <2>1, <2>2, <2>3, OthersWait
<1> QED BY <1>2, <1>3, <1>4, <1>5, <1>6, <1>8

(* The step of the second property: the page after "Save & next" or "Skip". *)
LEMMA ShowsNext ==
  ASSUME IInv, QueueMoves, NamesDiffer, NEW t \in Tabs, ShowCandidate(t),
         tab[t].button \in {"save", "skip"}, tab[t].review = "unreviewed",
         NEW later, later = {i \in View(t, db') : Rank[i] > Rank[tab[t].shown]}, later # {}
  PROVE  tab'[t].shown \in later /\ \A i \in later : Rank[tab'[t].shown] <= Rank[i]
<1> DEFINE Q == View(t, db)
           i == tab[t].shown
<1>1. MovesOn(t) /\ tab[t].pc = "rerun" /\ db' = Loaded(t)
  <2>1. tab[t].pc \in {"rerun", "seeding"} /\ db' = Loaded(t) /\ ~Exporting(t)
    BY DEF ShowCandidate, Loads, Exporting
  <2>2. MovesOn(t)
    BY <2>1 DEF QueueMoves, Moving
  <2> QED BY <2>1, <2>2 DEF MovesOn
<1>2. View(t, Loaded(t)) = Q /\ Q \in SUBSET Ids /\ i \in Ids \ Q /\ Cardinality(Q) \in Nat
  BY <1>1, SettledView, ViewFacts DEF MovesOn, IInv, TypeOK
<1>3. tab[t].idx = Least(Index(Q, i), Greatest(Cardinality(Q) - 1, 0))
  BY <1>1 DEF MovesOn, Passed, Exporting
<1>4. later = {j \in Q : Rank[j] > Rank[i]}
  BY <1>1, <1>2
<1>5. tab'[t].shown = At(Q, Least(tab[t].idx, Cardinality(Q) - 1))
  <2> DEFINE s == [tab[t] EXCEPT !.pc = "idle", !.idx = Clamped(t, Loaded(t)),
                                 !.shown = Candidate(t, Loaded(t))]
  <2>1. tab'[t] = s /\ tab[t] \in Sessions
    BY TabType DEF ShowCandidate
  <2>2. s.shown = Candidate(t, Loaded(t))
    BY <2>1 DEF Sessions
  <2> QED BY <1>2, <2>1, <2>2 DEF Candidate, Clamped
<1> HIDE DEF Q, i
<1>6. /\ Index(Q, i) \in 0..(Cardinality(Q) - 1)
      /\ At(Q, Index(Q, i)) \in later
      /\ \A j \in later : Rank[At(Q, Index(Q, i))] <= Rank[j]
  BY <1>2, <1>4, NextPlace
<1>7. Least(tab[t].idx, Cardinality(Q) - 1) = Index(Q, i)
  BY <1>2, <1>3, <1>6 DEF Least, Greatest
<1> QED BY <1>5, <1>6, <1>7

-----------------------------------------------------------------------------
(* With one tab a verdict always goes to the candidate that was on the page,  *)
(* whatever is stopped, restarted or imported between the page and the click: *)
(* no other program moves the queue while the workbench holds the lock, and   *)
(* loading it again changes nothing.                                          *)
THEOREM PageIsJudged ==
  ASSUME OneTab
  PROVE  Spec => []ShownIsJudged
<1>1. PageStands => ShownIsJudged
  BY DEF PageStands, ShownIsJudged
<1>2. IInv /\ PageStands /\ [Next]_vars => PageStands'
  BY PageNext
<1> QED BY InitInv, NextInv, InitPage, <1>1, <1>2, PTL DEF Spec

(* If no two candidates share their pair of names either, "Save & next" and   *)
(* "Skip" pass over no unreviewed candidate and come back to none: the next   *)
(* page has the first one left after the last.                                *)
THEOREM NextPageIsNext ==
  ASSUME OneTab, NamesDiffer
  PROVE  Spec => LandsOnNext
<1> DEFINE Lands == \A t \in Tabs :
       LET later == {i \in View(t, db') : Rank[i] > Rank[tab[t].shown]}
       IN (/\ ShowCandidate(t)
           /\ tab[t].button \in {"save", "skip"}
           /\ tab[t].review = "unreviewed"
           /\ later # {}) =>
            tab'[t].shown \in later /\ \A i \in later : Rank[tab'[t].shown] <= Rank[i]
<1>1. IInv /\ QueueMoves => Lands
  BY ShowsNext
<1>2. IInv /\ PageStands /\ QueueMoves /\ [Next]_vars => PageStands' /\ QueueMoves'
  BY PageNext, QueueNext
<1> QED BY InitInv, NextInv, InitPage, <1>1, <1>2, PTL DEF Spec, LandsOnNext
=============================================================================
