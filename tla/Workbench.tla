----------------------------- MODULE Workbench ------------------------------
(* The adjudication workbench (eval/workbench.py) with the programs that      *)
(* share its store: eval-gold-extras (eval/gold_extras.py) and the Spellbook  *)
(* absence discovery (eval/reference_absent.py).  Streamlit runs the script   *)
(* of a browser tab from the top on every click, each tab in a thread of its  *)
(* own: their runs interleave, on one connection.  Seeding an empty database  *)
(* is two steps, asking and importing; an export is three, collecting the     *)
(* rows, opening the file, which truncates it, and writing it out.  A process *)
(* may be stopped at any moment, also in the middle of a file.                *)
EXTENDS Store

CONSTANTS
  Tabs,      \* browser tabs
  Committed, \* the gold file of a fresh checkout
  Label,     \* GOLD_EXTRA_ADJUDICATIONS: the verdict on each discovered extra
  Nobody,    \* no candidate
  Filters,   \* bound: the filters the reviewer uses, as pairs of corpus and review state
  MaxStops   \* bound: programs stopped and fresh checkouts

ASSUME WorkbenchAssumption ==
  /\ Committed \in Files
  /\ Rows(Committed) \subseteq GoldIds
  /\ DOMAIN Label \subseteq GoldIds
  /\ \A i \in DOMAIN Label : Label[i] \in Verdicts
  /\ Nobody \notin Ids
  /\ Filters \subseteq Corpora \X Reviews
  /\ MaxStops \in Nat

VARIABLES
  db,      \* the database file
  gold,    \* eval/adjudications/gold_pool_extras.jsonl
  absent,  \* data/eval/spellbook_absent.jsonl
  up,      \* the workbench process runs
  holder,  \* who holds the DuckDB lock: none, workbench, script
  tab,     \* the session of each tab
  shared,  \* the tabs that write the gold file and met another one at it
  judged,  \* history: the latest verdict given on each candidate
  alone,   \* history: the tab whose save no other tab has disturbed so far
  blurred, \* history: the file was last written by a tab that was not alone
  stops    \* how often a program was stopped or the checkout made anew

vars == <<db, gold, absent, up, holder, tab, shared, judged, alone, blurred, stops>>
exports == <<shared, alone, blurred>>

Buttons == {"save", "stay", "skip", "back"}

(* A session: what its script is doing, the widgets, st.session_state.idx,    *)
(* the candidate on the page, and of the run that a click started the         *)
(* candidate it picked, the length of its queue, the verdict in the form and  *)
(* the rows it has collected for the file.                                    *)
Closed == [pc |-> "closed", review |-> "unreviewed", corpus |-> "gold_pool_extras",
           idx |-> 0, shown |-> Nobody, button |-> "none",
           pick |-> Nobody, size |-> 0, verdict |-> Unreviewed, rows |-> EmptyFile]

Init ==
  /\ db = EmptyDatabase
  /\ gold = Committed
  /\ absent = EmptyFile
  /\ up = FALSE
  /\ holder = "none"
  /\ tab = [t \in Tabs |-> Closed]
  /\ shared = {} /\ alone = {} /\ blurred = FALSE
  /\ judged = [i \in Ids |-> Unreviewed]
  /\ stops = 0

(* _ensure_loaded: the gold file, if the run found an empty database, and the *)
(* absent file always, unless the gold file raised.  The database of a page   *)
(* is not empty: only a run that no button started may seed it.               *)
Seeded_Always(t) == import_jsonl(db, gold)
Seeded(t) == IF tab[t].pc = "seeding" THEN import_jsonl(db, gold) ELSE db
SeedRaises(t) == tab[t].pc = "seeding" /\ gold.torn
Loaded(t) == IF SeedRaises(t) THEN Seeded(t) ELSE import_jsonl(Seeded(t), absent)
LoadRaises(t) == SeedRaises(t) \/ absent.torn

Least(a, b) == IF a < b THEN a ELSE b
Greatest(a, b) == IF a > b THEN a ELSE b

(* The candidate at an index of a queue in the order of the names.  An index  *)
(* within the queue has one.                                                  *)
Index(Q, i) == Cardinality({j \in Q : Rank[j] < Rank[i]})
At(Q, n) == CHOOSE i \in Q : (\E j \in Q : Index(Q, j) = n) => Index(Q, i) = n

(* The page of a tab on a loaded database: the clamped index, the candidate.  *)
View(t, d) == queue(d, tab[t].corpus, tab[t].review)
Clamped(t, d) == Least(tab[t].idx, Cardinality(View(t, d)) - 1)
Candidate(t, d) == At(View(t, d), Clamped(t, d))

-----------------------------------------------------------------------------
(* adjudicate-workbench: refused while another process holds the lock. *)
Launch ==
  /\ ~up
  /\ holder = "none"
  /\ up' = TRUE
  /\ UNCHANGED <<db, gold, absent, holder, tab, exports, judged, stops>>

OpenTab(t) ==
  /\ up
  /\ tab[t].pc = "closed"
  /\ tab' = [tab EXCEPT ![t].pc = "rerun"]
  /\ UNCHANGED <<db, gold, absent, up, holder, exports, judged, stops>>

(* A run that no button started: connect, load, show a candidate.             *)
StartSeed(t) ==
  /\ tab[t].pc = "rerun"
  /\ holder # "script"
  /\ db.candidates = {}
  /\ holder' = "workbench"
  /\ tab' = [tab EXCEPT ![t].pc = "seeding"]
  /\ UNCHANGED <<db, gold, absent, up, exports, judged, stops>>

Loads(t) ==
  /\ holder # "script"
  /\ \/ tab[t].pc = "seeding"
     \/ tab[t].pc = "rerun" /\ db.candidates # {}
  /\ db' = Loaded(t)
  /\ holder' = "workbench"
  /\ alone' = IF tab[t].pc = "seeding" THEN {} ELSE alone
  /\ UNCHANGED <<gold, absent, up, shared, blurred, judged, stops>>

ShowLocked(t) ==
  /\ tab[t].pc = "rerun"
  /\ holder = "script"
  /\ tab' = [tab EXCEPT ![t].pc = "idle", ![t].shown = Nobody]
  /\ UNCHANGED <<db, gold, absent, up, holder, exports, judged, stops>>

ShowNothing(t) ==
  /\ Loads(t)
  /\ LoadRaises(t) \/ View(t, Loaded(t)) = {}
  /\ tab' = [tab EXCEPT ![t].pc = "idle", ![t].shown = Nobody]

ShowCandidate(t) ==
  /\ Loads(t)
  /\ ~LoadRaises(t)
  /\ View(t, Loaded(t)) # {}
  /\ tab' = [tab EXCEPT ![t].pc = "idle", ![t].idx = Clamped(t, Loaded(t)),
                        ![t].shown = Candidate(t, Loaded(t))]

Show(t) == StartSeed(t) \/ ShowLocked(t) \/ ShowNothing(t) \/ ShowCandidate(t)

(* The sidebar: another filter, or the same (a refresh). *)
Refilter(t, filter) ==
  /\ tab[t].pc = "idle"
  /\ tab' = [tab EXCEPT ![t].pc = "rerun", ![t].corpus = filter[1], ![t].review = filter[2],
                        ![t].button = "none"]
  /\ UNCHANGED <<db, gold, absent, up, holder, exports, judged, stops>>

(* The run that a click starts, up to the button: it loads and reads the      *)
(* queue anew, and means the candidate that is at the index now.              *)
ClickBack(t) ==
  /\ tab[t].pc = "idle"
  /\ tab[t].shown # Nobody
  /\ ~LoadRaises(t)
  /\ View(t, Loaded(t)) # {}
  /\ db' = Loaded(t)
  /\ tab' = [tab EXCEPT ![t].pc = "rerun", ![t].button = "back",
                        ![t].idx = Greatest(Clamped(t, Loaded(t)) - 1, 0)]
  /\ UNCHANGED <<gold, absent, up, holder, exports, judged, stops>>

ClickVerdict_AfterMove(t, button, verdict) ==
  /\ tab[t].pc = "idle"
  /\ tab[t].shown # Nobody
  /\ ~LoadRaises(t)
  /\ View(t, Loaded(t)) # {}
  /\ db' = Loaded(t)
  /\ LET size == Cardinality(View(t, Loaded(t)))
         moved == Least(Clamped(t, Loaded(t)) + 1, size - 1)
     IN tab' = [tab EXCEPT ![t].pc = "saving", ![t].button = button, ![t].idx = moved,
                           ![t].pick = At(View(t, Loaded(t)), moved), ![t].size = size,
                           ![t].verdict = verdict]
  /\ UNCHANGED <<gold, absent, up, holder, exports, judged, stops>>
ClickVerdict(t, button, verdict) ==
  /\ tab[t].pc = "idle"
  /\ tab[t].shown # Nobody
  /\ ~LoadRaises(t)
  /\ View(t, Loaded(t)) # {}
  /\ db' = Loaded(t)
  /\ tab' = [tab EXCEPT ![t].pc = "saving", ![t].button = button,
                        ![t].idx = Clamped(t, Loaded(t)), ![t].pick = Candidate(t, Loaded(t)),
                        ![t].size = Cardinality(View(t, Loaded(t))), ![t].verdict = verdict]
  /\ UNCHANGED <<gold, absent, up, holder, exports, judged, stops>>

(* The queue has become empty, or a file broken: the click is lost. *)
ClickLost(t) ==
  /\ tab[t].pc = "idle"
  /\ tab[t].shown # Nobody
  /\ LoadRaises(t) \/ View(t, Loaded(t)) = {}
  /\ db' = Loaded(t)
  /\ tab' = [tab EXCEPT ![t].shown = Nobody, ![t].button = "none"]
  /\ UNCHANGED <<gold, absent, up, holder, exports, judged, stops>>

(* _save, first half.  A tab that is between the halves of its own is         *)
(* disturbed by it, and disturbs it.                                          *)
Exporting(t) == tab[t].pc \in {"exporting", "collected", "writing"}
Undisturbed(t) == IF \E u \in Tabs \ {t} : Exporting(u) THEN {} ELSE {t}

Save_StayUnexported(t) ==
  /\ tab[t].pc = "saving"
  /\ db' = save_adjudication(db, tab[t].pick, tab[t].verdict)
  /\ judged' = [judged EXCEPT ![tab[t].pick] = tab[t].verdict]
  /\ alone' = Undisturbed(t)
  /\ tab' = [tab EXCEPT ![t].pc = IF tab[t].button = "stay" THEN "rerun" ELSE "exporting"]
  /\ UNCHANGED <<gold, absent, up, holder, shared, blurred, stops>>
Save(t) ==
  /\ tab[t].pc = "saving"
  /\ db' = save_adjudication(db, tab[t].pick, tab[t].verdict)
  /\ judged' = [judged EXCEPT ![tab[t].pick] = tab[t].verdict]
  /\ alone' = Undisturbed(t)
  /\ tab' = [tab EXCEPT ![t].pc = "exporting"]
  /\ UNCHANGED <<gold, absent, up, holder, shared, blurred, stops>>

(* The index after the buttons: "Save & next" and "Skip" move, "Save" stays.  *)
NextIdx_NoFloor(s) ==
  IF s.button = "stay" THEN s.idx
  ELSE IF s.review = "unreviewed" THEN Least(s.idx, s.size - 2)
  ELSE Least(s.idx + 1, s.size - 1)
NextIdx_AlwaysAdvance(s) ==
  IF s.button = "stay" THEN s.idx ELSE Least(s.idx + 1, s.size - 1)
NextIdx(s) ==
  IF s.button = "stay" THEN s.idx
  ELSE IF s.review = "unreviewed" THEN Least(s.idx, Greatest(s.size - 2, 0))
  ELSE Least(s.idx + 1, s.size - 1)

(* _save, second half: export_jsonl collects the rows of the whole database.  *)
Collect_OwnRow(t) ==
  /\ tab[t].pc = "exporting"
  /\ tab' = [tab EXCEPT ![t].pc = "collected",
                        ![t].rows = [gold EXCEPT !.rows[tab[t].pick] = tab[t].verdict]]
  /\ UNCHANGED <<db, gold, absent, up, holder, exports, judged, stops>>
Collect(t) ==
  /\ tab[t].pc = "exporting"
  /\ tab' = [tab EXCEPT ![t].pc = "collected", ![t].rows = export_jsonl(db, "all")]
  /\ UNCHANGED <<db, gold, absent, up, holder, exports, judged, stops>>

(* open(path, "w") truncates the file; until it is closed some of the rows    *)
(* are in it, perhaps one in part.                                            *)
OpenFile(t, n, torn) ==
  /\ tab[t].pc = "collected"
  /\ gold' = Cut(tab[t].rows, n, torn)
  /\ tab' = [tab EXCEPT ![t].pc = "writing"]
  /\ LET others == {u \in Tabs : tab[u].pc = "writing"}
     IN shared' = IF others = {} THEN shared ELSE shared \cup others \cup {t}
  /\ UNCHANGED <<db, absent, up, holder, alone, blurred, judged, stops>>

(* Of tabs that write at the same time each has its own place in the file:    *)
(* any row is that of one of them, or spoilt.                                 *)
Mixed ==
  LET Writers == {u \in Tabs : tab[u].pc = "writing"}
      Sources(i) == {Missing, gold.rows[i]} \cup {tab[u].rows.rows[i] : u \in Writers}
  IN {file \in [rows : [Ids -> UNION {Sources(i) : i \in Ids}], torn : BOOLEAN] :
        \A i \in Ids : file.rows[i] \in Sources(i)}
Written(t) == IF t \in shared THEN Mixed ELSE {tab[t].rows}

(* The file is closed; the move of the index and st.rerun(). *)
WriteFile(t) ==
  /\ tab[t].pc = "writing"
  /\ gold' \in Written(t)
  /\ shared' = shared \ {t}
  /\ blurred' = (t \notin alone)
  /\ tab' = [tab EXCEPT ![t].pc = "rerun", ![t].idx = NextIdx(tab[t]), ![t].rows = EmptyFile]
  /\ UNCHANGED <<db, absent, up, holder, alone, judged, stops>>

-----------------------------------------------------------------------------
(* Ctrl+C or a crash.  Sessions are lost, the lock is released; a file that   *)
(* is open stays as it is.                                                    *)
StopProcess ==
  /\ up
  /\ stops < MaxStops
  /\ up' = FALSE
  /\ holder' = IF holder = "workbench" THEN "none" ELSE holder
  /\ tab' = [t \in Tabs |-> Closed]
  /\ shared' = {}
  /\ stops' = stops + 1
  /\ UNCHANGED <<gold, absent, judged, alone, blurred>>

Stop == StopProcess /\ UNCHANGED db

(* Some rows of one of the files are in, perhaps the candidate of one more    *)
(* row without its adjudication.                                              *)
PartOf(d, file, n, m) ==
  upsert_candidate(ImportRows(d, file, Below(Rows(file), n)), Below(Rows(file), m))

StopInSeed(t, n, m) ==
  /\ StopProcess
  /\ tab[t].pc = "seeding"
  /\ db' = PartOf(db, gold, n, m)

StopInMerge(t, n, m) ==
  /\ StopProcess
  /\ tab[t].pc \in {"rerun", "seeding"} /\ holder # "script"
  /\ tab[t].pc = "rerun" => db.candidates # {}
  /\ ~SeedRaises(t)
  /\ db' = PartOf(Seeded(t), absent, n, m)

-----------------------------------------------------------------------------
(* The other programs. *)
StartScript ==
  /\ holder = "none"
  /\ holder' = "script"
  /\ UNCHANGED <<db, gold, absent, up, tab, exports, judged, stops>>

(* persist_gold_pool_extras: every extra is upserted and given its label;     *)
(* one without a label raises before the export.                              *)
Relabel(f, S) == [i \in Ids |-> IF i \in S THEN Label[i] ELSE f[i]]
Labelled(S) == [candidates |-> db.candidates \cup S,
                adjudications |-> Relabel(db.adjudications, S)]

GoldExtras ==
  /\ holder = "script"
  /\ db' = Labelled(DOMAIN Label)
  /\ gold' = export_jsonl(Labelled(DOMAIN Label), "gold_pool_extras")
  /\ blurred' = FALSE
  /\ judged' = Relabel(judged, DOMAIN Label)
  /\ holder' = "none"
  /\ UNCHANGED <<absent, up, tab, shared, alone, stops>>

(* Stopped while it writes the file. *)
StopInGoldExtras(n, torn) ==
  /\ holder = "script"
  /\ stops < MaxStops
  /\ db' = Labelled(DOMAIN Label)
  /\ gold' = Cut(export_jsonl(Labelled(DOMAIN Label), "gold_pool_extras"), n, torn)
  /\ judged' = Relabel(judged, DOMAIN Label)
  /\ holder' = "none"
  /\ stops' = stops + 1
  /\ UNCHANGED <<absent, up, tab, exports>>

(* Raised, or stopped, before it: one more extra is in without its label. *)
GoldExtrasRaises(S, extra) ==
  /\ holder = "script"
  /\ stops < MaxStops
  /\ db' = upsert_candidate(Labelled(S), {extra})
  /\ judged' = Relabel(judged, S)
  /\ holder' = "none"
  /\ stops' = stops + 1
  /\ UNCHANGED <<gold, absent, up, tab, exports>>

(* persist_spellbook_absent_candidates, of what was discovered this time. *)
AbsentDiscovery(found) ==
  /\ holder = "script"
  /\ db' = upsert_candidate(db, found)
  /\ absent' = export_jsonl(upsert_candidate(db, found), "spellbook_absent")
  /\ holder' = "none"
  /\ UNCHANGED <<gold, up, tab, exports, judged, stops>>

(* Stopped while it writes the file. *)
StopInDiscovery(found, n, torn) ==
  /\ holder = "script"
  /\ stops < MaxStops
  /\ db' = upsert_candidate(db, found)
  /\ absent' = Cut(export_jsonl(upsert_candidate(db, found), "spellbook_absent"), n, torn)
  /\ holder' = "none"
  /\ stops' = stops + 1
  /\ UNCHANGED <<gold, up, tab, exports, judged>>

(* The number of extras is not the number of labels: nothing is persisted. *)
ScriptFails ==
  /\ holder = "script"
  /\ holder' = "none"
  /\ UNCHANGED <<db, gold, absent, up, tab, exports, judged, stops>>

(* Everything under data/ is ignored by git: only the gold file is kept. *)
FreshCheckout ==
  /\ ~up /\ holder = "none"
  /\ stops < MaxStops
  /\ db' = EmptyDatabase
  /\ absent' = EmptyFile
  /\ judged' = [i \in Ids |-> Unreviewed]
  /\ stops' = stops + 1
  /\ UNCHANGED <<gold, up, holder, tab, exports>>

Places == 0..Cardinality(Ids)

TabStep(t) ==
  \/ OpenTab(t) \/ Show(t) \/ ClickBack(t) \/ ClickLost(t)
  \/ Save(t) \/ Collect(t) \/ WriteFile(t)
  \/ \E filter \in Filters : Refilter(t, filter)
  \/ \E button \in Buttons \ {"back"}, v \in Verdicts : ClickVerdict(t, button, v)
  \/ \E n \in Places : \E m \in {n, n + 1} : StopInSeed(t, n, m) \/ StopInMerge(t, n, m)
  \/ \E n \in Places, torn \in BOOLEAN : OpenFile(t, n, torn)

Next ==
  \/ \E t \in Tabs : TabStep(t)
  \/ Launch \/ Stop \/ StartScript \/ GoldExtras \/ ScriptFails \/ FreshCheckout
  \/ \E n \in Places, torn \in BOOLEAN : StopInGoldExtras(n, torn)
  \/ \E S \in SUBSET DOMAIN Label : \E extra \in GoldIds \ S :
       S # DOMAIN Label /\ GoldExtrasRaises(S, extra)
  \/ \E found \in SUBSET (Ids \ GoldIds) :
       \/ AbsentDiscovery(found)
       \/ \E n \in Places, torn \in BOOLEAN : StopInDiscovery(found, n, torn)

Spec == Init /\ [][Next]_vars

-----------------------------------------------------------------------------
Sessions ==
  [pc : {"closed", "idle", "saving", "exporting", "collected", "writing", "rerun", "seeding"},
   review : Reviews,
   corpus : Corpora, idx : Nat, shown : Ids \cup {Nobody}, button : Buttons \cup {"none"},
   pick : Ids \cup {Nobody}, size : Nat, verdict : Adjudications, rows : Files]

(* The variables have their types. *)
TypeOK ==
  /\ db \in Databases
  /\ gold \in Files
  /\ absent \in Files
  /\ up \in BOOLEAN
  /\ holder \in {"none", "workbench", "script"}
  /\ tab \in [Tabs -> Sessions]
  /\ shared \subseteq Tabs /\ alone \subseteq Tabs /\ blurred \in BOOLEAN
  /\ judged \in [Ids -> Adjudications]
  /\ stops \in 0..MaxStops

(* The verdict on a gold candidate is in the database from the moment it is   *)
(* saved, through every reload of the page and restart of the workbench, with *)
(* whatever is in the files by then, until it is judged again.                *)
GoldVerdictStands ==
  \A i \in GoldIds : judged[i] # Unreviewed => db.adjudications[i] = judged[i]

(* As long as nothing was stopped halfway, the gold file has every verdict    *)
(* that the database has on a gold candidate as soon as no tab is between the *)
(* halves of its save.  Tabs that save at the same time may leave one out;    *)
(* the next save that no other disturbs puts it in.                           *)
FileKeepsUp ==
  (stops = 0 /\ ~blurred /\ \A t \in Tabs : ~Exporting(t)) =>
    \A i \in GoldIds :
      db.adjudications[i] # Unreviewed => gold.rows[i] = db.adjudications[i]

(* A verdict goes to the candidate that was on the page when the button was   *)
(* pressed, although the run looks it up anew by its index.                   *)
ShownIsJudged == \A t \in Tabs : tab[t].pc = "saving" => tab[t].pick = tab[t].shown

(* "Save & next" and "Skip" among the unreviewed: the next page has the first *)
(* candidate left after the one that was shown, if there is one.              *)
LandsOnNext ==
  [][\A t \in Tabs :
       LET later == {i \in View(t, db') : Rank[i] > Rank[tab[t].shown]}
       IN (/\ ShowCandidate(t)
           /\ tab[t].button \in {"save", "skip"}
           /\ tab[t].review = "unreviewed"
           /\ later # {}) =>
            tab'[t].shown \in later /\ \A i \in later : Rank[tab'[t].shown] <= Rank[i]]_vars

(* What the workbench collects for the gold file has every gold candidate     *)
(* that the file has: the committed record is not lost by reviewing.          *)
CommittedRowsSurvive ==
  [][\A t \in Tabs : Collect(t) => Rows(gold) \cap GoldIds \subseteq Rows(tab'[t].rows)]_vars

(* A reviewer who only ever skips comes to the end of the unreviewed.  The    *)
(* script's own steps are fair; that clicks keep coming is the premise.       *)
Skipping(t) ==
  /\ tab[t].review = "unreviewed"
  /\ tab[t].button \in {"none", "skip"}
SkippingSpec ==
  /\ Spec
  /\ \A t \in Tabs :
       /\ WF_vars(Show(t)) /\ WF_vars(Save(t)) /\ WF_vars(Collect(t)) /\ WF_vars(WriteFile(t))
       /\ WF_vars(\E n \in Places, torn \in BOOLEAN : OpenFile(t, n, torn))
SkippingEnds ==
  \A t \in Tabs :
    ~([]Skipping(t) /\ []<><<\E v \in Verdicts : ClickVerdict(t, "skip", v)>>_vars)
=============================================================================
