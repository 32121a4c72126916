# Formal verification of the MTG loop engine

This directory holds TLA+ models of `src/mtg_loop_engine`, the TLC configurations that check
them on small instances, and theorems about them that TLAPS checks. Paths below are relative to
the package (`src/mtg_loop_engine/`) unless they start with `docs/`.

The engine decides whether two Magic cards form an infinite loop. It compiles cards to an
intermediate representation (IR), searches for a sequence of steps that returns to where it
started, and has the result judged by a verifier that runs the steps on its own executor. Only
the verifier's word counts, so the models start from it and from the executor below it.

## 1. Inventory

| Part | State | Operations | Models |
| --- | --- | --- | --- |
| mana (`rules/executor.py:713-791`) | two pools: unrestricted, activate-only | `_credit_mana`, `pay_mana` | `Mana`, `ManaPool` |
| semantics IR (`semantics/ir.py`) | none (data) | `relevant_unsupported` | `IR` |
| game state (`state/game.py`) | permanents in dictionary order, pools, life, hand and library counts, energy, pending triggers, event counters | `from_spec`, `bump`, `get_path`, `copy` | `Objects`, `GameState` |
| continuous facts (`rules/executor.py:77-710`) | none, read off the state | power, types, multipliers, replacements, cost reductions | `GameState` |
| effects, triggers, deaths (`rules/executor.py:776-2270`) | the game state | `apply_effects`, `_queue_triggers`, `die`, `apply_state_based_actions` | `Effects` |
| steps (`rules/executor.py:2272-3201`) | the game state | `activate`, `resolve_trigger`, `cast_from_hand`, tap-bounce, `sacrifice`, seeds, `run_step`, `run_sequence` | `Executor`, `Steps`, `Play` |
| recurrence (`state/paths.py`, `verify/mandatory_recurrence.py`, `proofs/net_state.py`, `proofs/consequence.py`) | none | paths, mandatory dimensions, outputs, net state, claims | `Recurrence` |
| verifier (`verify/verifier.py`) | witness, executor state, copy taken before the loop | gates, setup, loop, judgement | `Verifier`, `LoopContract`, `Judgement` |
| search (`search/explorer.py`, `pruning.py`, `discover.py`) | candidate pairs left, start state and setup, queue, expanded fingerprints, hits | board of a pair, seeds, `legal_steps`, breadth-first search, `build_witness` | `Seeds`, `Needs`, `Placement`, `Setup`, `Moves`, `Witnesses`, `Search`, `Discovery` |
| participants and disclosure (`eval/classify.py`) | none | `analyze_prerequisites` | `Witnesses` |
| candidate index (`interactions/`) | facets per card | `extract_capabilities`, `join_reasons`, `candidate_pairs` | `Capabilities` |
| compiler (`semantics/compiler.py`, `patterns/`) | none | Oracle text to IR: split, match, price, coverage | `OracleText`, `Patterns`, `Compiler` (38 of its patterns, see section 5) |
| adjudication store (`eval/store.py`) | DuckDB rows, JSONL files, the lock of the database file | upsert, save, queue, export, import | `Store` |
| workbench and the scripts beside it (`eval/workbench.py`, `eval/gold_extras.py`, `eval/reference_absent.py`) | sessions of the browser tabs, the process | load, show, filter, save, skip, back; label extras, discover absences | `Workbench` |
| reports, ingest, benchmark, corpora, CLI | none of their own | wording, parsing, downloads, data | not modelled |

**How they interact.** Everything is synchronous calls on one mutable `GameState`. The compiler
turns texts into semantics, the index pairs cards whose semantics may feed each other, the search
explores the pairs one by one. It calls `Executor.run_step` on copies of a start state, and the
verifier for every lap that may close; the verifier calls `run_sequence` on a
state of its own, copies it between setup and loop, and compares. The executor is handed the map
from oracle ids to `CardSemantics` and reads continuous effects from it on every call. Inside a
step, effects raise events, events queue triggers (`pending_triggers`), and a later
`resolve_trigger` step resolves one of them: the queue and the event counters are how steps talk
to each other.

The workbench is the one part with state that outlives a process. Streamlit runs its script from
the top for every click of every tab, all on one connection; each run loads the files, reads the
queue, shows the candidate at the session's index and, for a button, saves to the database and
exports to the file: it collects all rows, opens the file, which truncates it, and writes them. Two scripts write the same database when the workbench does not hold its
lock.

**What is hard.** There are no threads and no network in the core. What makes it hard is the
long chains of legal steps that an adversarially chosen witness may list: costs paid before an
effect fails, state-based actions that run once per step, triggers queued now and resolved after
the board has changed, a search that prunes by fingerprints which leave things out and stops at
limits, seeds that change the board the search starts from, replacement effects that change a quantity between its cost and its
counter, creatures that leave and return, and one lap that must stand for all laps. Crash,
restart and interleaving matter in the adjudication store and its workbench. `PROJECT.json` lists each hazard at its line.

**What makes each part correct.**
- mana: a payment succeeds when one exists, takes its price, respects the reserved pool;
- executor: no doomed creature outlives a step, ledgers of life, cards, energy and deaths
  balance, every death and entry reaches its watchers once, summoning sickness and once-per-turn
  hold over any history, undying is gated by counters;
- verifier: it verifies exactly the witnesses that `Judgement` accepts, a witness cannot weaken
  the dimensions the verifier owns, and a verified lap can be run again;
- candidate index: two cards with a reason to interact become a pair, in one order or the other;
- search: a pair is reported with a shortest lap that the verifier accepts and both cards need, and
  left out only if there is none within the limits; the setup replays, and what was seeded is
  disclosed;
- compiler: a card that counts as understood has had every sentence matched and every symbol of a
  price turned into a cost;
- store and workbench: a verdict stands until the next one, whatever is stopped when; the file
  follows the database, at the latest with the next save that no other tab disturbs; a verdict goes to the candidate on the page, and the reviewer comes to
  the next one and to the end.

## 2. Modules

    Mana ── IR ── Objects ── GameState ── Effects ── Executor ── Steps ─┬─ Play ── MCPlay*
      │      │                                                          └─ Recurrence ── LoopContract ─┬─ Verifier ── MCVerifier
    ManaPool │                                                                                         ├─ Judgement (INSTANCEd by Verifier)
      │      └─ Capabilities ── Needs ──┬── Placement (INSTANCEd by Setup)                             │
    MCManaPool                  Seeds ──┴── Setup ── Moves ── Witnesses ───────────────────────────────┘
                                                                  ├─ Discovery (INSTANCEd by Search)
                                                                  └─ Search ── MCSearch
    IR ── OracleText ── Patterns ── Compiler (PairCards: the texts) ── MCSearch

    Store ── Workbench ── MCWorkbench

    ManaPool ── ManaProofs                 Verifier ── VerifierProofs       Workbench ── WorkbenchProofs
    Steps, FoldFacts ── ExecutorProofs ── StepProofs ─┬─ PlayProofs (with Play)
                                                      └─ SearchProofs (with Search)

- **`Mana`** has `pay_mana` loop for loop: pips in field order, each from the unrestricted pool,
  then the activate-only pool, then `any_color`; then generic mana from the colours, colourless
  and `any_color` of one pool and then the other. A payment is the record of both pools and a
  status, so a failed payment keeps what it had drained, as in the code. **`ManaPool`** makes it a
  machine: credits and payments in any order. An amount is a function from the eight fields to
  naturals.
- **`IR`** has one record per class of `semantics/ir.py` with the defaults of the class; cards
  are built from them by `EXCEPT`. Optional fields are sets with at most one element.
- **`Objects`** has the records of `state/game.py`: a permanent, the game state, the initial state of
  a witness, an action step and the result of a step. `permanents` is a function and `order` the
  sequence of its keys, since the code iterates over the dictionary and its order decides which
  creature is picked or dies first. Where the code sorts by id, the order of strings is the
  constant `ObjectIds`. Token ids come from the constant `TokenIds` in turn. `IsState` is the type of
  a game state. **`GameState`** has what the executor reads off one: power and types, multipliers,
  replacements, cost reductions.
- **`Effects`** and **`Executor`** give every method of `Executor` as an operator from a state to
  a result `[st, err]`; `err` is `"ok"` or the `VerificationStatus` of the `ExecError`. Result-passing
  chaining keeps the partial state of a failing step. Recursion of the code (effects that run
  spells that run effects) is unfolded to the depth cards reach; repeated steps are folds.
- **`Steps`** is the executor for a semantics map: it instantiates `Executor` for the modules below
  and says what is assumed of the cards.
- **`Play`** is the machine of the executor: from one of `Boards`, any step with any actor,
  ability and targets. One action per operation of `_run_step_body`. An error ends the run, as in
  `run_sequence`, and keeps the state it left.
- **`Recurrence`** has the state paths, `EXACT`/`MINIMUM`/`MAXIMUM` comparison, the mandatory
  dimensions of ADR 0008, outputs, net state and derived claim, and `derive_relevant_state`.
- **`Verifier`** takes a witness of the constant `Corpus` and runs it: `Gates`, `Execute` (one step of setup or loop), `StartLoop`
  (the copy), `Judge`. **`Judgement`** is what a reader of ADR 0008 expects, with no order of
  gates, no merging and no steps: a witness is verified exactly when it may be judged, both
  sequences run, the owned dimensions are unchanged, the declared ones hold and the claim fits.
  **`LoopContract`** has these conditions as operators, for `Judgement` and for the search.
- **`BoardCards`** has the cards of the runs, cut down to the abilities their loops use; **`ToolCards`**
  cards for every other cost and effect.
- **`Capabilities`** has the facets that joins look at (`ExtractCapabilities`), the reasons
  (`JoinReasons`), and the index: `Complements` asks for single facets, `CandidatePairs` goes over
  the complements in the order of the code and keeps the pairs with a reason.
- **`Seeds`** has the cards the search injects; **`Needs`** what the explorer asks
  of a card (the `_needs_…` and `_has_…` helpers); **`Placement`** the board of a pair
  (`default_initial_state`, with every kind of fodder, gate and scaled seed); **`Setup`** the seed steps that
  `explore_pair` runs on it, each kept in the setup only if it succeeds. **`Moves`** is
  `legal_steps`: resolutions, activations with the targets the code offers and in its order, casts,
  granted tap-bounces; `Successors` keeps the ones that the executor takes. **`Witnesses`** is
  `build_witness` with the participation and disclosure of `eval/classify.py`, and the test that
  `explore_pair` makes of every state it arrives at (`Acceptable`), which calls the verifier's
  contract on the witness from its initial state.
- **`Search`** is the machine of `discover_loops`: `StartPair`, `Seed` (one kind of seed after the
  other), `Begin`, `Visit`, `Accept`, `Drop`, `Expand`, `Abandon`, `Return`. `expanded` keeps beside each fingerprint
  the state that was expanded for it, so that a property can compare the two. **`Discovery`** knows
  nothing of queues and fingerprints: it takes the pairs that interact in any order and reports, of all
  laps of the least length with an accepted one, any; it passes over a pair only if no lap within the
  depth is accepted or there are more laps than states to visit.
- **`OracleText`**, **`Patterns`**, **`Compiler`**: a text is lines of sentences, a sentence what the
  regular expressions tell apart in it (price, phrase, symbols, number, token). The compiler splits
  and joins them as the code does, tries `PATTERNS` in order, parses prices and rates the coverage.
  **`PairCards`** has the printed texts of the cards of the search runs; the runs compile them, so that
  the composition goes from text over index and search to a verified hit.
- **`Store`** has the methods of `AdjudicationStore` as operators on a database (the candidates it
  holds, the verdict on each) and a file (the row of each candidate, and whether its last line is
  torn). The columns of an adjudication are one value; the id of a candidate fixes its corpus.
- **`Workbench`** is the machine of one workbench process, its tabs, the two scripts and what git
  keeps. The run of a page is cut where another tab or a stop can come between: before it
  (`rerun`), between finding the database empty and importing the gold file (`seeding`), at the
  button (`saving`), between the save and the three parts of the export, which are collecting the
  rows, opening the file and writing it (`exporting`, `collected`, `writing`), and after it (`idle`).
  A file that is open holds some of the rows, perhaps one in part; of tabs that write at the same time
  (`shared`) each has its own place in the file, so that any row may be that of one of them or spoilt. `ClickVerdict`
  is the part of the run that a button starts up to the button: it loads and looks the candidate
  up by its index, as the code does. A stop may leave any part of an import or an export done
  (`StopInSeed`, `StopInMerge`, `StopInGoldExtras`, `StopInDiscovery`, and `Stop` while a tab writes).
  `judged`, `alone` and `blurred` are history variables: the latest verdicts, the tab whose save no
  other has disturbed since, and whether the file was last written by a tab that was not alone.

Operators named `X_Suffix` beside an operator `X` are the faulty variants of it that the mutation
table of `PROJECT.json` puts in its place; nothing else uses them.

## 3. Runs

| Run | Bounds | What it shows |
| --- | --- | --- |
| `MCManaPool` | white, colourless and `any_color`, five costs, no pool above 3 | `PaymentComplete`: greedy payment never misses a payment that exists, by comparison with every assignment of `any_color` to colours, and succeeds without one only where `{C}` is missing (section 6); `PaymentExact`, `FailureNamed`, `ActivateOnlyReserved` |
| `MCPlay` | five boards of loops, 10 to 13 events, two tokens; one board of tools, 2 events | deaths by sacrifice, damage and counters, undying, a drain with a doubling replacement; counters, energy, discards, once per turn, copies of abilities; blink, bounce, recast, tokens: stability, ledgers, no lost or doubled death or entry, undying gated by the counter, nothing taps that is sick or came this turn; on the board of tools every other cost and effect fires, under all multipliers (but for damage to each player, section 4) |
| `MCPlayDeathError` | two of the boards, 12 events | fails: a failing step leaves a 0/0 in play (section 6) |
| `MCVerifierLoops` | laps of up to 4 steps on three boards, setups of up to one step, as the search writes them; laps of up to 3 with 6 sets of declared dimensions; 17 headers | `IsJudgement` (refinement), `MandatoryHold`, `OncePerTurnNotInLoop`; `VerifiedRepeats`: what is verified as the search declares it runs a second and a third lap |
| `MCVerifierHidden` | laps of up to 2 steps on two boards | fails: a lap that spends what no relevant state names (section 6) |
| `MCWorkbenchOne` | one tab, two gold candidates and an absent one, two verdicts, all filters, two stops | verdicts stand and reach the file, go to the candidate shown, and the next one is shown; `SkippingEnds`: skipping comes to an end, under fairness of the script's own steps |
| `MCWorkbenchTwo` | two tabs (symmetric), two gold candidates, one verdict, one filter (everything), no stop | `FileKeepsUp`: saves and exports of two tabs overlap in every way; the file has the verdicts of both once the last save was not disturbed by another |
| `MCWorkbenchFresh` | as `One`, one verdict, no stop | fails: files and database drift apart (section 6) |
| `MCSearch` | eleven pools of two to seven cards, 37 cards in all, depth 5, 60 states per pair | `IsDiscovery` (refinement), the search limits and order, setups that replay, seeds disclosed, both cards needed, hits understood and paid for |
| `MCSearchPrune` | Earthcraft with Presence of Gond, same limits | fails: equal fingerprints, other steps (section 6) |
| `MCSearchJoined` | two small pools with a line joined behind a clause that is matched at its beginning only, same limits | fails: the line is lost and a loop reported (section 6) |
| `MCSearchFree` | a life drain with a card that gains life for `{E}`, same limits | fails: the price is lost and a loop reported (section 6) |

**Why the bounds are enough.** A board of the play runs is bounded by the number of counted events
(`events` of its record), because it is a loop and would run for ever; each bound lets every loop
of its board go round at least twice, with all interleavings of the other steps, which is what the
ledgers and the once-only properties need. Up to three `any_color` mana, two kinds of pips and
generic costs make all competitions between pips, pools and generic mana happen. The loops of the
verifier boards are two or three steps long; one step more lets a lap do something useless or
harmful as well. The pools of the search run have hits of one to four steps and pairs that are no
loop, of which some run out of states, some reach the limits of depth or of visited states, and
many prune. Between them they use the seeds for life gain, life loss, tokens, lifelink and
tap-bounce, and boards with tokens, hosts of auras and of grants, Curio and bounce fodder, an
Island, mana creatures, metalcraft artifacts, subtype tokens, scaled Elves and scaled creatures;
the boards with Defenders, a ferocious creature, a tapping pair, a Plains or artifacts in hand are
modelled, but no card of the runs asks for one. On the eleven pools and those of `MCSearchPrune` and
`MCSearchFree` the repository's own `discover_loops`, run with the same cards and limits, reports the
same hits with the same laps in the same order, of the same candidate pairs; on the pools of
`MCSearchJoined` it reports both cards with the lost line. In the workbench, three candidates with an absent one
between two gold ones give a first, a middle and a last place in every queue, and a queue that a
verdict empties; one of the two gold candidates is committed with a verdict and one without; two
stops are a stopped import or export and another one after the restart. Two tabs need no third
candidate and no second verdict to overtake each other: a verdict is in the file or not. The theorems of section 4 have none of these bounds. `spare`
stops a run before it runs out of token ids, which the code never does.

**Deadlock.** The play runs stop at an error and at their bounds, the verifier at its verdict;
their configurations say `CHECK_DEADLOCK FALSE`. So do those of the workbench, which waits for its
users. `ManaPool` can always pay or fail to, and is checked for deadlock. So is `Search`: `Return`
is the only step left when all pairs are done, and nothing else stops it.

**Fairness.** Only `SkippingSpec` has any: a run of the page that has begun goes on (weak fairness
of `Show`, `Save` and the three steps of the export), since Streamlit runs the script to its end without waiting for
anyone. That the reviewer keeps clicking Skip is the premise of `SkippingEnds`, not an assumption
of the specification; stops and scripts need no fairness. The search has no fairness of its own:
that it ends follows from `SearchBounded` (no more than `MaxStates` visits of a pair, and a visit
is followed by at most two steps) and the absence of deadlock, and TLC would have to evaluate the
enabledness of steps that run the executor on every state. No other property says that something
eventually happens: a witness is a finite list, run by a synchronous function that returns.

## 4. Theorems

Every theorem holds for all values of the constants: all cards of the IR, boards, pools, corpora,
candidates, limits. What is assumed is named in the module that declares the constant, and TLC
evaluates it in every run.

| Assumption | What it says | Why |
| --- | --- | --- |
| `CardsAssumption` (`Steps`) | finitely many cards, each well-formed IR; a spell's body runs no further spell | `semantics/ir.py` validates the fields; spells in spells are unfolded to one level |
| `IdsAssumption` (`Steps`) | `ObjectIds` is a sequence | the order in which Python sorts the ids |
| `BoardsAssumption` (`Play`) | boards are typed states that nothing has been played on, with nothing doomed | what `from_spec` makes of an initial state |
| `CorpusAssumption` (`Verifier`) | setups and laps are sequences, at most one claimed net state | the fields of `LoopWitness` |
| `PoolsAssumption`, `PrintedPTAssumption` (`Search`) | pools are sequences of known cards, printed sizes are pairs of integers | `discover_loops` takes a list of semantics; fixtures |
| `OpeningAssumption`, `NeedsAssumption`, `ColorsAssumption` (`ManaPool`) | amounts are naturals | `ManaPool` of `state/game.py` starts at zero and is credited |
| `StoreAssumption`, `WorkbenchAssumption` | finitely many candidates with ranks, the committed file holds gold rows | the two tables and the corpora |

**Mana (`ManaProofs`).** `TypeCorrect`, `PaysWhenPayable`, `FailuresAreNamed`, `PaysThePrice`,
`SpellsLeaveActivateOnly`. The argument climbs the loops of `pay_mana`: one round is arithmetic on
the fields it touches (`DrainFieldFacts`, `PayPipFacts`); `PayPipsFacts`, `DrainFacts` and
`PayGenericFacts` chain the rounds; `PayManaFacts` says what a whole payment does;
`PayableIsByChoice` turns the existence of an assignment of `any_color` to colours into an inequality. The
properties speak of the latest payment, so they are not inductive by themselves; the inductive
invariant (`Owed`) says that whatever payment is remembered, the present pools are what
`PayManaFacts` promises of it.

**Executor (`ExecutorProofs`, `StepProofs`, over `FoldFacts`).** The executor is one deep function,
so its theorems are about `RunStep` on any state and any step, and go up the calls: a field that is
set, a permanent that changes, an object that dies or enters, a queued trigger, an effect, the
effects of an ability, costs, casts, resolutions, the step.

- `StepEnds`: a step ends with `"ok"` or with the status of an `ExecError`.
- `OnePassIsEnough`: one pass of the state-based actions leaves nothing doomed on any state, so the
  bound of 16 rounds in the code never stops it short.
- `StepsStayTyped`: a step takes a typed state to a typed state and forgets no object, when it fails
  half way as when it succeeds. `IsState` says that libraries, hand, energy and counters are not
  negative, that every object is in the order, and that every pending trigger has its source.

A loop of the code is a fold, and what it keeps is proved by induction over its length. The library's
induction theorems take an operator, which no installed prover can instantiate; so `FoldFacts` has
the induction once, for a parametrised step and invariant (`Op`, `P`), with the induction on the
naturals as an hypothesis in the form of sets (`NatSets` of `ExecutorProofs` discharges it), and
each loop instantiates it (`EachX == INSTANCE FoldFacts WITH …`). The recursive function that
defines a fold is not used otherwise.

**Runs of a board (`PlayProofs`).** `BoardStaysStable` (no doomed creature between two steps: a
successful step ends with the pass of `OnePassIsEnough`), `StateStaysTyped`, `BoardsStayNamed`,
`LedgersBalance`, `LifeBalances`. A ledger is not inductive: that the hand is what was drawn and discarded says nothing
of a state in the middle of an effect. The invariant is `InBooks`: the state is typed, its
objects are those of the opening board and the tokens handed out since, each in the order once, and the books
(hand, energy and life less what the event counters have booked) are those of the opening board.
`Kept(l, st)` states it of any intermediate state, and every lemma of the executor up to the step
carries it. `LifeBalances` has a hypothesis: no card deals damage to "each player"
(`~SharedDamage`), which `_apply_effects` (`rules/executor.py:1443`) counts once and takes from
both players, so that the ledger is false for such a card. No card of the runs is one.
`BoardsStayNamed` is the type invariant of `MCPlay`, under the hypothesis that the model's `TokenIds` do not
run out (`state.token_seq <= Len(TokenIds)`); the code counts on for ever.

**Verifier (`VerifierProofs`).** `VerifierTypes`; `MandatoryDimensionsHold` (a merged dimension on an
owned path is an exact comparison with the state before the loop, so recurrence is equality there);
`VerifierImplementsJudgement`, the refinement: every step of the machine is the judgement or a
stutter. Its invariant `OnTheWay` says that what is left of the setup or of the lap, run from the
state in hand, gives what the whole sequence gives from the start, and that the gates which have been
passed hold; then the last step, whichever gate or comparison ends the run, decides as
`Judgement` does at once, with declared and mandatory dimensions apart.

**Search (`SearchProofs`).** For all pools, limits and cards:

- `IndexFindsEveryJoin`, `EveryPairIsSearched`: `join_reasons` and `_complement_ids` are two lists of
  conditions kept by hand, and only pairs that the second finds are shown to the first. Every reason
  of the first is matched by a facet that the second asks for, from one side or the other; so the
  pairs that are searched are exactly the pairs of different supported cards with a reason.
- `BoardsAreStates`, `LegalStepsAreLegal`: the board of any pair is a typed state, with all the
  fodder, hosts, lands and tokens beside it; on a typed state every step that `legal_steps` offers
  runs without an error, to a typed state.
- `SearchStaysTyped`, `SearchStaysBounded`, `SearchIsBreadthFirst`: types, limits and order of the
  search. The invariant `Searching` adds to `BreadthFirst` that the node in hand was taken from the
  front of the queue, so that what `Expand` appends is one longer than it and not shorter than
  anything in the queue; that all the states in the queue are typed, which makes their legal steps a
  list; and that the laps in the queue lead from the start state to their states (`OnTrack`).
- `NodesStayNamed`: the type invariant of `MCSearch`, as `BoardsStayNamed` for every state that is looked at,
  under the same hypothesis on token ids (`Supplied`).
- `HitsAreSound`: the lap of every reported pair, run from the start state of that pair, goes well and
  is accepted there, verifier and participation included. So nothing of other pairs, of the queue or of
  the fingerprints can make a false hit: a fingerprint can only lose one.
- `SetupsReplay`: the recorded setup, run on the initial state of the witness, leads to the state
  that was searched from, if the seed that pays for a grant of lifelink leaves the state as it was
  when it fails (`PaidIsClean`). The hypothesis is needed: `explore_pair` runs the seed on the start
  state itself and drops it from the setup when it fails, but a cost that was paid before the error stays
  paid. The other seeds check before they change anything, which is proved. On the pools of `MCSearch`,
  where the paid seed is run, the hypothesis holds.

**Workbench (`WorkbenchProofs`).** `TypeCorrect`, `GoldVerdictsAreKept`, `FileIsUpToDate`, for any
number of tabs, candidates, verdicts and stops, with every cut of load and export between them.
`FileIsUpToDate` is the property of `MCWorkbenchTwo`: without a stop, once no tab is between its save
and its last write, and the last one to write was undisturbed from its save on, the file has every
verdict. That it must be undisturbed is not for the proof's sake: a tab that saves and exports between
another's collecting and opening is overwritten (section 6). The invariant says of the tab that is
alone that its rows have every verdict as soon as they are collected (`RowsAreNew`), and that no other is
in the middle of a save beside it (`AloneIsAlone`). `GoldVerdictsAreKept` has a hypothesis: no two tabs
are about to seed an empty database at the same time (`OneSeeds`), which two browser tabs opened on an
empty database might be; with one tab it always holds. A load keeps a verdict only because the gold file is
not imported into a database that has candidates, and the absent file has no gold row; so the
inductive invariant `IInv` adds that a judged gold candidate is stored (`JudgedIsStored`), that the
absent file has rows of absences only (`AbsentFileAbsent`), that what a tab is about to save is stored
(`PickIsStored`) and that sessions live in the process. `LoadedKeeps` says once what every step that
loads relies on. `PageIsJudged` and `NextPageIsNext` are about one tab (`OneTab`; with two it is false,
see the hazard at `eval/workbench.py:486`): the page that is shown is the one that a new run would
compute (`PageStands`), since loading a second time changes nothing; and after a verdict the rest of
the queue moves up to the index that the session keeps (`QueueMoves`). For the second, pairs of names
must differ (`NamesDiffer`): `ORDER BY` leaves equal ones in any order.

**Two forms the proofs ask for.** `SelectSeq`, `:>` and `@@` are recursive or opaque to the provers, so
the modules below the theorems filter sequences with `Picked` and `Those` and write into a dictionary
with `Stored`, which say the same in terms of functions. `Steps` instantiates `Executor` so that the
modules above see its assumptions as their own.

**Only model-checked:**
- what needs the cards of a board: `GraveyardLedger`, `NoDeathUndrained`, `UndyingReturnReady`,
  `OncePerTurnOnce`, `CountersNeedReducerGone`, `NoEntryUnseen`, `CounterGatesUndying`, and `SickDoNotTap`,
  which is false for cards that tap creatures as a cost or an effect;
- `SBAOneByOne`: deaths one by one against the fold over a list taken beforehand;
- `OncePerTurnNotInLoop` and `VerifiedRepeats`: the second is false in general (section 6, item 2), and
  holds of what the search declares on these boards;
- `IsDiscovery` (a search that prunes loses no hit), which item 4 of section 6 makes false for other
  cards, and `BothNeeded`, `SeedsDisclosed`, `HitsUnderstood`, `PriceKept`, which are about what the
  pools and texts of `MCSearch` bring together;
- `SkippingEnds`: liveness, and with it `ENABLED`, is beyond the prover, as is what a recursive
  definition computes for data of any length (the compiler, the text).

## 5. What is left out

- Wording, notes, messages of errors, hashes, canonical JSON: no property is about them.
- Regular expressions. A sentence is one phrase for all the wordings that a pattern takes for the
  same, so what the expressions match on text of any form is outside. Of the 175 patterns the model
  has the 38 that take the texts of `PairCards`, in the order of `PATTERNS`; the others have the
  same form. Names and reminder texts are left out of the texts.
- The curriculum and the fixtures (`real_oracle_curriculum.py`, `oracle_fixtures.py`,
  `provenance.py`) are data: the cards of `PairCards` are written after them, which of them are
  `ORACLE_EXACT` is the constant `ExactOracles`, printed power and toughness is `PrintedPT`.
- What `explore_pair` stamps on a hit after the verdict (net state, claim, classification): the
  verifier does not see it. Of `analyze_prerequisites` the model has what decides acceptance
  (participants) and what is disclosed, and no wording.
- The verifier inside the search is the contract (`LoopContract`) and not the step machine; that
  the machine implements it is checked by `MCVerifierLoops` and proved (`VerifierImplementsJudgement`).
- Reports, metrics, ingest, benchmark, corpora and command line keep no state of their own: wording,
  parsing and data.
- The model's strings are model-sized names: `ability_id` collisions and the `str` order of ids
  that the constant `ObjectIds` does not contain are outside.
- `CopyLastCastSpell` runs one level of copies.
- In the workbench: what the form remembers of an earlier choice, the study tab, and pairs whose
  names are equal, which `ORDER BY` leaves in any order (`Rank` gives each candidate a place). A
  script's database writes are one step, except where it raises or is stopped while it writes its
  file. Collecting the rows is one step of a tab: a save of another in its middle is one before or after
  it. That two threads use one DuckDB connection at the same instant, and what a query then returns, is
  outside; the docs ask for one workbench process and say nothing of tabs. With two tabs a click judges whatever
  has moved to its index, so `ShownIsJudged` is checked for one.

## 6. Where code and documentation disagree

1. `rules/README.md:130` says "Return `ExecError` rather than mutating into an illegal board";
   costs are paid before effects are tried, and an error skips the state-based actions, so a
   creature with toughness 0 stays in play (`MCPlayDeathError`). Callers drop the state of a
   failed run, so nothing is verified from it.
2. The repository's `README.md:41` says that with the steps of a verified proof "the board
   returns to a repeatable state and the stated advantage accumulates". The verifier runs one lap
   and the search declares no summoning sickness, energy, hand, life or library, so a lap that
   spends those is verified once and cannot be run twice (`MCVerifierHidden`). ADR 0008 lists the
   sickness as a follow-on.
3. `eval/adjudications/README.md:30` makes the gold file "Persist the labeled extras set that
   justifies baseline precision". It is imported only into an empty database, and the workbench
   exports the database over it. On a fresh checkout the order of
   `docs/runbooks/M5_NOVEL_CANDIDATES.md:245-246` (discovery, then workbench) fills the database
   first, and the first verdict drops the committed rows from the file (`MCWorkbenchFresh`).
4. `search/pruning.py:12` says "Equality of reusable fingerprints asserts search-equivalence for all
   currently modeled future legal behavior". Tokens are only counted, whether tapped or not:
   searching Earthcraft with Presence of Gond, a state is pruned whose legal
   steps are not those of the state expanded in its place (`MCSearchPrune`). On the pools of
   `MCSearch` no loop within the limits is lost by it: that is part of `IsDiscovery`.
5. `semantics/patterns/README.md:125` says "never invent a partial ability". `_parse_mana_braces` passes
   over symbols that are neither numbers nor colours, so an ability for `{E}` or `{X}` compiles as complete
   with nothing to pay, and a pair with it is reported as a loop (`MCSearchFree`).
6. `semantics/patterns/README.md:43` says "Miss ⇒ unsupported fragment ⇒ fail-closed relevant coverage
   at compile time", and :44 names as irrelevant "keywords, Enchant/Equip lines, cast-restriction riders".
   `split_oracle_abilities` joins a line that starts no ability to the clause before it, and some
   clauses are matched at their beginning only: "Companion …", "At the beginning of each end step …",
   "Until end of turn, it gains …", "Until end of turn, you don't lose this mana …", and "Enchant …" before
   plain letters. What was joined to one of them is lost, the card is `COMPLETE`, and a pair with it is
   reported as a loop (`MCSearchJoined`). The pools of `MCSearch` have a joined line only behind
   clauses that are matched to their end, and there `HitsUnderstood` holds. More clauses with a gap in their
   pattern (`patterns/__init__.py:5391-5668`) are not modelled.

Met without a run of its own:

- `rules/README.md:102` says `any_color` "may pay W/U/B/R/G (or generic)"; `pay_mana` lets it pay `{C}`
  too. `PaymentComplete` counts such a payment neither as right nor as wrong: its choices of colours are
  W, U, B, R and G, and of a success with `{C}` missing it says nothing. `FailureNamed` and `PaymentExact`
  speak of what a payment reports and takes, and include it.
- `eval/workbench.py` exports all rows after each save, but collects them before it opens the file. Two
  tabs that save at the same time can leave a verdict out of the file, or mix the two texts, until the next
  save that no other disturbs; `FileKeepsUp` is stated with that limit. The docs ask for one workbench
  process; it can have two tabs.
- `eval/README.md:89` says "When re-reviewing extras, update adjudications with the new human
  judgment". The absent file is imported, verdicts included, on every run of the page, and a
  changed verdict is exported to the other file; the next run puts the old one back. So
  `GoldVerdictStands` speaks of gold candidates.
- `eval/adjudications/README.md:42` says that absences are **not** stored in
  `gold_pool_extras.jsonl`, but the workbench's export names no corpus and writes them there.
- `search/README.md` lists `seed_grant_undying` among what the explorer seeds; it never emits it
  (the executor takes it, and `MCPlay` runs it).
- Mana that the board of a pair starts with, for a grant of lifelink or a first activation, is
  neither permanent nor step and is disclosed as neither; `SeedsDisclosed` is about those two.

## 7. How the project grew, and what could follow

In this order: mana; IR, state, effects and steps of the executor; play; recurrence; verifier and
judgement; store and workbench; candidate index; boards, seeds and steps of the search; search and
discovery; compiler. What could follow:

1. More of the patterns and cards that need the boards of the search no run reaches yet.
2. Theorems: that deaths one by one are the state-based actions (`SBAOneByOne`);
   `OncePerTurnNotInLoop`, from a lemma that no step removes a mark; the fingerprints of `Search`, under a
   condition on cards that makes `IsDiscovery` true in general.
3. A corpus for the verifier whose laps trade one pending trigger for another
   (`verify/mandatory_recurrence.py:65`).
