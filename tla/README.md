# TLA+ for vgi-mask

A formal model of vgi-mask: what the worker computes, how it starts, how it
answers batches, what it publishes about itself, what becomes of the columns its
clients mask and unmask, how its tests are run, and proofs about these. Paths are
relative to the repository root.

## The system

| component | state | operations | interacts with |
|---|---|---|---|
| masking engine, `crates/mask-worker/src/mask.rs` | none, pure | `fpe_encrypt`, `fpe_decrypt`, `token`, `redact`, the two `parse` | called by the scalar functions; calls FF1 (`fpe` crate) and HMAC |
| scalar functions and Arrow boundary, `scalar/*.rs`, `arrow_io.rs` | the locals of one `process()` call: row index, `StringBuilder` | `on_bind`, `process` of `mask_fpe`, `mask_unfpe`, `mask_token`, `mask_redact`; `text_str` | called by the `vgi` runtime once for each batch, for several connections at once |
| client columns, `test/sql/*.test`, `tests/roundtrip.rs` | stored columns | statements that mask, unmask, redact | send batches, store the answers |
| worker assembly, `lib.rs`, `main.rs` | one environment variable | `catalog_name`, `build_worker` | called by both entry points |
| browser build, `crates/mask-wasm`, `wasm/` | ring slots, thread pool | `wasm_init`, the serve threads | `build_worker` on each serve thread |
| catalog metadata, `meta.rs`, `lib.rs` | none | JSON encoding of tags | read by the linter |
| integration harness, `ci/run-integration.sh` | `SERVER_PID`, log, socket, stage | start, poll, warm, run, guard, cleanup | a worker process that may die, a test runner that may skip |
| container image, `docker-entrypoint.sh` | none | dispatch by the first argument | starts the worker |

What is hard here, and what makes each part correct:

* **Engine.** Two length conditions, in two places, have to agree for FF1 never to
  refuse (`fpe_over_alphabet`, `fpe_card`). Masking and unmasking take one of two
  branches, found anew in the masked value (16 digits? a last `@` with something
  after it?), and must find the same one. The check digit is recomputed, not
  inverted. Correct means: never an internal error, the shape kept, nothing outside
  the profile's reach touched, the original back.
* **Scalar functions.** Reading, the NULL rule and validation come in an order, an
  error in row *k* abandons *k-1* rows already built, and one cell is appended for
  each row on every branch. Correct means: the answer is the one the batch determines,
  whatever the other connections do, and there is one.
* **Client columns.** Calls are layered in any order over one column, by concurrent
  statements over several. Correct means: layers come off again, masked columns
  join as the originals do, redaction cannot be reverted.
* **Startup.** `catalog_name` tests, sets and reads an environment variable in three
  steps that serve threads of the browser build interleave; the storage backend is
  chosen by another variable, before any of them; a slot's thread comes from a pool of
  fixed size. Correct means: one name for all workers, the one the user gave; the
  backend chosen in time; every opened slot served.
* **Catalog metadata.** Examples, expected outputs, prompts and graders are kept by
  hand in five files, JSON is written by hand, and the positions of arguments are
  given in one function and read in another. Correct means: what is published can be
  read back, every published call runs and returns what is printed beside it, and an
  argument laid out by its published name plays that part.
* **Harness.** The script polls the log of a worker that may not have created it, may
  announce and bind in any order, may die at any time or never announce; the runner
  skips what it cannot connect to and reports success. Correct means: green only if
  every test ran and passed against this run's worker, nothing left behind, an end on
  every path, and red only if something was wrong.

`PROJECT.json` lists every hazard at its line, with the properties that watch it.

## Modules

| module | models | notes |
|---|---|---|
| `Outcomes` | `Result` and `MaskError` | operators |
| `MaskEngine` | `mask.rs` | operators; same names as the functions |
| `ScalarFunctions` | `text_str`, and one row of each function | operators |
| `MaskWorker` | `process()` row by row, on several connections | the detailed specification |
| `MaskBatch` | what a request is promised, given what each row is | the abstract specification; `MaskWorker` implements it |
| `TestOracles` | the card checksum of `tests/roundtrip.rs` | operators |
| `MaskColumns` | stored columns under statements; extends `MaskWorker` | the client side |
| `MaskCatalog` | argument specifications, published examples, agent tasks and graders, run by clients; extends `MaskWorker` | linters and agents |
| `MetaJson` | the JSON encoders of `meta.rs`, and a reader | no other module |
| `WorkerStartup` | `main`, `catalog_name`, `build_worker`, `wasm_init`, ring slots and the thread pool | no other module |
| `CiHarness` | `ci/run-integration.sh`, its worker, the test runner, a signal | no other module |
| `SmallEngine` | stand-ins for FF1 and HMAC, the code's alphabets and a small one | for TLC only |
| `MCMaskColumns`, `MCMaskWorker`, `MCMaskCatalog`, `MCMetaJson` | instances | for TLC only |
| `MaskEngine_proofs`, `MaskWorker_proofs`, `MaskBatch_proofs`, `MaskColumns_proofs`, `MaskCatalog_proofs`, `MetaJson_proofs`, `WorkerStartup_proofs`, `CiHarness_proofs` | theorems | for TLAPS |

### MaskEngine

A value is a sequence of characters and a character is opaque. The alphabets, 10^6,
the 16 digits of a card and the 4 characters of a redaction hint are CONSTANTS
(`DIGITS`, `ALNUM`, `MIN_DOMAIN`, `PAN_LEN`, `KEEP`), so that one text serves the
code's own numbers and instances small enough to enumerate every value; the named
assumptions say what the code fixes about them. FF1 and HMAC-SHA-256 are constant
operators of the key; the derivation of their keys is inside them. `ff1_apply`
refuses a domain that is too small, as the crate does, independently of the length
check in `fpe_over_alphabet`; that the first is implied by the second is a theorem.
A `Result` is a record, `Ok(v)` or `Err(kind)`.

A character takes 1 to 4 bytes (`Bytes`). `fpe_card` finds its digits by byte offset
and maps each offset back to a character by counting the characters before it;
`ByteOffset`, `CharIndex` and `SpliceBytes` do the same, where the other profiles
splice by character (`Splice`). That the two agree is a theorem.

A format or mode name is a record of a word and a spelling, its case and the blanks
around it; `Normalised` is `trim().to_ascii_lowercase()`. `LuhnSum` counts the sum of the
weights in unary, as the cardinality of a set, because a recursive sum is out of the
reach of the prover.

### MaskWorker

| variable | code |
|---|---|
| `request[c]` | the batch a connection carries, `params` and `batch` |
| `row[c]` | the loop variable `i` |
| `out[c]` | the `StringBuilder` |
| `reply[c]` | what `process()` returned, until the client takes it |

`Submit` and `Collect` are the client's. A row is one step, by its branch: an operand
that is not text (`UnreadableRow`), a NULL operand (`NullRow`), an answer
(`ValueRow`), an error (`ErrorRow`); `Finish` returns the column. The steps of
different connections interleave; rows are the grain because a row touches nothing
but locals. The four `process()` functions have the same loop, and `Apply` is what
differs. A column has one cell for each row of its batch: DuckDB and the runtime see
to that, before this code is called. `RowPromise` says, with no loop and no builder, what
a row of a request is promised (an operand that is not text is an error, else a NULL
operand gives NULL, else the function decides), and is what `MaskBatch` gets. `Finish` checks the column against the type
`on_bind` announced, as `RecordBatch::try_new` does.

### MaskColumns

Each table has a column and runs one statement at a time (`Crypt`, `Redact`: an
UPDATE of the column by a call), on its own connection (`Tables` are the
connections); `Work` is a step of the worker, `Commit` stores the column of the reply.
`layers` records the calls not yet undone and the cells each was applied to; a call
that undoes the top layer takes it off. A redaction is a layer that nothing takes off.
`lost` records the rows in which the card profile met a 16-digit number whose check
digit was wrong, for the code overwrites that digit. A call that undoes the layer below
it loses nothing: its input must be what the code itself wrote. So `Onion` speaks of
every layer, redactions too (a level is the one below it under the call between them),
and `RedactionHides` of a redaction at any level, whatever is called over it.
`Reach` says where a profile may change a value: for email only before the last `@`, or
anywhere in a value that has no domain. A domain which is encrypted and decrypted with the
rest leaves every other property of the columns true; `ChangedOnlyInReach` is the one that
forbids it.
`is_luhn_valid` is the test suite's own computation (`tests/roundtrip.rs`), over all
digits, and independent of `luhn_check_digit`.

### MaskCatalog

A statement is a sequence of nested calls, each over the result of the one before. The
linter runs what is published (`vgi.example_queries`, `vgi.executable_examples`, the
functions' examples, the modes of the `mask_redact` document) and the graders of
`vgi-agent-tests.yaml`; the agent does the tasks of `AGENT_TEST_TASKS` and any call it
can make of the argument names and choices. An agent knows a call by what each
argument means; `argument_specs` lays it out by position, and the worker reads
positions. Statements written in SQL carry the output printed beside them. A client has
a connection of its own and the name of it, so the worker's `TypeOK` is part of
`CatalogTypeOK`. The literals are a constant operator, `Text`, that the instance for TLC
spells out; `CatalogAssumption` says that they are values and that no key is empty, and
`LiteralsAssumption` what else the properties need of them (the card has 16 digits, the
address its `@` in the sixth place, and each published redaction is its literal with
certain places starred). TLC evaluates both on the real texts.

The graders are those of the yaml file. Two comments in `lib.rs` (51-54 and 191-195) say
of the token and card tasks that they are asserted as booleans; the yaml returns the
strings, and its own header says so. The model follows the yaml.

### MetaJson

`json_escape`, `keywords_json` and `example_queries_json` as operators on code points; the
reader takes one character per step and knows the lexical rules of JSON, independently
of the writer. It stops at a raw control character and at an escape JSON lacks.

### WorkerStartup

| variable | code |
|---|---|
| `given`, `env` | the environment at the start of the process, and now |
| `inited` | `wasm_init` has run |
| `pc[s]` | the serve thread of slot `s`: waiting for a pool thread, or at a line of `catalog_name` / `build_worker` |
| `catalog[s]` | the name of its worker |

A native process has one worker, on its main thread. `Restart` may happen at any
moment: nothing is kept but the environment the process is given. An override that is
not Unicode is read as `mask`, as `var(...).unwrap_or_else` does; that the override is
then ignored is in `NameIn`, and so in what `OneCatalogName` says. That `wasm_init` runs
before the host opens a slot is the guard `inited` of `OpenSlot`: it stands for the code
that the SDK's macro `vgi::wasm_worker!` generates, which is not in the repository.
`StorageSelected` assumes this order and does not show it; it shows that the hook sets
the variable on every start of the module and keeps what the user set.

### CiHarness

`pc` is the script's next step, `serverPid` whether `SERVER_PID` is set, `location` the
endpoint it exported, `results` the report, `rc` the exit status. `worker`, `log` and
`socket` belong to the worker process, which the shell forks (`Launch`), which empties
the log (`Exec`), announces itself, binds, may crash at any time and ends when killed.
A write of the announcement is one step; a half-written port is left out. `trouble`
remembers that something outside the script went wrong (a binary that cannot be
executed, a crash, a timeout, a failed download or copy, a signal, a failing test), so
that a red job can be told from a false alarm. Over subprocess DuckDB spawns a worker for
each test; one that does not start or dies is `TestCut`.

Left out: a second signal, during the cleanup. Two limits, both behaviours of the
script:

* A signal between lines 71 and 72 (or 89 and 90) leaves the worker running, for
  `SERVER_PID` is not set yet. `NothingLeft` speaks of a worker whose pid is known.
* If `STAGE` is given and used again, the log of an earlier run is there until the new
  worker's shell empties it, and over http a first poll that comes before takes its
  port for the new one. `ReusedStage` names the transports for which such a log may be
  there; `GateHolds` is checked with it for unix (whose gate also wants the socket that
  the script has just removed), and for http in a fresh stage, which is the default.

Every operator that is commented as "mutated" is a plausible bug that is used
nowhere in a specification. Put in the place of the definition it follows from, it
must break the property `PROJECT.json` names with it.

## Runs

Every run finishes in two minutes or less with two workers; most take seconds.

| run | question | bounds |
|---|---|---|
| `ColumnsSmall` | does every layer come off, and touch only what it reaches? (`ColumnsTypeOK`, `Onion`, `ShapeKept`, `ChangedOnlyInReach`, `CardAnswersLuhn`) | every value of at most 4 of `0 1 a @`, every separated 4-digit card, NULL; 4 profiles, both directions, 2 layers; FF1 from 3 digits or 2 of digits and letters |
| `ColumnsReal` | do the code's own numbers work? (`NeverRefused`, `Unwound`, `CardAnswersLuhn`) | 13 values around the FF1 minimum and the branches; names in other spellings; 2 layers |
| `Joins` | do masked columns join as the originals? (`Joinable`) | 2 tables, 8 columns chosen to collide, card and email, 2 layers |
| `Redaction` | does redaction stay, over and under other layers? (`Onion`, `ShapeKept`, `RedactionHides`, `StarsStay`) | 2 tables, 8 columns, every mode and unmasking, 2 layers |
| `WorkerLoop` | is the answer the one the batch determines? (`TypeOK`, `OneCellPerRow`, `ImplementsBatch`, `Answered`) | 2 connections, every batch of up to 2 rows of every kind (3 for columns that are not text), all functions |
| `WorkerEngine` | can FF1 refuse? (`NoFpeError`) | the values of `ColumnsSmall`, one row, every profile and direction |
| `CardRecovery` | is a card number always recovered, as documented? (`ExactRecovery`) | one 16-digit number; TLC finds it violated |
| `Startup` | one name, the user's choices, every slot served? (`TypeOK`, `OneCatalogName`, `NameStays`, `StorageSelected`, `SlotServed`) | the host's 4 slots, both builds, every environment, restarts at any time |
| `Harness` | is green earned, red deserved, and does the script end clean? (`TypeOK`, `GreenMeansTested`, `GateHolds`, `NothingLeft`, `HealthyIsGreen`, `Ends`) | all transports, 2 tests, 3 polls, 3 warm attempts, any crash, one signal, an old socket and log |
| `HttpStartup` | is a red job over http deserved? (`HttpHealthyIsGreen`) | as `Harness`, over http in a fresh stage; TLC finds it violated |
| `Catalog` | does what is published run and return what it says? (`CatalogTypeOK`, `NothingRefused`, `NamesMeanWhatTheySay`, `AsPublished`, `GradersAgree`) | every published statement, the code's own alphabets and numbers, one linter beside one agent |
| `Json` | can what is published be read back? (`TypeOK`, `ReadSoFar`, `PublishedIsRead`) | every list of up to 2 texts of up to 2 of 12 characters (pairs: 1) |

*Why these bounds are enough.* With FF1 taking 3 digits or 2 of digits and letters,
four characters hold every case the engine tells apart: below, at and above either
minimum, a card and its neighbours, a local part of every length, no, one and
several `@`, an `@` at either end. Two layers are the shortest stack in which one
layer can spoil what another has to undo (digits under card). Two tables are enough
for `Joinable` and `RedactionHides`, which compare two cells. Two connections are
enough for the loop, as no connection looks at a third. A batch of two rows has a
row before and a row after each kind of row; the loop has no other memory. `MaxLayers`
bounds the layers; `FollowLost = FALSE` stops a behaviour at a lost row, whose cells
may go through all values the FF1 stand-in can make (exhausted in `ColumnsSmall`,
cut in `ColumnsReal` and `Joins`). Four slots are what the host has and the pool holds,
so the pool is full when all are open. Three polls are a first, a middle and a last
one; two tests let a worker die between them. `json_escape` looks at one character at a
time and the encoders at whether an element is the first, so texts of two characters in
lists of two hold every neighbourhood. A linter beside an agent is every pair of
statements of which one is published and one is laid out by name, which is what
`GradersAgree` compares.

*The stand-in for FF1.* `ToyFf1` is one Feistel round: a permutation for each key,
length and direction (TLC checks it on each run, `ToyFf1Inverts`) that depends on
every numeral. What TLC finds about values under it holds for a permutation, not for
the cipher; the theorems have no such limit.

*Symmetry.* `Joins` and `Redaction` are symmetric in the two tables, which differ in
nothing else; no liveness is checked there.

*Deadlock* is checked where a system never stops; `ColumnsReal`, `Joins` and
`Redaction` switch it off as clients stop at a bound or after a redaction, `Json`
because a reader stops at the end of its document. `CiHarness` has an explicit step for
a script that has ended, so that any other stop is a deadlock.

*Fairness*, always weak. In `MaskWorker`, `Process`: it runs on a thread of its own,
waits for nothing and holds no lock. Clients are not fair: a request need not come,
nor a reply be taken. In `WorkerStartup`, the thread of each slot: a thread that has
what it needs is scheduled; nobody has to open or close a slot. In `CiHarness`, the
script, which is one process that waits only for its children and its sleeps, and the
end of a worker that was killed, which is taken to have no handler for the signal; the worker
need not start, announce or bind. The children return: above all the test runner, even
when the worker it talks to hangs (`RunTest` is a step of the fair `Script`). `Ends` rests
on both; what it shows is that the script's own loops end and that its last wait is for a
worker it has killed. In `MetaJson`, the reader.

*Findings.* 1. `fpe_card` discards the 16th digit and recomputes it in both directions.
For a number that is not Luhn-valid, unmasking answers another number and no error,
where `mask.rs`, `scalar/fpe.rs` and the README promise the original exactly.
`CardRecovery` shows it; everywhere else such a row counts as lost, which is how far
`Onion`, `Unwound` and `Joinable` hold. `ColumnsSmall` also reaches the layered case:
a valid card masked by `digits` and then by `card` is lost.

2. The poll of `ci/run-integration.sh` over http fails where it should wait. The log is
created by the background shell of line 71; if the first pass gets to line 78 before
that, `sed` fails on the missing file, `pipefail` hands its status to the assignment and
`set -e` ends the script with it. `HttpStartup` shows a run in which nothing is wrong and
the job is red; `HealthyIsGreen` holds for the other transports, whose poll is a
condition.

## Proofs

All theorems assume the contract of FF1, `Ff1Contract`: numerals of one length and radix
map to numerals of that length and radix, and the two directions undo each other.
Those about the worker also assume that a token is text (`HmacContract`). Both are
hypotheses of the theorems, for a constant operator has no other definition. They
hold for all alphabets and numbers that meet the assumptions in `MaskEngine`, and for
all sets of connections and requests.

* **The engine** (`MaskEngine_proofs`). Slots number the positions of a set without
  gaps (`SlotIncreases`, `SlotOnto`, `AtSlotOfSlot`), so the numerals of a spliced
  value are the ones spliced in (`NumeralsOfSplice`) and splicing the old ones back
  gives the old value (`SpliceBack`). From that, `FpeKeepsShape` and `FpeRoundTrip`.
  `EmailKeepsDomain` and `EmailRoundTrip` add that the last `@` is where it was;
  `CardKeepsShape` and `CardRoundTrip` that the check digit is a function of the
  others, so that a number which ends in its own gets it back. `SpliceBytesIsSplice`
  carries the lemmas about `Splice` over to the byte offsets of cards: offsets grow
  with the position whatever each character takes (`OffsetsIncrease`), so the characters
  before an offset are those at smaller positions (`IndexOfOffset`). `ProfilesKeepShape`
  and `ProfilesRoundTrip` put the profiles together, as `fpe_dispatch` does;
  `RedactKeepsLength` is the same for the modes. `CheckDigitIsValid` relates two
  computations the repository has twice: the checksum of `tests/roundtrip.rs` over all
  digits accepts a number exactly when its last digit is `luhn_check_digit` of the
  others. Both sums are cardinalities of sets of units, and the proof maps one set onto
  the other, digit by digit.
* **The worker** (`MaskWorker_proofs`). `TypeCorrect`, `AnswersAligned` and
  `FpeErrorNeverHappens`, with the inductive invariant
  `IInv == TypeOK /\ OneCellPerRow /\ NoFpeError`. `TypeOK` is needed for the others:
  that the value operand of the row is a value comes from the type of the request,
  and a computed row is an answer other than `Fpe` because no profile fails on a
  value (`DispatchType`, from the engine's theorems). In `OneCellPerRow` the claim about
  the returned column needs the ones about the builder and the row, and that both
  start each call empty.

* **The batch** (`MaskBatch_proofs`). `WorkerImplementsBatch`: `MaskWorker` implements
  `MaskBatch`, with `request` and `reply` mapped to themselves; rows are stutters, and the
  last one, `Finish`, or the row that fails is the abstract `Process`. The invariant is
  `PrefixPromised`, every row done was promised an answer and the builder holds just
  that one, on top of `IInv`, which gives the builder its length. So an error is that of
  the first failing row (`FirstFailure`), and a column that is finished is the promised
  one (`WholeColumn`). `BatchInv` also says of a reply that waits that it is the promised
  one (`ReplyPromised`); the clients below rest on it and on nothing else of the worker.
* **The columns** (`MaskColumns_proofs`). Every property of `MaskColumns` that a run
  checks, for any set of tables, any columns and keys, any number of layers and any
  interleaving. `ColumnsInv` says of a request in progress that it is a statement over
  the column as it is, so that the reply that waits is the column `Commit` should store
  (`NeverRefused`, `ColumnsTypeOK`). `Onion` is not inductive: that a call takes a layer
  off needs that the layer kept the check digit when it was put on, in this row, and
  `lost` forgets when a digit was overwritten; so `OnionInv` adds `DigitsKept`, that no
  layer over a row that is not lost overwrote one. `Unwound`, `ChangedOnlyInReach`,
  `Joinable` and `RedactionHides` then follow from `OnionInv` in each state, by going
  through the levels of a column from the original up or from the top down
  (`LevelByLevel`, an induction over a set of numbers that rests on `<` being well-founded);
  for `ChangedOnlyInReach` one also needs that a profile reaches the same places of a value
  and of what other layers made of it (`ReachOfShape`), for every `@` stays where it is;
  that each layer is one-to-one gives `Joinable`, that each keeps stars and what two cells
  have in common `RedactionHides`. `ShapeKept` speaks of lost rows too, so it is proved
  as an invariant of its own, with `OnionInv`. `StarsStay` and `CardAnswersLuhn` are
  properties of a step: of `Commit`, from what a layer does to a cell.
* **The catalog** (`MaskCatalog_proofs`). Every property of `MaskCatalog`, for any set of
  linters and agents and any values that agents pass. `CatalogInv` says of each client
  that its statement is `Sound`, that the request in progress is the statement's next
  call over the last result, and that the last result is what the calls done so far
  answer (`After`), a function of the statement alone. `Sound` is shown of every
  statement there is: each of its calls is one the worker does not refuse
  (`PublishedNames`: every announced choice parses, and every key is one), it answers
  what is published beside it (`PublishedRedactions` from what each mode keeps, the round
  trip from `ProfilesRoundTrip`), one laid out by names means what they say
  (`LaidOutCalls`), and an agent's task answers what its grader's statement does
  (`AlikeAnswers`: they differ in the operand that the result of the inner call replaces).
* **The JSON tags** (`MetaJson_proofs`). `ReadIsPublished` and `JsonTypes`, for every list
  of texts: control characters, quotes and backslashes included, no text ends its string
  early or becomes another. `TheEndIsTheEnd` and `EveryCharacterHasARule` add that the
  reader is never without a rule and ends up with all of it, which is what
  `PublishedIsRead` needs besides fairness. The document is not taken apart by its
  positions. Instead `Encodes` says of any characters that they lead a reader from every
  place where certain tokens are due to the place after them; it holds of each blank, mark
  and string, of what is concatenated from such parts (`EncodesConcat`) and flattened from
  a list of them (`EncodesFlatten`, by `FlattenSteps`, an unfolding of the function inside
  `FlattenSeq`), so of both documents. The invariant, `ReadingInv`, says that the reader is
  on such a path; as it has one step for each character (`StepUnique`), it stays on it.
* **The startup** (`WorkerStartup_proofs`). `StartupTypes`, `OneNameForAll`,
  `NameIsStable` and `StorageIsSelected`, for every set of slots and without a bound on
  the pool. `OneCatalogName` is not inductive: a thread that is about to read must
  find the name that was given or the default, so `NameKept` says that a given name is
  never replaced, that a thread sets the default only where none was given, and that
  the variable is set from then on. `StorageKept` says that no slot is open before
  `wasm_init`, which is the assumption about the SDK's macro named above, and that nothing
  else writes its variable.

* **The harness** (`CiHarness_proofs`). `HarnessTypes` and `NothingIsLeft` for every use
  of the script; `GateIsHeld`, `GreenIsEarned` and `OnlyTroubleIsRed` under `FreshHttp`,
  the hypothesis that no log of an earlier http worker is in the stage (the limit named
  above). The number of tests, polls and attempts is any, and the worker may die and
  the script be interrupted at any step. `GateHolds` is not inductive: that a found
  announcement is this run's needs `ProcessInv`, which says what log and socket there can
  be at each point of the worker's life, and `ScriptInv`, which says what the script has
  when it is where it is. `GreenMeansTested` needs `GateHolds`, because a test that meets
  the endpoint of an earlier run may pass whatever the worker's code does;
  `HealthyIsGreen` needs `HealthyInv`, that without trouble the worker is alive, vgi
  installed and no test failed.

Each inductive invariant was checked by TLC on the instances of the runs before it was
proved, except `ReadingInv`, which speaks of whole readings; of that one TLC checked the
consequences, `ReadSoFar` and `PublishedIsRead`.

Only model-checked:

* Liveness under fairness (`Answered`, `SlotServed`, `Ends`, `PublishedIsRead`), which is
  out of the prover's reach.
* That `Ff1Contract` and `HmacContract` hold: they are about code outside the repository.
  `ToyFf1Inverts` checks them of the stand-in.

## Not modelled

* What FF1, HMAC, SHA-256, the `vgi` runtime and its host, DuckDB and the test runner do
  inside: they are external, and modelled as this code uses them.
* The wording of metadata: titles, descriptions, documents, categories (`object_tags`
  puts them in a list and no more).
* `docker-entrypoint.sh`: one dispatch on the first argument, without state; a `shift`
  without arguments, which some shells end the script at, takes an image run with an
  explicitly empty command, as `CMD` supplies `http`.
* `preprocess-require.awk`, a text filter; in `CiHarness` it is `Stage`, which may fail.
* A `TEST_PATTERN` that matches no test: what the runner then reports is not in the
  repository, so the model takes it that the pattern selects the tests.
* Build and release workflows, the Dockerfile, compiler options.

## Plan

Done: every module of the table above and the theorems named there; every invariant and
action property of the runs is proved. Left:

* A refinement of `CiHarness`, from the job as its users see it (green, red, what is left
  behind) to the script.
