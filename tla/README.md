# A TLA+ development of survey-scribe

survey-scribe turns questionnaires (PDF, spreadsheets, XLSForm, text) into
typed survey metadata with the help of a language-model provider and publishes
the result as files. This directory holds models of the parts where the order
of steps matters, the TLC configurations that check them on small instances,
and theorems about them checked by TLAPS. Source paths below are relative to
`src/src/survey_scribe/` unless they start with `docs/` or `tests/`.

## 1. The system

| Component | State it keeps | Operations | Hard behaviour | What makes it correct |
| --- | --- | --- | --- | --- |
| Artifact publication (`serialization/artifacts.py`) | output root, `active.json`, generations, `transaction/`, lock files | `write_result` and the recovery inside it | process death and failing file operations between any two steps, recovery by a different caller | stable files and pointer can always be brought back together; a failed write is undone; success means published |
| Provider port (`providers/`) | attempt counters of a call, the shared semaphore, a lazily created SDK client | `generate`, `aclose` | retries of two kinds, cancellation, close during calls | attempts bounded, slots never leaked, a call ends in one of its declared ways |
| Extraction pipelines (`pipeline.py`) | outcome of metadata and of each block | `extract`, quality policy | concurrent blocks, cancellation, partial failure | status tells the truth about lost blocks; records are not lost or doubled by overlap |
| Client facade (`client.py`) | `_closed`, the limiter of a batch | `aconvert(_many)`, `aclose` | close racing conversions, one limit for sources and provider calls | results in input order, one failing source does not fail the others |
| Routing run (`routing/extraction.py`, `routing/pipeline.py`) | region outcomes, per-run cache, graph | three passes of concurrent provider calls | schema drift while siblings run, cached results, partial passes | status follows the failures, no region lost |
| Routing graph (`routing/reconcile.py`, `validate.py`, `review.py`, `algorithms.py`) | the graph and its append-only audit | reconcile, review, project | superseding decisions, cycles | audit only grows, one decision is in force per subject |
| PDF workers (`sources/docling.py`) | a child process and a one-slot queue | convert, preflight | deadline racing an answer, child death, cleanup escalation | no worker outlives the call, an answer is not invented |
| Other sources (`sources/`) | none between calls | parse | none of its own | format rules |
| Chunking (`sources/chunking.py`) | none | split, group, overlap | boundaries | every part in exactly one core, within the limit |
| Command line (`cli.py`) | reservation file, batch manifest | `batch`, `convert` | two batches, death with the reservation held | a manifest is not replaced without consent |
| Configuration, data models | none | validate, format | none | type rules |

How they interact: the command line and the client call the registry for a
`SourceDocument` (a PDF through a worker process), hand it to a pipeline, which
fans out provider calls under one `ConcurrencyLimiter`; routing adds its own
passes over the same port; the result is written by `write_result`. Between
processes only files are shared: the output root of the artifact transaction
and of the batch manifest.

The hazards this code is exposed to are listed, with their lines, in
`PROJECT.json`; the plan below follows that list.

## 2. Modules

### Artifact publication

**`ArtifactTransaction`** models `write_result` from taking the output-root
lock to giving it back.

- *Disk* (survives a death): `public` (content of every stable file and of
  `active.json`; a content is the generation it came from, `None`, or `Foreign`
  for a file the package did not write), `gens` (committed generation
  directories), `genStaging`, and the transaction directory: `txn`
  (`"none"`, `"staging"` for `.transaction.<id>.staging`, `"live"` for
  `transaction`), `journal`, `backup`.
- *Writer* (lost in a death): `pc`, `over`, `gen`, `todo`, `saved`. There is one
  set of registers because the flock on the output root is non-blocking and
  exclusive and the kernel frees it when the holder dies; `pc = "idle"` means the
  lock is free.
- *History*, read only by properties: `outcome`, `before`, `forced`, `abandoned`,
  and `late`, the stable files others created since the last passed collision check.

| Action | Code |
| --- | --- |
| `BeginWrite`, `Release`, `ExitFault` | `_survey_lock` 698-763 |
| `SkipRecovery`, `RefuseRecovery`, `StartRollForward`, `RollForwardFile`, `RollForwardPointer` | `_recover_transaction` 1024-1078, `_load_journal` 1081-1105 |
| `UnlinkBackup`, `UnlinkJournal`, `RemoveDirectory` | `_safe_remove_tree` 1489-1526, from recovery, publication and rollback |
| `CleanupStaging` | `_cleanup_staging` 1108-1122 |
| `Collide`, `PassCollisionCheck` | 468-480 |
| `StageGeneration`, `CommitGeneration`, `GenerationFault` | `_write_generation` 788-917 |
| `StageTransaction`, `CommitTransaction`, `StagingFault`, `CommitTransactionFault` | `_prepare_transaction` 920-968 and 502-520 |
| `ClearPointer`, `PublishFile`, `MarkProjected`, `PublishPointer`, `MarkPointed`, `Finish` | 521-549, 567-591 |
| `PublicationFault`, `RestoreFile`, `RestorePointer`, `MissingBackup`, `DiscardTransaction`, `NothingToDiscard`, `RollbackFault` | 550-566, `_rollback_transaction` 996-1021 |
| `Crash` | a hard exit, or an exception such as KeyboardInterrupt that `except Exception` does not catch |
| `OtherProgram` | not in the code: another program creates a stable file where there is none, between any two steps |

The plan a serializer chose is the constant `PlanOf[g]`, the set of stable files
generation `g` publishes; the model writes them in any order. The journal's
phase is not modelled because no code reads it. Alias claims, identity files,
path checks and digests appear as operations that may fail. The lock keeps other
writers of the package out, not other programs: these may create a stable file
at any moment. That they could also edit, replace or delete one is left out.

`CrashSpec` has process deaths and other programs only; `Spec` adds failing operations and the
rollbacks they cause; `FairSpec` adds weak fairness of the lock holder's own
steps.

**`AtomicPublication`** states what publishing promises with four variables and
no notion of directories, writers or recovery. **`ArtifactRefinement`** maps the
transaction to it: the open publication is the generation a live journal names,
and removing `journal.json` closes it. **`ArtifactTransactionProofs`** holds the
theorems, **`MCArtifactTransaction`** the small instances.


### Provider calls

**`ProviderCalls`** models concurrent awaits of `generate`
(`providers/openai_compatible.py`, inherited by the Azure and Anthropic
adapters) under one `ConcurrencyLimiter`. Each call has a `stage` (`queued` for a
slot, `sending`, `backoff`), the counters `transport_attempts` and
`validation_attempts`, and a `result`; the limiter has `free` slots of its
semaphore, `active` and `peak`. A step is what a call does between two awaits.

| Action | Code in `providers/openai_compatible.py` |
| --- | --- |
| `Refuse`, `FailSetup`, `Begin` | capability checks 162-163, SDK set-up 165-190 and 318-370, first attempt |
| `Send` | `limiter.slot()` and the request 202-222 |
| `Answer`, `Truncate` | a valid response 274-300; the cut ones 246-247, 298-299 |
| `Invalidate` | 248-256, 276-283 |
| `FailTransport` | 235-241, 257-259, `_classify_transport_error` |
| `Retry` | the end of `_retry_delay` and the loop's test 195-197 |
| `Interrupt` | cancellation and process control 223-234 |
| `Close` | `aclose` 303-313 |

The module is external in one point: `asyncio.Semaphore` gives a free slot to
any waiter, which allows its queue order and more.

### Routing run

**`RoutingRun`** extends `ProviderCalls`: a run's regions (forward chunks,
incoming chunks, review packets) are the calls. It adds the phase of the run,
the state of each region's task, the cache, and the sets the result is built
from: verified `evidence`, appended `decisions`, recorded `failures`, `graph`.

| Action | Code in `routing/extraction.py` |
| --- | --- |
| `RefuseRun`, `StartRun` | 238-262, 318-335 |
| `FailRegionEarly`, `RaiseCapability`, `CallProvider` | `_generate_cached` 728-775 |
| `ContinueRegion` (`Settle`, `Receive`) | 776-795, `_evidence_region` 649-668, `_review_region` 700-712 |
| `FallBackToNative`, `VerifyForward` | 339-375, 377-447 |
| `MergePasses`, `FinishReview` | 448-499, 500-537 |
| `RaiseOut`, `CancelRun`, `CancelOut`, `InterruptRegion` | the gathers at 335, 423, 484 as asyncio runs them, and 290-291 |

A gather is left with its first exception. After a capability error the other
tasks go on, uncancelled and unawaited; after a cancellation they have been
cancelled too, but a request that takes several loop passes to unwind is still
there when the run ends. The model has both.


### Conversions

**`ClientCalls`** (`client.py`): batches of sources under one limiter each.
`conversion` is a conversion's stage, `thread` its worker thread (which runs on
after a cancellation, and gives its slot back only at its end), `free` the slots
of the batch, `bad` the sources that fail, `closed`/`closer` the client and the
calls of `aclose`. Actions: `Admit`, `Refuse` (`_require_open`), `StartThread`,
`ThreadEnds`, `Converted`, the provider calls of the extraction, `CancelBatch`,
`Unwind`, `ReturnBatch`, `RaiseBatch`, and the steps of `aclose`.

**`PdfWorker`** (`sources/docling.py`): the preflight and the converter child,
one after the other. `child`, `pipe` and `message` are the worker, its queue and
what it put there, `received` what the caller has read, `expired` the deadline,
`verdict` and `outcome` how the wait and the call end. The queue's feeder thread
and the pipe are external: a large answer arrives in several writes. The caller
joins, terminates and kills, each for a bounded time, and may be interrupted at
any point of it.

**`ExtractionRun`** (`pipeline.py`): the SVIS pipeline (a gather for the
metadata, one for the variables), the single custom call, the chunks of a custom
pipeline with a reducer. `first`, `metadata` and `block` are what each call
gave, in the order of arrival where the code sees it; `raised` is an exception
that leaves the gather, cancels the siblings and waits for them. The result says
which chunks and source units failed, and the derived status.

**`QualityPolicy`** (`apply_quality_policy`): the records of all chunks in
source order, excluded, removed as overlap duplicates, or kept, then marked.

**`Chunking`** (`sources/chunking.py`, `_chunk_document`): splitting of blocks,
packing with an overlap tail, and the repacking when a serialized request is too
large: a part is halved and packing starts again.

**`BatchCommand`** (`cli.py`): processes that reserve the manifest
(`O_EXCL`), convert, write every result, publish the manifest and exit, and may
die between any two steps.

### Sources

**`SourceSnapshot`** (`sources/base.py`, `sources/registry.py`): a registry call
resolves its files and copies them chunk by chunk while a writer changes,
grows, shrinks or replaces them; the digest of a first call is the binding a
router's second call is compared with.

**`XlsForm`** (`sources/xlsform.py`): one action for each row of each pass, with
the stack of open containers, the open repeats, the names taken and the
containers that have a child; then companion files, containment, flow, and the
second pass that makes the survey's variables. Its properties speak of balanced
markers and of the nearest container around a row, never of a stack.
**`XlsExpression`**: the same file's reading of a `relevant` cell, as a text of
tokens, beside the meaning of the tree that was written. Literals hold keywords,
parentheses, quotes, blanks and backslashes; connectives are written with and
without blanks, operands with and without parentheses. The escape rule of the
code (`sources/xlsform.py:688`, `:723`) is in `Scan`; XPath has no escapes, and
that is what the expression means.

**`DocumentInventory`** (`routing/pipeline.py` `_document_semantics`): which
lines of a document without native routing are questions, and which variable
each asks for.

### The routing graph

**`RouterRun`** (`routing/pipeline.py` `aroute`): the survey is copied, the
source converted in a thread, the binding compared, the inventory prepared, the
graph made natively or by the provider, the result assembled; the caller may
change its survey, and anyone the file, at every await.

**`RoutingInventory`** (`routing/inventory.py`, `identity.py`, `native.py`, and
the second resolver in `models/routing.py`): items supplied in any order become
an inventory with stable identities and a hierarchy of nodes; references are
resolved in two places; the models' own checks are stated beside the builder's.

**`RegionPlan`** (`routing/extraction.py`): the stable chunks of the forward
pass, the nine reasons for which an item is verified, and what an incoming
request shows. `CutAtTheLimit` states the order in which the limit is used up.

**`RoutingEvidence`** (`routing/identity.py`, `extraction.py`, `native.py`):
quotes verified against rows, equal observations recorded once, native
priorities attached, whole batches rejected.

**`Reconciliation`** (`routing/reconcile.py`): claims, issues, edges,
candidates, discrepancies and conditions of applicability; an item has a section
(`Section`) and a group it is a member of (`Within`, the code's
`parent_node_id`). **`ReviewAudit`**
extends it with packets, decisions and their supersession
(`routing/review.py`, `append_review_decisions`).

**`RoutingValidation`** (`routing/validate.py`): containment, flow, loops,
unreachable nodes, dead ends and branch coverage, beside what
`QuestionnaireRoutingGraph` and `LoopDefinition` refuse. It uses reachability by
definition, the least closed set of **`Reachability`**; **`GraphTraversal`**
(`routing/algorithms.py`) is about how the explicit stacks compute it; the code's
filters for unknown nodes (`:17`, `:28`, `:42`) are replaced by
`TraversalAssumption`, that edges are between nodes.

### Instances

`MCArtifactTransaction`, `MCProviderCalls` and `MCRoutingRun` each extend one
module. `MCConversions`, `MCDocuments` and `MCRoutingGraph` each hold small
instances of several components that share no state: the variable `part` picks
the component of a behaviour in the initial state and never changes, and the
others rest. The composition adds no behaviour and takes none away; it lets one
run answer for all of them.

Components whose properties are theorems are extended, so that a run checks the
very definition the theorem names: their constants are in the cfg, they rest in
one of their own initial states, and their properties are checked of every
behaviour, with no condition on `part`. The others are instantiated, some of
them twice, a wide instance and a long one; their variables rest at the value
`Rest`, and their properties are checked under `part = "..." =>`.

## 3. Runs

### Artifact publication

| Run | Question | Bounds |
| --- | --- | --- |
| `artifact_crash` | Are stable files and pointer always repairable when processes die, also during repairs, and is the whole an atomic publication? | 3 generations of which one publishes two files, 3 deaths |
| `artifact_faults` | What do success, a clean rollback and an abandoned write guarantee when file operations fail? Does every write end, does recovery complete a publication? | as above, 2 failing operations, 1 death |
| `artifact_marker` (violation) | The comment at `serialization/artifacts.py:527-529` | 2 generations, 2 deaths |
| `artifact_wedge` (violation) | `docs/guides/results.md:168`, package's own plans | 2 generations, 1 death |
| `artifact_late_file` (violation) | `docs/migration.md:40`, for files that come after the collision check | 2 generations, no death, no failure |

Bounds of the artifact runs: three generations let a write overwrite one that
itself overwrote another; three deaths let a write, its recovery and the
recovery of that recovery be cut; two failing operations let an operation fail
and the rollback it causes fail too. One generation of three publishes a second
file, so plans of different shape meet. `WithinBounds` stops new publications
when the ids are used up but still admits writes that can only repair. Deadlock
checking is off: when ids are used up nobody has to start another write.

Fairness: the body of `write_result` is straight-line code behind a
non-blocking lock, so a started write that does not die keeps stepping. No
fairness is assumed of starting writes, of deaths or of failures.

Other programs need no bound: each file they create is there to stay until a
write replaces it. `ForeignFilesKept` and `RollbackRestores` are therefore stated
with the exception the code has, a file in `late`; `artifact_late_file` shows
what the exception costs.

What the three violations show:

1. *Marker.* `write_result` removes `active.json` before it touches a stable
   file, and says why. Recovery does not: a death after the journal is live and
   before the removal, then a death between the two writes of the recovery,
   leaves the new projection under the old marker. The next recovery repairs it.
2. *Wedge.* The finished transaction is unlinked entry by entry. A death after
   `journal.json` is gone and before the directory is, leaves a transaction
   without journal, which `_load_journal` refuses on this and every later write:
   the survey can no longer be written, although pointer and files agree.
3. *Late file.* The collision check looks once. A stable file that another program
   creates after it is replaced by the publication without `--overwrite`, or
   removed when the publication is rolled back; after a death the recovery does
   so, however much later.

### Provider calls and routing run

| Run | Question | Bounds |
| --- | --- | --- |
| `provider_slots` | Are slots conserved, is the budget shared, and do sleeping calls hold up others? | 3 calls, 2 slots, 3 attempts, two calls may never wake |
| `routing_run` | What do status, failures, graph and cache say about the regions, what is left behind, do runs and stray calls end? | 2 forward chunks, 1 incoming, 1 packet, 1 slot, 2 attempts |
| `routing_late_cache` (violation) | The assertion at `routing/extraction.py:198-200` | 2 forward chunks, 1 attempt |

Bounds of the call runs: three calls under two slots have one waiting; three
attempts allow a transport failure, an invalid answer and either again. Two
forward chunks are needed for one to fail while the other is in flight; the
later rounds need one region each because what they add to the first is the
round boundary. No run uses symmetry. A finite set of calls ends, so
deadlock checking is off.

Fairness of the call runs: a ready task of the event loop is run, a request is
answered or fails since the SDK bounds it by a timeout, a sleep ends (in
`provider_slots` not for the calls in `Sleepers`), and a cancelled task gets its
exception. Nothing is assumed of what the provider answers, of capability errors
or of the caller's cancellation.

What `routing_late_cache` shows: one region raises a capability error in its
first step while the request of the other is out. The run raises and closes its
cache; the other answer then goes to `cache.put`, which raises. The error ends a
task that nobody awaits. `EveryCallEnds` shows that at least such a call does
not stay for ever.

Observed while modelling, and stated as no property because the code promises
nothing: native evidence makes a partial graph when no forward region answers
(`routing/extraction.py` 339-366), but is dropped when every answer fails
verification (387).


### Conversions, documents, graph

| Run | Questions | Bounds |
| --- | --- | --- |
| `conversions` | Does every slot come back, is one ceiling kept, does a closed client stay closed, does every batch end (`ClientCalls`)? Does no worker outlive its call, does an answer win over death and deadline, is a document whole and its coverage true, does the call end (`PdfWorker`)? Is nothing lost, does the order of answers not show, does nothing but an unexpected exception leave calls running (`ExtractionRun`)? Does one batch work at a time, is the manifest whole and the exit status true (`BatchCommand`)? | 3 sources, 2 slots, 1 close; 3 pages of which 2 allowed, 2 interrupts; 2 chunks, 2 metadata answers, 1 unreadable unit; 2 processes of one input or 1 of two, 1 death |
| `documents` | Is a copy one state of its file, is a binding faithful (`SourceSnapshot`)? Is a form refused exactly when it does not nest, are containment, flow and the two passes right (`XlsForm`)? Does a projection mean its expression (`XlsExpression`)? Do the chunks hold the document (`Chunking`)? Does no question vanish, is no block counted twice that two chunks share, are twins marked (`QualityPolicy`)? Is a link single, earned and made when unique (`DocumentInventory`)? | files of 2 chunks, 4 writes to one file or 2 to three; all forms of up to 6 rows over the row kinds; expressions two connectives deep; documents of 3 blocks; 3 records of 2 chunks or 2 of 3; 3 lines, 2 variables |
| `xls_exact` (violation) | `docs/routing.md:168-170`, for every way of writing an expression | as `documents` |
| `graph` | Does the result belong to the call (`RouterRun`)? Do models and builder, resolver and audit agree (`RoutingInventory`)? Is every item asked once, every doubt verified (`RegionPlan`)? Do quotes stand, is every claim recorded once (`RoutingEvidence`)? Does nothing vanish, is nothing disputed accepted (`Reconciliation`), do source routes stay and decisions resolve only while in force (`ReviewAudit`)? Are errors, loops, cycles, reports and coverage consistent (`RoutingValidation`)? Do the traversals compute reachability and components, and end (`GraphTraversal`)? | 2 changes by others; 3 items; 6 items forward, 5 incoming, and 7 under limits 3 and 4; 2 batches of 2 observations; 3 observations, 3 decisions; 6 nodes, 4 of 14 edges, 3 branches; all graphs of 4 nodes with out-degree 2 |

The checked properties of these runs, one for each component or pair of
components of one source file, are conjunctions of the components' own, which
the modules state one by one:

| Checked | Of | Parts |
| --- | --- | --- |
| `ClientKeepsItsWord` | `ClientCalls` | `OneCeiling`, `ResultsIsolated`, `ClosedStaysClosed` |
| `PdfAnswerIsTrue` | `PdfWorker` | `NoWorkerLeft`, `AnswerWins`, `AnswerIsWhole`, `CoverageTold` |
| `ExtractionTellsAll` | `ExtractionRun` | `NothingLost`, `SuccessIsWhole`, `OrderDoesNotShow`, `OnlyErrorsLeaveCalls` |
| `BatchTellsAll` | `BatchCommand` | `OneBatchAtATime`, `ManifestIsWhole`, `ZeroMeansWritten` |
| `EverythingEnds` | the first three | `BatchesEnd`, `CallEnds`, `RunEnds` |
| `SnapshotIsTheSource` | `SourceSnapshot` | `CopiesAreOneState`, `CopiesAreBounded`, `BindingTellsTheFiles` |
| `FormIsTheSheet` | `XlsForm`, `XlsExpression` | `NestingIsChecked`, `ContainmentIsNesting`, `FlowIsDocumentOrder`, `PassesAgree`, `MissingChoicesAreDisclosed`, `ProjectionIsFaithful`, `ProjectableIsProjected` |
| `ChunksAreTheDocument` | `Chunking` | `NothingDropped`, `OverlapFits`, `RejectsOnlyTooLarge`, `EachPassIsFiner` |
| `QuestionsAreKept` | `QualityPolicy` | `NoQuestionVanishes`, `BlocksCountOnce`, `TwinsReviewed` |
| `LinksAreSound` | `DocumentInventory` | `LinksAreSingle`, `LinksAreEarned`, `UniqueNamesAreLinked`, `SectionsAreShared` |
| `InventoryIsAsked` | `RoutingInventory`, `RegionPlan` | `ModelsAccept`, `NodesDescribeTheirItems`, `AuditAgrees`, `SectionReferencesAreExact`, `AmbiguityIsReported`; `EachItemOnce`, `GroupsStayTogether`, `DoubtsAreVerified`, `CutAtTheLimit`, `OthersAreShown` |
| `ClaimsAreRecorded` | `RoutingEvidence` | `QuotesStand`, `EachClaimOnce` |
| `ReconciliationIsFair` | `Reconciliation` | `NothingVanishes`, `AcceptedIsUndisputed`, `ApplicabilityIsAgreed` |
| `ReviewIsInForce` | `ReviewAudit` | `SourceRoutesStay`, `ReviewedRoutesAreDecided`, `OneDefault`, `ResolutionIsCurrent` |
| `ReportsAreTrue` | `RoutingValidation` | `NoErrorMeansValid`, `LoopsCanBeMade`, `CyclesAreAccounted`, `ReportsAgree`, `CoverageIsProven` |
| `TraversalIsExact` | `GraphTraversal` | `LessWork`, `TraversalTypeOK`, `ReachedIsReachable`, `SourcesFinishLast`, `ComponentsAreMutual` |

What four of these parts say, and what they do not:

- `ProjectionIsFaithful` and `ProjectableIsProjected` hold `WithinReach`: blanks on
  both sides of every connective, and no literal that ends in a backslash where
  there is a connective. Outside it the code is wrong, which `xls_exact` shows.
- `OverlapFits` says that what a chunk repeats is how the text parts of the chunk
  before it end, in their order. A part may be a piece of a split block, against
  what the guide says (see below).
- `BlocksCountOnce` says that kept records of one question from different chunks cite
  no block both, and that a removed record has a kept one of its question citing a
  block its chunk repeats. It does not say that each place of a question counts:
  the code asks for the blocks of the earlier record only, and so removes a
  record of the chunk's own new block as well (see below).
- `CutAtTheLimit` says, target by target, that an item from where the target may be
  reached is left out only when the limit is full of what goes before it. The
  order is by target: the last items of the sections before the first target go
  before the three items before the second, and a late target may be shown
  nothing of what is before it.

`RouterRun` is checked by its own `ResultIsOfTheCall`, `NothingUnboundIsSent` and
`StatusIsAsDocumented`. The type invariants are parts of the first column's
properties where a module states one. Three conjunctions also hold a property of
steps (`ClosedStaysClosed`, `EachPassIsFiner`, `LessWork`), and so say of
every step what it does and what it leads to; in their initial states nothing
has been computed yet.

Why these bounds are enough for the case to happen: three sources under two
slots leave one waiting for a slot that a cancelled one must give back; a second
interrupt can fall into the cleanup of the first; a batch of two inputs can fail
at one and write the other. Six rows hold a container with two containers
inside and an item in each. Four writes let a file change twice during one copy
and return to its old size. Two halvings of a part happen within three blocks of
five letters. Seven items of two sections in any order, under a limit of three or
four, let the first target of a request use up what the second would be shown.
Three decisions let one supersede another and be superseded. Four nodes hold two
components with an edge between them and a self-edge. Deadlock checking is off in
all of them: a conversion ends.

Fairness in `conversions`, per component and only while it is the one that runs:
the event loop runs what is ready; a semaphore passes over no waiter for ever
(strong fairness of a conversion's steps, as `asyncio.Semaphore` is a queue);
bounded waits of the PDF caller end, the deadline passes, a feeder thread that
lives writes. Nothing is assumed of what a converter computes or a provider
answers. `CallEnds` excepts `Torn`, a worker that died in the middle of a large
answer (below). `LessWork` of `graph` needs no fairness: it is a measure that
every step of a traversal decreases.

### Disagreements met while modelling

The five violation runs above are the project's own counterexamples. The
following were found when the definitions were written or by properties that are
not kept as runs; they are recorded for the maintainers, and no property of the
project claims the opposite.

- `client.py:222`: `_closed` is set after the provider's cleanup was awaited, so
  a second `aclose` that begins meanwhile closes the provider again.
- `sources/docling.py:841`: once the first bytes of an answer are in the pipe,
  `output.get` reads the rest without a limit, and the parent holds the writing
  end open: a child that dies in the middle of a large answer hangs the call
  past its deadline.
- `pipeline.py:216` and `:671`: when the document cannot be chunked, or a single
  custom call fails, the failed source units are not in the result.
- `serialization/artifacts.py:1062`: the writer accepts plans without publication
  (`tests/unit/test_artifact_edge_cases.py:332`) or with several; recovery expects
  exactly one, and after a death refuses them for good. The same happens to a
  `JsonArtifactSerializer` whose suffix is `_svis.json`, whose kind recovery
  expects to be `legacy`.
- `pipeline.py:1033`: a record is removed as an overlap duplicate when an earlier
  one cites a block the chunk repeats, even if it stands in the
  chunk's new block; the diagnostic (`:1041`) calls what is removed an exact overlap duplicate.
- `sources/chunking.py:283`: an overlap may hold the last piece of a split block
  whose other pieces are not there; `docs/guides/sources.md:163` speaks of
  complete blocks.
- `cli.py:269`: with `--overwrite` two inputs of one survey identity write the
  same files, and the first record keeps the digest of a file that is gone.
  `cli.py:504`: a dead process's reservation is never reclaimed.
- `routing/reconcile.py:216`: an observation with an ambiguous target and an
  ambiguity note makes two discrepancies of one identifier; the audit's
  `ValidationError` is raised outside the `try`.
- `models/routing.py:1133`: a decision cannot replace a candidate whose target is
  unresolved, on its own evidence. `routing/review.py:187`: of two discrepancies
  of one candidate decided in one response, the first is left undecided.
  `routing/review.py:265`: more overlapping discrepancies than a packet takes
  raise past every handler.
- `routing/validate.py:261` reports nothing for a node with children that is
  neither a section nor a repeat group, which `models/routing.py:686` refuses. No
  inventory has one (`routing/inventory.py:249`), so `ValidationAssumption`
  excludes it; the first attempt to prove `NoErrorMeansValid` found the gap.
- `routing/validate.py:583`: branches on two different questions with different
  codes pass for disjoint.
- `sources/xlsform.py:996`: a companion named with a
  backslash is read and its choices are lost.
- `routing/identity.py:172`: a section called `root` shares identities with the
  items outside all sections without a report. `:242`: a name is first looked
  for in the section of the reference, under its normalized form. `:226`: an item
  whose text normalizes to nothing raises `IdentityError`, which the router does
  not catch.
- `routing/extraction.py:604`: an incoming request does not show the text of its
  own targets. `routing/native.py:295`: two transitions that differ only in
  their local identifiers become one record, and the priority of the second
  raises `KeyError`.

## 4. Proofs

A theorem whose component states its assumption on the constants as a definition
and not as an `ASSUME` has it as a hypothesis; the small instances satisfy all of
them. Where a run checks a conjunction, the theorem is of the whole conjunction.

`ArtifactTransactionProofs`, for every set of generations and files, every
assignment of plans and every bound, from the one assumption
`ConstantsAssumption` (absent and foreign contents are no generations,
`active.json` is no stable file, bounds are naturals).

- `TypeCorrect`: `Spec => []TypeOK`. One lemma per group of actions.
- `ReferencesCommitted`: `Spec => []OnlyCommittedReferences`, with failing
  operations. `ReferenceInv` adds where the generation about to be written comes
  from: the writer's own once it is committed, or the accepted journal.
- `AlwaysRepairable`: `CrashSpec => []Repairable`. `Repairable` is not
  inductive, since removing the journal is harmless only because pointer and
  files agree by then; `CrashInv` therefore follows directory, files and pointer
  through the steps (`DirectoryInv`, `FilesInv`, `PointerInv`).
- `Refinement`: `CrashSpec => PublishesAtomically`, every action matched with the
  abstract action it performs or with a stutter.
- `FaultInvariant`: `Spec => []FaultInv`, with failing operations, rollbacks and
  deaths together. Its parts: until it publishes a write has changed nothing, and
  it has leave for what it replaces (`ConsentInv`); while it publishes or undoes,
  public files are as they were or its own, and the copies left are of the state
  it found (`UndoInv`); the generations given up are none that a write could
  bring back (`AbandonedInv`); a live journal replaces foreign files only where
  its writer asked to, but for files created since its check (`ForeignInv`). From it `AbandonedHidden`, and three properties of steps:
  `SuccessPublished`, `RollbackComplete`, `ForeignKept`. The last holds across
  writers: a repair publishes a journal another writer left, so consent has to be
  remembered with the journal, not with the writer. Other programs may create a
  file before every step of these proofs; `ForeignKept` has the one exception
  stated in `ForeignFilesKept`, a file in `late`.

`RoutingRunProofs`, for every finite set of calls, every ceiling and every
budget from 1 (`CallsAssumption`):

- `CallInvariant`, from which `TypeCorrect`, `LimiterHolds` (`Spec => []SlotsConserved`) and
  `BudgetSpent` (`Spec => []GivesUpWhenSpent`). The invariant needs `AttemptsLeft`:
  an attempt that can still send has used fewer validation than transport
  attempts. The limiter is counted with three lemmas on how the cardinality of
  the requests in flight follows one call.

and for every split of the regions into rounds (`RegionsAssumption`):

- `RunImplementsCalls`: a run takes steps of `ProviderCalls` only, so the theorems
  above hold of its regions.
- `RunInvariant`, from which `RegionsAccounted`, `SuccessTold`, `StatusTold`,
  `CacheHeld`, `RunTypes` and `NothingLeft`. These properties speak of finished
  runs and are not inductive; `RunInv` says for each phase which rounds are
  settled (`RoundsOrdered`) and what was recorded of them (`Recorded`), and links
  a region's task to its call (`CallsLinked`). Region steps are reduced to one
  relation, `Moves`, and preserve the invariant by one lemma.

`ConversionProofs`, of the client, for any batches of finitely many sources, every ceiling from
1 and finitely many calls of `aclose` (`ClientAssumption`):

- `ClientInvariant`, from which `ClientKeptItsWord`. `SlotInv` counts the
  conversions that hold a slot, with three lemmas (one more, one less, as many).
  A thread outlives the cancelled conversion that gave its slot back, so the
  ceiling on what runs is an invariant of its own: `BusyInv`, which in a running
  batch follows from the slots and in a cancelled one because nothing is started
  any more. `TaskInv` relates a task to its batch and to its result, `CloseInv`
  counts the calls of `aclose` under way.

and of the PDF worker, for every page limit, answers of any size and any number of
interrupts (`PdfAssumption`: page counts are modelled at least up to the limit):

- `PdfAnswers`. `ChildInv` says what the worker's state tells of the pipe,
  `CallerInv` what has become of the worker wherever the caller stands and what a
  verdict has seen, `StageInv` that a worker answers what its stage asks for. `ConversionIsSound` and
  `CoverageIsTold` say of every conversion that its coverage spans its pages.

`ExtractionRunProofs`, for any number of chunks from 1, surveys and units
(`RunAssumption`: a survey is none of the marks a call ends with):

- `ExtractionInvariant`, from which `ExtractionTellsAllAlways`. A result is made
  in one step from all answers, so `RoundInv` says that a round which is over
  without an exception has every chunk's answer. That the order of arrival does
  not show needs the rank of a chunk among those that answered
  (`RankIsUnique`, `EachRankIsTaken`, `PartsInOrder`).

`BatchCommandProofs`, for any processes, inputs and surveys (`BatchAssumption`):

- `BatchInvariant`, from which `BatchTellsAllAlways`: who may be inside
  (`LockInv`), what a process's records say of its results at every position of
  the loop (`RecordInv`), what one that published or exited left behind
  (`PublishedInv`).

`DocumentProofs`:

- `SnapshotInvariant`, from which `SnapshotIsTheSourceAlways`, for any files and
  any number of writes (`SnapshotAssumption`). The heart is `StreamInv`: while
  the open file has the modification time it was opened with, what has been read
  is the beginning of one content the file has had; a write in between changes
  the time for good, since every write is later than all before it.
- `QuestionsAreKeptAlways`, with no assumption on the constants: the
  property is inductive with the types and the order (`PolicyInv`): what is kept
  only grows, in the order of the chunks (`KeptInOrder`), and a duplicate has its
  original in it. A block that two kept records of different chunks cite is one
  the later chunk repeats (`SharedIsRepeated`), so the later would have been removed.
- `LinksAreSoundAlways`, for sequences of lines and variables
  (`DocumentAssumption`): the candidates are different lines, and all that match (`CandidatesInv`); the
  items are made of all of them, in their order (`ItemsInv`). That a link is
  single, earned and made when a name is unique follows from what the operators
  return (`OneMember`, `MatchesNames`).

`RoutingGraphProofs`:

- `ResultIsOfTheCallAlways` and `NothingUnboundIsSentAlways`, for every set of
  surveys, units and regions and any number of changes by others
  (`RouterAssumption`), from `IInv`: from the preparation on the document is the
  bound one, what was sent is of that document, and an output holds the copy of
  the call. The properties themselves are not inductive: they speak of results,
  and the binding is compared long before. `StatusIsAsDocumentedAlways` has an
  invariant of its own, `StatusInv`: what failed to convert is kept until the
  result names it.
- `ReconciliationIsFairAlways` and `ReviewIsInForceAlways`, for every set of items
  and of well-formed observations and any sequence of decisions
  (`ReconciliationAssumption`), from `GraphInv`. The claims divide the
  observations, so an edge with evidence of a claim is that claim's (`Owned`), and
  an edge of the source survives what review adds (`SourceEdgeStays`). The
  decisions in force are about different candidates, and stay so when one
  supersedes another (`DecideGrows`, `FollowedGrows`, `Applied`). The order of
  claims and decisions rests on least and greatest numbers of finite sets
  (`LeastNatural`, `Greatest`).

`GraphAlgorithmProofs`, for every finite graph. Both components define what they
compute against `Closure` (`Reachability`), a recursive function that grows a set
as often as there are nodes. That it is the least closed set is proved once
(`ClosureIsLeast`) without an induction over the data: the first step at which
the set no longer grows exists, since a finite set cannot grow more often than it
has members, and the least of a set of numbers exists (`LeastNatural`).

- `ReportsAreTrueAlways` (`ValidationAssumption`), in all its five parts. A region
  is what lies below its repeat group, so two regions are one inside the other or
  apart (`RegionsNest`), and an edge inside several has one innermost
  (`OwnerIsFirst`). A strong component with a cycle is then a declared region's,
  or a loop of its own, or reported (`CycleIsSeen`, `OneLoopForEach`), and each
  loop has the shape `LoopDefinition` accepts (`LoopsHaveShape`). A node without a
  way to the end lies in a closed set without one (`NoExitIsClosed`).
- `TraversalInvariant` (`TraversalAssumption`), an inductive invariant with a part
  for each of the three loops, and from it `TraversalIsExactAlways`. In the first
  loop what was seen or is on the stack is reachable, and the neighbours of what
  was seen are seen or on the stack (`ReachInv`). In the second the stack is a
  path, a node is on it or finished, once, and each finished node reaches only
  nodes finished by then or shares its component with one that was not
  (`Settled`): that is what survives when the traversal leaves a component by the
  middle, and it gives the order the third loop needs (`SettledOrder`). In the
  third the nodes of the component being gathered reach each other and reach
  everything without a component that reaches them (`GatherInv`), so that a
  component is whole when the stack is empty (`BackwardClosed`). That the loops
  end is the measure `Work`, which every step decreases: nodes not seen and stack
  in the first and third, the visits, neighbours and ends still due in the second
  (`FewerLeft`).

`RoutingGraphProofs` also proves, of `RoutingEvidence`:

- `ClaimsAreRecordedAlways` (`EvidenceAssumption`: a paragraph is one row, and
  sources and answers have the types of `contracts.py`), for any document and any
  number of regions and observations. Two facts about data carry it, each proved
  by a least counterexample in place of an induction (`LeastNatural`). What a
  dictionary takes of a sequence (`FirstOf`) has one member for each key
  (`CollectedTakes`, `FirstOfFacts`), so records and spans are as many as there
  are claims and places. And flattening the rows of a table keeps the rows from one
  place to another together (`FlattenConcat`, `PartsAreTogether`) and member by
  member in step with the same rows numbered (`FlattenShape`), so a quote that
  was found in the rows its span names is found in the document, in those rows
  (`RowsOfVerified`, `VerifiedStands`). The inductive invariant (`EvidenceInv`)
  says that the records are verified and that records and spans are those of
  `ClaimsKept`, the facts and the answers that were taken.

Only model-checked:

- The liveness properties `WriteEnds`, `RecoveryRepairs`, `OthersEnd`,
  `EveryCallEnds` and `EverythingEnds`: reasoning about fairness is out of the
  prover's reach.
- `FormIsTheSheet`, `ChunksAreTheDocument` and `InventoryIsAsked`. What these say
  is what folds, filtered or sorted sequences and recursive functions compute
  from their data (the splitting and packing of a text, the numbering of items,
  the chunks of a plan), which only an induction over the data shows; the
  library's induction theorems take an operator as a parameter, and none of the
  provers can instantiate it. The argument by a least counterexample that
  `RoutingEvidence` yields to needs the recursion written as a function in the
  module itself: the provers cannot expand `SelectSeq` nor the folds over sets.
  `XlsExpression` moreover uses recursive operators, which no module with a
  theorem may reach.

## 5. Plan

Done: every component of the table in section 1 that keeps state, the
algorithms whose boundaries matter, and a proof of every safety property the
runs check that needs no induction over data. Left, in this order:

1. Parts of the three properties that are only model-checked and hold by an
   invariant of steps rather than by what a fold computes: the stack of open
   containers of `XlsForm` (its type and that an open repeat is on the stack).
   Others may yield to the argument of `ClosureIsLeast` and
   `ClaimsAreRecordedAlways`, a least counterexample in place of an induction.
2. `SurveyLock`: the two lock levels and the replaced lock file of
   `serialization/artifacts.py`, implementing the lock `ArtifactTransaction`
   assumes.
3. `ExtractionRun` over `ProviderCalls`, as `RoutingRun` is.

### Not modelled

- Prompts, texts of diagnostics, confidences and cost estimates: they decide
  nothing the properties are about, or are the provider's business.
- The tabular, text, image and OCR adapters and the contents of PDF pages: one
  pass over data, without state that survives a step; what they promise is
  compared in unit tests. Spreadsheet and archive limits are checks of sizes.
- The data models and configuration: their validators are modelled where a
  builder could break them (`RoutingInventory`, `RoutingValidation`,
  `ReviewAudit`), else they are type rules.
- Serialization formats (SVIS, JSON, spreadsheets), the evaluation scripts, the
  command line's option parsing and output.
- What conditions refer to: `RoutingValidation` leaves it out, so the models' refusal
  of a reference to anything but a question (`models/routing.py:702-718`) is not part
  of what `NoErrorMeansValid` calls valid.
- Digests are taken to be injective, clocks to have no granularity
  (`SourceSnapshot`), and file systems to make a rename atomic.
