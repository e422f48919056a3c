# Verification of the Ops Learning Lab

The Ops Learning Lab (`src/ops_learning_lab`) is a local program with which one
learner turns captured work conversations into reviewed Learning Packs, works
through lessons built from them, and has a Mastery State derived from the
evidence. This directory holds TLA+ models of it, the TLC runs that check them
on small instances, and proofs that TLAPS checks for all instances.

Paths below are relative to `src/` (so the code is in `src/ops_learning_lab`).

## The system

| Component | State | Operations | Meets |
|---|---|---|---|
| Learning home, intake (`storage.py`) | private inbox: one directory per intake, made by an atomic rename | `initialize`, `open`, `capture`, `read_manifest` | several processes capture the same content |
| Compiler, staging (`compiler.py`, `staging.py`, `domain.py`) | `staged/updates/*.json`, named by digest | `propose_pack_match`, `compile_update`, `stage`, `get`, `list` | reads intake, accepted packs |
| Codex import (`codex_import.py`) | none | capture, match, stage, open or resume a lesson | all of the above, and a read-only history |
| Promotion (`promotion.py`, `pack_repository.py`, `promotion_models.py`) | `packs/<id>/pack.json`, with claims and Promotion records; one lock | `review`, `preview`, `commit` | sessions of the shell and the command line |
| Bundles (`learning_bundle.py`, `bundle_repository.py`) | immutable snapshots, named by digest | `build`, `snapshot`, `save`, `require_current` | learning service, export |
| Learner Attempts (`attempts.py`, `learner_transitions.py`) | immutable checkpoints | transition rules | the store |
| Learner event store (`learner_state.py`, `_bound_directory.py`) | `private/learner-state/events/`, one file per event, hash-linked; an advisory lock | `open`, `save`, `complete`, `restart`, `history`, `close`; a reader without the lock | one server process, its threads, readers |
| Evaluation and projection (`learning.py`, `review_projection.py`) | none, derived from the history | `evaluate_attempt`, `derive_mastery`, `project_learning_state` | every view |
| Learning service (`learning_service.py`) | a review lock | `start`, `start_review`, `advance_map`, `predict`, `run_scenario`, `reset_scenario`, `prove`, `explain`, `restart_attempt`, `view` | store, bundles, packs, clock |
| Lesson and scenario (`lesson_content.py`, `activity.py`) | none; the renderer's result is stored in the checkpoint | `render_activity`, `render_scenario` | attempts, learning service, evaluation |
| Export (`export_approval.py`, `export_repository.py`, `exporting.py`, `publishable_home.py`) | approvals by bundle digest, committed artifacts | `export-approve`, `export` | bundles, packs |
| Product Shell, command line (`shell.py`, `cli.py`) | a secret for signed forms | routes and commands | all services, one thread per request |

### What is hard in it

* **Threads and processes.** The shell serves each request on its own thread.
  A request reads the history and the clock, builds the next checkpoint from
  what it read, and only then asks the store, which decides again under its own
  lock. Readers take no lock at all.
* **The stream is judged twice.** `save`, `complete` and `restart` decide what is
  appended; `_replay` decides, by guards written a second time, what can be read.
  Every call starts with a replay, so an event the first admits and the second
  rejects would end the program's use for good.
* **Retries.** A command whose answer was lost is sent again; it is recognised by
  a digest of its checkpoint. Promotions are retried the same way.
* **Crashes.** Every write is a temporary file and a link or rename, followed by a
  directory sync that the host may not support.
* **Several stores, no transaction.** A bundle, its approval and its artifact are files
  of three directories, written by three commands while the pack they come from is
  promoted further.
* **Time.** Reviews become due by the wall clock, checked by one reading and
  stamped by another; the store refuses any event older than its last.

What would make each component correct is listed with its properties below; the
hazards behind them, each at its line, are in `PROJECT.json`.

## The modules

| Module | Models | Correspondence |
|---|---|---|
| `Attempts` | `attempts.py`, `learner_transitions.py`, `evaluate_attempt` | A checkpoint record stands for its own digest. `ctx` is all that a transition may never change (pack, version, bundle, lesson, outcome, scenario). `prediction`, `evidence` and `explanation` are an answer or "none"; `actions` is the renderer's action history. `CheckpointTransition`, `CompletionTransition`, `RestartTransition` are the functions of those names. |
| `LearnerStore` | `EventAttemptStore` | One action per call that appends. `entries`, `order`, `lastAt` are the history the replay projects, extended by the replay's own guards (`ReplayAccepts`); `replayable` turns FALSE when the replay would raise. `May...` are the guards of the calls. |
| `CommandLog` | command ids | Wraps each operation with the look-up of its command id among those recorded. |
| `ReviewProjection` | `review_projection.py`, `derive_mastery` | Pure operators on the history and a clock reading; the loop over the reviews is the recursive function `ReviewScan`. |
| `LearningService` | `learning_service.py` under threads | A request is `Begin...` (read, stamp), for reviews `CheckReview` and `StampReview` under the review lock, then `Finish` (the store decides). `Tick`, `Promote` and `Crash` are the environment. |
| `AppendOnlyLog` | what the docs promise of the history | Abstract: a log, the commands callers were told of, and those confirmed synced. |
| `EventFiles` | `_append`, `_BoundDirectory.atomic_create`, `open`/`close`, `_read_event_snapshot` | File by file: prepare, link, sync, answer; kill, power loss, lock-free listing. An event is the chain of commands up to it, as its digest covers its predecessor's. |
| `AcceptedPacks` | what readers of packs rely on | Abstract: each pack is the list of updates promoted into it, and an update is used once over all packs. |
| `Promotion` | `promotion.py`, `pack_repository.py` | Sessions preview, confirm, are refused or answered. `Confirm` takes the lock and decides again, `Write` replaces `pack.json`, then the answer comes or is lost; `Decided` is `_apply`'s loop over a plan's decisions, with a claim's status, successor and contradiction. A pack's content stands for its digest. |
| `Publication` | `BundleRepository.save`, `export_approval.py`, `export_repository.py`, `exporting.py`, `publishable_home.py`, the commands `export-approve` and `export`, and the write of a pack | One action per step of a command (read, check, create or commit); promotions, kills and power losses in between. `stored` is what is visible in a directory, `synced` what is on disk, `made` the directories that exist. A bundle, its approval and its artifact are named by the content they are made of. |
| `Lesson` | `lesson_content.py`, `activity.py`, the handlers' forms, `evaluate_attempt` with its feedback | `Rendered` is `render_activity`: a counter, a dict filled backwards (`LastOfEach` of the reversed records) and sums; one action per handler with the real choices, cards and verdicts. `Abstract` grades them "right" or "wrong", as `Attempts` knows them. |
| `Intake` | `capture` (`storage.py`), `stage` (`staging.py`), the match and `compile_update` (`compiler.py`), `CodexImportService.run`, the `capture` command | One action per file-system step of a command: look for the intake, prepare a directory, rename it or lose the rename, look for the update, write it, answer; `End` is a failure or a kill anywhere. `inbox` holds the manifest of each intake directory, `staged` the update files; both are named by digests, so a key stands for an intake's name and an update for itself. A text stands for the packs it matches. |
| `LearnerStoreProofs`, `CommandLogProofs`, `LearningServiceProofs`, `EventFilesProofs`, `PromotionProofs`, `PublicationProofs`, `IntakeProofs`, `LessonProofs` | | The theorems about the modules they are named after. |

`LearningService` extends `ReviewProjection`, which extends `LearnerStore`, which
extends `Attempts`; `CommandLog` extends `LearnerStore` and `Lesson` extends `Attempts`.
`EventFiles` implements `AppendOnlyLog`, `Promotion` implements `AcceptedPacks`, and the
service's every step is a step of the store or leaves it alone. `Intake` stands by itself: what
it stages is what `Promotion` takes as its immutable `Updates` (`ArtifactsRemain` is
the reason it may), and `Publication` takes from `AcceptedPacks` that a pack is the list
of its promotions. Operators marked "Mutant" are the plausible bugs the properties
were tried against; no specification uses them.

The calls of `LearnerStore` are atomic there because each runs under the store's
lock, and because `EventFiles` shows that what is on disk is always one chain that
only grows. Each run at the level of calls thus rests on `event_files`.

## The runs

| Run | Question | Bounds |
|---|---|---|
| `store_reviews` | Is the stream always readable, reviews single and grounded, lineage and history permanent? | 3 attempts, 2 contexts, 2 days. Three attempts allow a demonstration, a review and its restart, or two competing reviews; the learner answers right, but a caller may record any evaluation. |
| `command_log` | Is a new step ever mistaken for an old one, and does a prediction stay? | 2 attempts, 1 context, 1 day, 1 caller-chosen id, histories up to run-reset-run. One day, as checkpoints must differ without help of the clock. |
| `service_reviews` | Do reviews keep their distance, and is a due review accepted? | 3 attempts, 2 threads, 2 ticks, review and retry delay 1. |
| `service_mastery` | Is Retained earned in due time, and nothing taken away below it? | 3 attempts, 1 thread, 2 ticks, both delays 1, right and wrong answers: a demonstration, a failed review and its retry. |
| `service_races` | Does every attempt keep its bundle, whatever the order of promotion, crash and requests, is work of one tab ever thrown away by a late request of another, and does every request end? | 2 attempts, 2 threads, 2 pack versions, all operations; delays 0, so that reviews are due at once and both threads can want the review lock. No symmetry. |
| `event_files` | Is the directory one chain, and the log implemented? | 2 processes, 2 threads, 1 reader, 3 commands: enough for two appends to overlap a listing and for a retry after a loss. |
| `promotion` | One use per update, no silent rebase, are claims and their links permanent, is what was confirmed there, and is `AcceptedPacks` implemented? | 3 updates, one of them with two proposals (a plan may retarget one claim twice) and one that fits both packs; 2 packs, 2 sessions. One status for accepted claims: no step looks at the status given, and the proofs allow all four of the form. |
| `publication` | Are approvals of what was current, artifacts of what is approved, and does an answered approval stay? | 2 updates, 2 commands, 1 bundle stored at a time, 1 power loss. Two updates allow the same version number for two contents once the loss took a new pack; one bundle is enough as no step compares two. |
| `lesson` | Does the renderer compute what its reference says, do the handlers fit the store's rules, and is the grading right? | Every input of 2 to 4 records over 3 keys and 3 credits that repeats a key, with both kinds of job; 5 renderer actions (run, reset, run, reset, run); explanations of 0, 23 and 24 characters. |
| `intake` | Do captures and imports that race, die and are repeated leave one proposal each, with its intake? | 2 commands, a file captured at 2 times, imports that match two packs and one pack, a text that is refused. Two commands suffice for a lost rename; every command may be repeated without bound. |
| `service_regress` | (finds a violation) | see below |
| `event_files_snapshot` | (finds a violation) | see below |

All bounds are the constants in the `.cfg` files: `MaxTime` bounds the clock, the
sets bound attempts, threads, updates and commands; the action history is bounded
by the set `Checkpoint`. Runs that use symmetry permute identifiers that are only
compared for equality, and check no liveness. Deadlock is not checked in the store
and service runs, where the bounded supply of attempts and days does run out; it is in
`event_files`, `promotion` and `intake`, and not in `publication`, where promotions and
losses run out, nor in `lesson`, which ends with the attempt.

**Fairness.** Only `service_races` assumes any, for `RequestsFinish`: weak fairness of each
thread's next step (`Serve`), that is, the operating system keeps running a thread that can
run. Learners owe no request. The review lock is a Python `RLock`, which is not
first-come-first-served, so in an unbounded run one thread could lose every race for it.
Weak fairness suffices in the instance because a thread that takes the lock and finds no
due review leaves in the same step, one that finds it starts a review, which uses up an attempt name, and names
are bounded: the lock is held finitely often, and then stays free for a thread that
waits. What the run shows is thus that no request is stuck by what requests do (a lock
kept after a refusal, everyone waiting), not that the lock is fair.

**Power loss** in `EventFiles` keeps what was synced, and of the later directory
entries those of the first so many: entries are assumed to reach the disk in the
order they were made, as journaling file systems do. Without that a gap could appear
on disk after a power loss; the docs promise nothing for events that were not synced.
`Publication` assumes no such order: a loss may take any entry that was not synced, any
directory whose own entry was never synced (all but `exports/`, which is made before the
home is), and the replacements of a pack since its last sync. This is why
`AnsweredApprovalsSurvive` excepts the loss of the whole directory, and why
`ApprovalsWereCurrent` speaks of content and not of version numbers.
`docs/limitations.md` disclaims power loss, so neither is a finding.

### What the two violations show

* `service_regress`: Retained can be lost. `project_learning_state` takes as *the*
  demonstration the first qualifying attempt in the order attempts were **started**.
  If A is started, B started and completed, and B's review retained, then completing A
  makes A the demonstration and B's review is not looked at any more
  (`review_projection.py`, line 91). `docs/resume-and-review.md` says a qualifying due
  review advances mastery to Retained. `MasteryFloor` shows how far it can fall: to
  Demonstrated, no further.
* `event_files_snapshot`: a reader beside the writer can refuse a healthy history,
  since a directory listing may return a later name and miss an earlier one.
  `docs/resume-and-review.md` says a concurrent event is in the snapshot or left for the
  next read. `ReadersSeePrefixes` shows the reader is never misled: it refuses, or has a
  prefix.

## The proofs

`LearnerStoreProofs` proves, from the assumptions named in `Attempts` (identifiers
distinct from `NoAttempt`, times are naturals, callers hold valid checkpoints only, as
the constructor raises for others), for every number of attempts, contexts and days:

* `TypeCorrectness`, `AlwaysReplayable`, `AtMostOneActiveReview`,
  `ReviewsAreGrounded`, `ReplacementIsUnique`: the invariants of the store's runs;
* `HistoryNeverChanges`, `PredictionNeverChanges`: its action properties.

All follow from one inductive invariant, `StoreInv`. `Replayable` alone is not
inductive: that the replay accepts what the append wrote needs that every entry is
well formed (`EntryInv`: kind and source agree, completed entries are at their last
step, no entry is newer than the last event), and `OneActiveReview` is needed because
a restart writes an active review without looking for another. The lemmas
`StartEffect`, `StepEffect`, `CompleteEffect` and `RestartEffect` first show that the
replay accepts each appended event, so that its effect is the plain update of
`entries`; `...Preserves` then show the invariant step by step. The two action
properties follow from `NextAlters`, which says what a step may do to a known entry.

`CommandLogProofs`: `NewStepsAreNew`, for any ids that callers choose, and `CommandsAreCalls`,
by which the store's theorems hold with command ids (`CommandsKeepHistory` spells out three).
`NewStepsAreNew` says that a legal new step never equals a recorded checkpoint, even on one
day. The invariant orders the checkpoints of an attempt by the
length of the action history and then by the step: a forward step goes up the loop, a
run or reset lengthens the history, and every recorded checkpoint is at or before the
current one.

`LearningServiceProofs`, for any number of threads, pack versions and days:
`ServiceTypes`, `BundlesAreThere`, and `ServiceIsClient`, by which every behaviour of the
service is one of the store, so that all theorems of `LearnerStoreProofs` hold under the
threads (`ServiceKeepsHistory` spells out three of them). The invariant adds what a request
read and still relies on: the demonstration it waits for stays known, the bundle saved
before the stamp stays saved. Two assumptions are made besides the bounds: the checkpoint a
new attempt starts with is one the constructor accepts (`InitialAssumption`), and the free
lock has no name of a thread (`NoWorkerAssumption`). `DiscardedIsSeen` is about two tabs on
one attempt. That the store compares checkpoints before it changes an attempt matters most
for resets and restarts: a step forward on a stale checkpoint is refused by the transition
rules anyway, while a reset from Prove, come late, is a legal step from Explain too and would
take the evidence saved in between.

On top of it, the review policy: `ReviewsKeepDistance`, `DueIsAccepted`, `RetentionIsEarned` and
`MasteryNeverFalls`. `ReviewsAreSpaced` is not inductive, since what keeps reviews apart is made
at one clock reading and used at another. `ReviewInv` adds the three facts that bridge it:

* who is past the due check holds the review lock, and its demonstration is still ready
  for a review at the time it will be stamped with (`Admitted`): only the holder can start
  one, and only a completion, which needs an active review, could move the time;
* the order of the history is serial for reviews (`SerialReviews`): of two reviews of a
  demonstration the one started first ended before the other was stamped, restarts
  included, although a restart writes its replacement without the due check;
* no event and no stamp is ahead of the clock (`ClockLeads`).

The theorems on the projection then need what its loop over the reviews returns. `ReviewScan` is
a function defined by recursion on the position; its lemmas (that it is defined, that a due
answer means the last review ended the retry delay ago, that Retained comes from a review
the loop has seen) are each proved by the least position they would fail for. `MasteryFloor`
is an action property over every kind of step: `MasteryMeans` first says what each Mastery State
means of the history, and each meaning is one that no step takes away.

`EventFilesProofs`, for any processes, threads, readers and commands and any number of kills
and power losses: `DirectoryAlwaysValid`, `ReadersAreNeverMisled`, and `FilesImplementLog`,
the refinement of `AppendOnlyLog`. The invariant `FilesInv`: the files are those of one chain;
what is on disk is a beginning of it that has all that was confirmed; only the process
with the lock has a call in work, and only one, and that call still holds the end of the
chain it saw. A lemma shows that any part of the files that passes the reader's check is
a beginning of the chain. `SavedIsFound` is proved of the abstract log alone (what callers were told is
recorded, and what was confirmed is among it) and holds of the files by the refinement.

`PromotionProofs`, for any packs, updates and sessions: `UpdatesAreUsedOnce`, `NoSilentRebase`, and
`PromotionRefines`, the refinement of `AcceptedPacks`. The invariant is that what was checked
when the lock was taken (the pack is the previewed base, no pack records the update) still
holds for whoever works under it. What a plan does to the claims stays opaque there.

A second invariant opens it: `HistoryInv`, from which `HistoryStaysLinked`, `ConfirmationsHold` and
`HistoryIsKept` follow. `HistoryLinks` alone is not inductive: the claims are written long after
the targets were picked. The invariant adds that every decision of a session names a claim of
the base it read (`PlanFits`), which by the first invariant is still the pack's content when
the plan is written; that claims are well formed; that a record's accepted claims are in its
pack; and that a plan is recorded from the write on. The lemma `DecideKeeps` says what one decision keeps of any
list of linked claims (they stay linked, none is lost, only statuses change and never back to
active, and the accepted claim is there), and `PlanKeeps` carries it over a plan of any
number of decisions. A decision may retarget a claim that
an earlier one of the plan has retargeted, which is why the lemma is not about the base.

`PublicationProofs`, for any updates, commands and losses, whatever the bound on bundles:
`PublicationTypes`, `ApprovalsAreOfCurrent`, `ExportsHaveApproval`, `ApprovalsSurvive`. The
invariant says of each command that what it has read is still stored, as only a power
loss removes files and it ends all commands.

`IntakeProofs` proves, for any number of commands, materials, times and packs, from
the assumptions named in `Intake` (every text matches known packs, the sentinels are
none of the values): `IntakeTypes`, `Provenance`, `Idempotence` and `Permanence`. Their
invariant, `IntakeInv`, adds to provenance what each command knows between its steps: the
manifest it goes on with is the one in the inbox (the loser of a rename has read the
winner's), and it is one of the source and content it was asked for. `Idempotence` then
needs no case analysis: two proposals of one intake and match say what one manifest says.
`NoSilentChoice` rests on `ChoiceInv`, which adds that a command answers only about an update
that is staged, and on what the match returns for a text with several matching packs.

`LessonProofs`, for any explanations, any number of resets and any other activities:

* `LessonImplementsAttempts` and `FeedbackIsJust`, from `LessonInv`. The grades of `Abstract` are
  a valid checkpoint only because answers are given exactly at the steps that follow them
  (`AnswersFit`), and a finished attempt is graded on the run it shows because the result on
  display is always what the recorded actions render to (`ShowsItsRun`).
* `RendererMatches`: for every list of records that the input type accepts, whatever its length, keys
  and credits, and `LessonTellsTheTruth`, its instance for the lesson. The code counts by key, sums
  over a dict and reads the records backwards; the reference speaks of positions. The proof
  goes through the first position of each key (`FirstPosition`, by the least number),
  which is a bijection from the first records to the keys (`KeysOfFirsts`), and through sums: the
  library's sum takes the summands in an order that it does not say, so `SumIsAdditive` shows
  that the partial sums do not depend on it, and `SumIsCarried` that a bijection of the
  indices keeps the sum.

Induction. The library's induction theorems take an operator as a parameter, which the
provers cannot instantiate. Where an induction is needed, it is done on a set: `LeastNumber`
gives a least number to every nonempty set of numbers, from the well-foundedness of `<`, and
what would fail first is refuted. `Induction` (for intervals) and `SetInduction` (for subsets of
a finite set) are stated this way, so that they can be cited.

Only model-checked, not proved: `RequestsFinish`, as liveness under fairness is out of the
prover's reach. Every other property of the passing runs is stated by a theorem. The two
violations are TLC's too.

## Not modelled

Text (sanitization, canaries, wording, claim extraction), JSON and digests, HTML views, the
JSON contract and error classes, forms, signatures and host checks, file permissions and
symbolic links, the release scripts; of the command line, only the sequences of
`capture`, `codex-import`, `export-approve` and `export`.
Power loss is modelled for learner events, bundles, approvals, artifacts and packs, not for
intakes and staged updates, which have process death.
A directory in work that a lost rename or a kill leaves in the inbox is never read and
is not a state of `Intake`.
`InMemoryAttemptStore` is used by tests only. Which attempt a Mastery State is
credited to, and which review a lesson page shows first (`_review_for_route`), change
no state and are left out. A replaced directory (`_remove_committed_if_equal`) needs
an actor outside the program.

## Plan

Done: the learner store, command ids, event directory, service with the review policy,
promotion with the claims, publication, intake and the lesson, each with proofs. Left, in
this order:

1. Power loss in `Intake`: the rename of an intake directory is never synced, the staged
   update is; what a repeat then does at another time.
2. The learner's whole path, `Intake` to `Promotion` to `Publication`, as one composition.
3. How the store's calls rest on the event directory, as a refinement: `LearnerStore` over
   the chain of `EventFiles` in place of the argument in this file.
