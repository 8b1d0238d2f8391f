# A verification project for the BFSI voice agent

A caller talks to the agent in a browser.  Audio goes over a WebSocket to a
voice session, which decides when a turn is over, has a router, tools and a
retrieval loop answer it, and speaks the answer, which the caller may
interrupt.  Promises to pay, callbacks, disputes and the like are recorded
locally and handed to a durable job pipeline.  This directory models the parts
of that program whose correctness depends on the order of events, checks them
with TLC, and proves the main results with TLAPS.

## 1. The system

| Part | State it keeps | Operations | Talks to |
|---|---|---|---|
| Job store `jobs/store.py` | SQLite tables `jobs`, `job_events`, `side_effects` | `submit`, `claim`, `heartbeat`, `complete`, `fail`, `side_effect_once`, `requeue_dlq`; each one `BEGIN IMMEDIATE` transaction | called by workers, API, durable executor |
| Worker `jobs/worker.py` | the job in hand and its attempt number | `run_once`: claim, handler, ledger, effect, complete or fail | job store, the outside world |
| Job API `jobs/api.py` | none | submit, requeue, reads | job store |
| Turn manager `voice/turn_manager.py` | turn id, segments, latest partial, two timers | speech start/end, partial/final, `set_config`, timers | calls back the session |
| Voice session `voice/runtime.py` | turn flag, barge-in candidate, generation, current task, phase | control messages, audio, `on_transcript`, `_confirm_barge_in`, `_schedule_response`, `_respond` | everything in the voice path |
| Audio output `voice/transport/websocket.py` | `_playback_until` | `enqueue`, `clear`, `wait_until_done` | browser |
| Recogniser client `voice/stt/deepgram.py` | socket, receiver and keepalive tasks | `start`, `send_audio`, `stop`, `_receive_loop` | calls `on_transcript` |
| Verification `business/verification.py` | per session: awaiting, attempts, locked, verified until, pending request | `begin`, `consume_input`, `is_current_verified` | session, tool executor |
| Durable executor `business/durable_executor.py` | none | local write, then `submit` | tool executor, job store |
| Idempotency guard `voice/idempotency.py` | recent writes, with a TTL | `check`, `remember_success` | session |
| Tools `business/executor.py`, `repository.py` | the business tables | one handler per tool | verification, database |
| Normalisation `voice/pre_orchestrator.py` | none | `normalize`: the words that reach guard, router and tools | session |
| Orchestrator, guards, routers `integration/` | last latency figures | `handle`: route, guard, retrieve, execute | model server, tools, retrieval |
| Retrieval `rag/` | vector index | analyse, retrieve, evaluate, rewrite and retry, answer or abstain | embeddings |
| Language and numbers `voice/localization.py`, ... | none | string conversions | session |

What is hard here, and where:

- **Processes that die.** Workers are separate processes over one database; a
  lease replaces a broker.  A worker may die between any two store calls, or be
  so slow that its lease lapses while it runs.
- **One event loop, many coroutines.** The session's fields are shared by the
  WebSocket receiver, the recogniser's receiver, two turn timers, the barge-in
  expiry timer and any number of response tasks.  Whatever is read before an
  `await` may be stale after it.
- **Late results.** The recogniser answers when it likes; the router's
  inference is deliberately not cancelled.
- **Retries and duplicates** of submissions, of spoken instructions, of jobs.
- **Words that are rewritten on the way.**  A request's text is normalised
  before the router, and once more when it is resumed after a code; guard,
  tool and router each read dates from what is left.
- **Evidence that piles up.**  Up to three retrievals are merged; what the
  evaluator judged and what an answer is generated from are different sets.

`PROJECT.json` lists every component with what is modelled of it, and every
hazard at its line with the properties that watch it.

### What makes each part correct

- *Job store and workers*: the external action of a key happens at most once;
  only the newest attempt settles a row; a completed job stays so; attempts
  respect the budget; every accepted job settles.
- *Turn manager*: a turn that is ending always has the timer that ends it; a
  timer never acts on another silence or turn than its own; a new window
  reaches a turn that is already ending.
- *Voice session*: a request in inference is never cancelled and its stale
  result never spoken; one response at a time; an interrupted response is
  silent; the assistant always listens again.
- *Verification*: digits never reach the router; the session is locked exactly
  when the wrong codes since the last right one reach the limit; a protected row
  is written only for a caller who has said the code.
- *Writes*: a reply confirms only what is durable, as a row and as a job; without
  a fault no row stays without its job.
- *Router guards*: whatever the model decides, no tool runs for an unsafe
  request, for a policy question, or for one that is asked back.
- *Retrieval*: the loop ends, along its documented state machine; an answer
  rests on no open conflict and on versions in force; a policy question is
  answered from citations or not at all.
- *Promises and callbacks*: a promise is on record only for a day the caller
  meant and for an own account; a refusal has its cause in the words; what a
  caller hears is "already recorded" is on record.

## 2. Modules

| Module | Models | State and actions |
|---|---|---|
| `JobStore` | `jobs/store.py` | rows (`status`, `attempts`, `owner`), `ledger`, last logged event; one operator per transaction.  Time is `lapsed`, `waiting` and `ahead` (the order of `available_at`) |
| `JobPipeline` | `jobs/worker.py`, `jobs/api.py` over `JobStore` | `pc`, `job`, `attempt` per worker; one action per store call; crashes, lapses, requeues |
| `Delivery` | the abstract contract | jobs are accepted, run, decided; effects are performed at most once |
| `JobPipelineDelivery` | the refinement mapping | `JobPipeline => Delivery` |
| `JobPipelineProofs` | | proofs about `JobPipeline` |
| `FiniteOrders` | | a lemma that two of the proof modules need: a finite, nonempty, strictly ordered set has a minimum |
| `TurnManager` | `voice/turn_manager.py` | its fields, timers as values; one operator per method, used by both modules below |
| `TurnTaking` | the turn manager called in any order | `Call`, `Timer`, `Close` |
| `TurnTakingProofs` | | proofs about `TurnTaking` |
| `VoiceSession` | `voice/runtime.py` with `TurnManager` | one action per stretch of code between two awaits, of each coroutine |
| `Conversation` | the abstract life of responses: `_schedule_response`, `_confirm_barge_in`, the order of `_respond`, who consumes a code | `newest`, the stage `at` of each turn, `challenge`; one action per transition |
| `VoiceConversation` | the refinement mapping | `VoiceSession => Conversation` |
| `AccountTurns` | what the turns of `Conversation` do: `verification.py`, `idempotency.py`, `executor.py`, `durable_executor.py` | registry (`registered`, `attempts`, `verified`, `pending`), `remembered`, the executor's thread `tool`, `records`, `jobs`; one action per call or transaction |
| `AccountClaims` | two statements of `docs/ARCHITECTURE.md` | one property each |
| `ConversationProofs`, `AccountTurnsProofs` | | proofs about both |
| `VoiceSessionProofs` | | proofs about `VoiceSession`, the refinement included |
| `VoiceSessionClaims` | what documents say and the code does not do | one property per claim |
| `PolicyEvidence` | what `evidence_evaluator.py`, `conflict_detector.py`, `answer_generator.py` and `self_correcting.py` compute from a set of chunks | operators: support, conflicts, versions in force, the evidence of an answer |
| `SelfCorrectingRAG` | `SelfCorrectingRAG.answer` | `gathered`, `support`, `verdict`, `preferred`, `cited`; one action per entry of its trace |
| `PipelineStates` | `rag/state_machine.py` | the documented table, as the specification the loop implements |
| `RouterGuards` | `integration/guards.py`, `router_schema.py` | operators: the decisions the guards tell apart, and what the rules make of one |
| `AnsweredTurns` | `BFSIOrchestrator.handle` over the three modules above | `stage`, `decision`, `toolRuns`, `reply`; one action per step of `handle` |
| `AnsweredTurnsProofs` | | proofs about it |
| `DateMentions` | `pre_orchestrator.py`, the date readers of `executor.py` and `idempotency.py`, the digits of `verification.py` | operators on the ways a date or a code is said |
| `Commitments` | a call of promises and callbacks, from the words to the row | `turn`, `pending`, `challenge`, `rows`, `remembered`; one action per step of a turn |
| `CommitmentsProofs` | | proofs about it |
| `AnsweredClaims`, `CommitmentsClaims` | a statement each of the documents that the code does not keep | one property each |
| `MC...` | instances for TLC | |

Some correspondences that are not word for word:

- A cancelled asyncio task never resumes, so a live timer is a value
  (`endpoint`, `settle`), and a cancelled response is `at[g] = "none"`.  Its
  `finally` block changes nothing because whoever cancels has moved
  `generation_id` and `_current_task` on.
- A response is identified by its `generation_id`; `_current_task` is `current`.
- Durations are only compared: a timer fires at any time after it was started, a
  partial result is or is not old enough to confirm a barge-in, speech was or
  was not long enough for one.
- A transcript is the set of utterances its words stem from, which is all that
  the claims about late results need.
- In `VoiceSession`, `consume_input` and the demand for verification are
  modelled as far as they steer turns; how many wrong codes lock the session is
  left open.
- `AccountTurns` is the other refinement of `Conversation`.  Every action that
  moves a response is a `Conversation` action conjoined with what it does to the
  account, so the stages of a reply (localizing, sending, speaking, draining) are one,
  `replying`, and the confirmation of a code is `confirming`.  `VoiceSession`
  shows that the code's awaits, timers and cancellations produce only such
  moves; `AccountTurns` shows what they mean for the account.
- A request stands for a text together with what the router makes of it.  `Key`
  is `candidate_key` of the text, `Job` the idempotency key of tool and
  arguments.  Whether the router calls the tool at all is open, because a
  clarification, retrieval or a failing model may answer instead.
- The executor's thread cannot be cancelled; `tool` holds how far it is and then
  what it returned.  Local row, call event and submission are three
  transactions; any of them may fail, and `execute` makes an error result of a
  failure in the first two only.
- The challenge of `begin`, the registry's `locked` and `awaiting_code` are the
  variable `challenge`; no state has both flags set.
- One session at a time: after a hang-up the next session is the one after a
  restart.  A second session beside the first one's remaining tasks is not
  modelled.
- In `VoiceSession` an utterance has any number of partial and final results, a
  final one for each segment the recogniser closes at a pause, and `unheard` moves
  on with the last.  `MaxSegments` bounds them: once a turn has that many, each
  further final result is the last of its utterance.
- Sending a reply's text (`sending`) is a stage of its own: the generation has been
  looked at and `_phase` is not yet `tts`, and a barge-in may fall in between.
- In `VoiceSession` a `stt.stop` is one step, at its end.  What the recogniser
  returns before that end are earlier steps.
- Similarity, overlap and confidence scores are left open: wherever a score
  alone decides (which chunks a retrieval brings and in which order, whether
  support is strong enough), `SelfCorrectingRAG` takes any choice.
- A question is the set of `signals` the analysis finds in it, a request for
  `handle` also what the guards look for in its text.  Whether a completion of
  the model holds a decision that fits the schema is left open: any may be
  accepted, or repaired once by the local router, or the router fails.
- Every chunk has a sentence to quote.  `chunking.py` makes no chunk of an empty
  text; one of `#` signs alone, for which `generate` would return no answer, is
  left out.
- `AnsweredTurns` is one request: retrieval and guards keep nothing between
  requests.
- In `Commitments` a text is its topic, the form in which it mentions a date,
  whether it names a time or is vague, and an amount and its place.  What the
  regular expressions make of a form is modelled by its result, spoilt dates
  ("garbled") included.  29 February is left out of the calendar, and so are
  dates that no calendar has, which `normalize` returns as they were.  Turns are not
  interrupted here; interruptions are the subject of `AccountTurns`.
- Three history variables record what no field of the program does: `broken` the
  jobs a worker left between ledger and effect, `lost` the keys of rows that the
  write guard was not told of or has forgotten, and `answered` the utterances
  whose words a turn was accepted with.  No guard reads them.
- `JobStore` keeps the newest entry of the event log, which is what an action
  property needs of it.

Some definitions begin "Mutation:".  Each is the definition after it with one
plausible bug; it is not part of any specification and is used to confirm that
a property can fail.

## 3. Runs

Bounds are constants of the modules, named where they are declared.

| Run | Bounds | What it shows |
|---|---|---|
| `job_pipeline` | 2 workers, 2 jobs (1 and 2 attempts), 1 crash, 1 lapse, 1 requeue | type, at most one effect, none missing from a completed job unless a worker broke off before it, retry budget, fencing, no overtaking in the queue; implements `Delivery`; every accepted job settles |
| `turn_taking` | 2 texts, 2 configurations, 3 turns, 3 final segments a turn | type, timers current, never stranded; comes to rest |
| `voice_session` | 2 utterances, 1 final result a turn that need not be its utterance's last, 1 typed query, 1 restart, stop or hang-up | no turn abandoned, inference runs to its end, one response, interrupted is silent, digits get time, only the last answered utterance is late; implements `Conversation`; listens again |
| `account_turns` | 4 turns or barge-ins, 2 attempts, 1 expiry, 1 failure, 1 crash; a balance query, two disputes with one key, a request for a human without a key | protected writes are verified, replies are true, writes are not stranded, repetitions have an excuse, the lock is the limit, digits stay local, only the newest proceeds |
| `answered_questions` | 4 documents in 5 chunks, 11 requests, 3 retrievals of 2 chunks (3 for a question in parts), 3 kept, 2 counted as support, the router with a repair | type, conflicts settled, current versions, policies grounded, tools only where safe; follows the documented state machine; a reply or an exception in the end |
| `commitments` | 15 wordings, 3 turns, 1 midnight, 1 expiry, 2 attempts, the model may name 6 dates and 3 accounts | type, promises as said, refusals unclear, repetitions on record |

Why these are enough: every property speaks of at most two workers, two
responses or two consecutive utterances.  Two workers and one lapse give a slow
and a new holder of one job, two jobs give an order in the queue, a limit of one
attempt next to one of two gives both ends of a failure.  Two utterances and a
typed query give a response that is interrupted while an older one is in
inference and a newer one waits for its lock, a turn for a challenge and one for
the code, and a late result in the turn after its own.  Four turns are a
request, two codes and a repetition of the request; with two attempts a wrong
code both reprompts and locks.  The knowledge base has a superseded and a
current version of one policy, the current one in two overlapping chunks, and a
younger page that repeats the old figure: evidence may conflict within the
versions in force and across them, support is cut off before all of it is
counted, and the last of three retrievals may bring the conflict.  Three turns
of a call are a request, a code and a second request that shares the first one's
key or does not; the wordings have a day in the past, today and tomorrow, one
digit and two, and dates that can be read in two ways.

`DateMentions` was compared with the Python functions it models on 151,840
combinations of form, date and day of the call, without a difference.

### Runs that end in a violation

Each checks one statement of the documentation or of a comment that the code
does not keep; `PROJECT.json` quotes the line.

| Run | Statement | What happens |
|---|---|---|
| `job_exactly_once` | side effects happen exactly once | ledger row without an action after a crash |
| `late_final_second_request` | late results are ignored after a turn was accepted | they join the next turn |
| `account_recorded_twice` | a repeated instruction after an interruption is not recorded twice | the interrupted write was not remembered |
| `account_request_lost` | pending verification requests survive interruptions | the confirmation was interrupted before the request was resumed |
| `historical_question` | historical questions keep superseded versions | a resolved conflict leaves only the active document |
| `explicit_date` | explicit dates are normalised and taken | the month pattern gives up a digit of the day, and a right date is refused |

The same models take these paths too, which no run singles out:

- `requeue_dlq` logs a transition from `DLQ` for a job that was not there
  (`store.py:410`), although the row stays as it is.
- A takeover after a crash may start one attempt beyond `max_attempts`
  (`RetryBudget` says by how much at most).
- A response that a barge-in has made stale may still enter inference while
  `output.clear()` is awaited (`runtime.py:731`); its result is discarded.
- Speech that ends while the confirmation of its barge-in awaits a slow
  client ends nothing (`runtime.py:527`); and a speech end that was noted before
  it is applied although the caller may be speaking again.
- A late final result confirms a barge-in just as a new one does; a turn that
  closes empty leaves the session's `user_turn_open` set.
- After a garbled date the write guard reads "august 2" from several different
  dates of a callback; a date with hyphens is "unspecified" to it, so promises of
  one amount for different such dates share a key (`idempotency.py:69-99`).
  The second is then told to be on record; `RepeatedIsOnRecord` states what
  does hold.  The key is one of the text, whatever tool the model chose.
- "I'm not able to pay ..." is rewritten to a wrong-person report
  (`pre_orchestrator.py:43`).
- A code 6425 that was recognised as an amount of money, "$64.25", is read as 0645
  and counts as a wrong attempt (`verification.py:284-305`).
- Where a request asks for a policy and for a write, an abstaining retrieval
  ends the turn without the tool (`orchestrator.py:141`).

### Fairness

- Jobs: workers poll for ever (`run_forever`), a handler ends, a lease that
  nobody renews lapses and a backoff elapses.  Clients, operators and faults
  are never obliged.
- Turn manager: the event loop runs a timer whose sleep is over.
- `handle`: the coroutine runs on.  The model servers' clients have timeouts
  and the retrieval loop is bounded, so each of its steps ends, if only in an
  exception.
- Session: timers fire, sends return, the model server and the localizer
  answer or fail (their clients have timeouts), a TTS stream ends, a speaker
  plays what it has, a caller who speaks pauses at some time.  Nobody is
  obliged to speak, to type or to recognise words.

Deadlock checking is off where a run may stop for good: a closed turn manager, a
session that has ended, one with every bounded input used up, or a request
that has its reply.

## 4. Proofs

TLAPS checks the following for every value of the constants (any number of
jobs, workers, crashes, turns, texts), from the modules' named assumptions on
constants alone.

**`JobPipelineProofs`.** `AtMostOneEffect` is not inductive: that an effect is
performed once depends on the ledger being written before it and on who may be
between the two.  The inductive invariant `IInv` adds to the type invariant: a
job in hand exactly when a worker is not idle; an effect, or a worker about to
perform it, implies the ledger row; at most one of the two, and at most one such
worker; the worker whose attempt is the row's newest is the row's owner; and
each attempt beyond the limit was paid for by a crash or a lapse.  From it
follow `AtMostOnce`, `Reservation`, `Entitlement`, `Budget`, `Fencing`,
`Finality`, and the `Refinement` of `Delivery`.

Two further parts of `IInv` give further results.  A ledger row is followed by
its effect, by a worker about to perform it, or its job is in `broken`: hence
`NothingElseIsLost`, which says where the documented exactly-once fails (the run
`job_exactly_once`) and that it fails nowhere else.  And `ahead` is a strict
order of the rows that are due, finitely many: hence `ClaimsSucceed` (the order
has a minimum among the runnable rows, so a claim succeeds whenever there is one).
`PlacesAreKept` follows from type correctness and the actions.

`RetriesRunOut` is about progress without fairness: from submission or requeue to
settlement a row changes at most `4 * (MaxAttempts + MaxCrashes + MaxLapses) + 1`
times, because every claim uses up an attempt or was paid for by a crash or a
lapse, and between two claims a row changes a bounded number of times.

**`TurnTakingProofs`.**  The conjunction of `TypeOK`, `TimersAreCurrent`,
`NeverStranded` and `WindowInForce` is inductive; `Arming` needs `Currency`
because only a current settle timer ends its turn.  `TimersRunDown` is the part
of `ComesToRest` that needs no fairness: a rank of at most three falls with every
wake-up of a timer, and at rank zero an open manager listens.

**`ConversationProofs`.**  `DigitsStayLocal` says that while a code is awaited no
turn is in the router or waits for it.  It is not inductive: a turn that asks for
a code comes out of the router, so nobody may be queueing behind it.  That is
`OnlyNewestProceeds` (the asking turn is the newest, and only one in inference
survives a newer turn), which in its turn needs `FutureIsEmpty`.

**`AccountTurnsProofs`.** `IInv` is the invariant of `Conversation`, which is
carried over because every step is one of its steps or a stutter
(`ImplementsConversation`), together with `AccountInv`: the executor's thread
works for the turn in the router and, past its gate, for a caller who has said
the code; a row precedes its job; only what is on record is remembered or told.
`DigitsStayLocal` carries the argument of `VerifiedWrites`: what the thread saw
at its gate stays true until its row is written because no code can be said
while a turn is in the router.  For `RepeatsHaveAReason` a
third part, `GuardInv`, says of every row whose key is not lost that its thread
has not returned, or that the guard knows the key and no turn that passed `check`
before is left (in the router or waiting for it).  It needs `OnlyNewestProceeds`:
a duplicate that waited behind the first makes the first one's result stale, and
then the key counts as lost.  The theorems hold for any requests, keys, number
of turns, attempts, expiries, failures and crashes, from `TurnsAssumption` and
`AccountAssumption`.

**`VoiceSessionProofs`.**  All invariants of `VoiceSession` and its refinement of
`Conversation`, for any number of utterances, typed queries and exits.  `IInv`
has six parts, each disturbed by other actions:

- turns: the turn manager's timers are current and an ending turn is armed,
  as in `TurnTaking`, now under the session's callers;
- responses: no response is newer than `generation_id`, all but the newest are
  in inference or gone, one is in inference, and the current task is one
  that is known.  The last is why `_confirm_barge_in` may look at `phase`
  after its await and cancel `_current_task`: the two speak of one response;
- audio: what was interrupted is older than the newest generation, and silent;
- order: results come in order and one `on_transcript` at a time, so no word in
  use, of the open turn or of an accepted one, is newer than what the recogniser
  returns next or than what a confirmation has in hand (`OrderInv`).  Hence
  `LateWordsAreTheLast`, which bounds what the run `late_final_second_request`
  shows: the words of the last answered utterance may return, no older ones;
- the window: while a code is awaited the verification window is in force, and a
  running endpoint timer waits by the window in force, because `set_config`
  starts it again;
- a budget: generations given out, and those owed for a turn, a candidate or
  a confirmation that may still ask for one, do not exceed what utterances and
  typed queries have paid in.  An utterance pays for three: the barge-in's own
  generation, its turn's, and that of a turn it finds left open.  Type
  correctness depends on it, because a response is named by its generation.

From `Refinement` follows `CodesNeverReachRouter`: what `ConversationProofs`
shows of the abstract conversation holds of the session.  Two further theorems
have no run of their own.  `ResumedRequestIsNoCode`: from the right code to the
router no new challenge is open, so the request that waited is never taken for a
code itself; only the newest response can ask for one when it comes out of the
router, and then no other is under way.  `ResponsesRunOut`: `_current_task` is never one
that has ended, every stage a response leaves brings it nearer to its end, at
most twelve stages away, and an ended response does not return.

**`AnsweredTurnsProofs`.** For any corpus and requests, and any bounds of the
loop.  The corpus must have finitely many chunks and two active versions of a
policy must differ in date or version (`CorpusAssumption`, `VersionsAreOrdered`;
without the latter two documents would be in force at once).  `IInv` ties each
verdict to the support it was reached from (`RagInv`: a sufficient verdict has
support, and the conflicts of that support are settled in the evidence an answer
may use), says what the guards leave of a decision (`DecisionInv`), in which
stage a tool may have run (`StageInv`), and what a policy reply rests on
(`ReplyInv`).  The step that carries the weight is `SufficientIsSettled`: the
evaluator judges the support, the answer is generated from all gathered chunks
of its documents.  `TracesAreDocumented` is the refinement of `PipelineStates`.
`GuardsAgree` is about the guards alone: the order of their rules matters to the
code, and in what they return no rule finds anything left to correct.

Two theorems are about progress as far as it needs no fairness.
`EvidenceNeverRunsOut`: wherever the loop chooses, there is something to choose;
an answer found sufficient has something to quote, because of every family of
versions one stays in force (the newest active one, which exists by the minimum
of `FiniteOrders`, or all where none is active), and neither the preferred
document nor the removal of macros empties what is left.  `StepsRunOut`: every
step lessens a measure of at most `3 * MaxIterations + 12`.

**`CommitmentsProofs`.**  `PromisesAreAsSaid` for any wordings, calendar and days
(`CallAssumption`, `NoRequestAssumption`).  It is not inductive because a request
waits for a code with its words already rewritten and is rewritten again, on
another day.  The strengthening, `RequestInv`, says that normalised words are read
as days that were meant when they were said, or not at all, and that
normalising once more adds no reading (`SaidOnce`, `SaidAgain`).
`RefusalsAreUnclear` and `RepeatsAreOnRecord` follow from the same invariant.
`RememberedIsNotRepeated` and `LockIsFinal` are about steps and have no run of
their own: a tool never writes under a key the guard remembers, and nothing
unlocks a locked call or writes a protected row in one.

**Model-checked only.** Liveness: `Settles`, `ComesToRest`, `ListensAgain`,
`Responds`, because the argument from fairness needs ENABLED, which the prover
does not treat.  The half of each that needs no fairness is
proved: `RetriesRunOut` and `ClaimsSucceed` for `Settles` (a job runs out of
changes, and a claim never fails for want of an oldest row), `TimersRunDown` for
`ComesToRest`, `ResponsesRunOut` for `ListensAgain`, `StepsRunOut` and
`EvidenceNeverRunsOut` for `Responds`.
Every other property of the passing runs is proved.

## 5. Not modelled

- Power loss: the database runs with `synchronous=NORMAL`, where the last
  commits may be lost; processes die here, the machine does not.
- Two live workers started with one `--worker-id`.
- `claim` re-reads its row after its transaction: the attempt number a handler
  sees is modelled as the one the claim wrote.
- Account numbers in words, amounts beyond the first number of a text, the
  balance, history and policy tools: reads, and arguments that are only stored.
- What `normalize` makes of a question for one's own balance, and every wording
  that no rule of the guards or of the analysis tells apart.
- `AccountTurns` says nothing of a row whose job a crash or a failure prevented:
  the code does not repair it, and `UndeliveredIsUnderWay` is stated without
  faults.
- `WritesAreVerified` speaks of sessions the registry knows.  After a hang-up a
  request that is still in the router is checked like one without a session.
- Language detection, localisation and number rendering: string conversions.
- Ingestion, chunking, embeddings and the vector index; the model server and its
  prompts; the texts of answers, their confidence and the actions reported
  beside the trace.
- The recogniser's socket, its keepalive and reconnects, and the lock that puts
  WebSocket sends in line: in the models a result comes, late or never, and a
  send returns.
- Latency metrics, the evaluation scripts and the web page.

## 6. Plan

In order of what matters most for a caller:

1. `JobStore`, `JobPipeline`, `Delivery` with proofs (done).
2. `TurnManager`, `TurnTaking` with proofs, `VoiceSession` (done).
3. `Conversation` with proofs, refined by `VoiceSession` (done).
4. `AccountTurns` with proofs: verification, idempotency guard, tool thread and
   durable write under interruption, failure, hang-up and crash (done).
5. `PolicyEvidence`, `SelfCorrectingRAG`, `RouterGuards`, `AnsweredTurns` with
   proofs: how a question is answered (done).
6. `DateMentions`, `Commitments` with proofs: from a caller's words to a row
   (done).
7. Proofs of `VoiceSession`: its invariants and its refinement of `Conversation`
   (done).
8. `DeepgramSTT` and the transport's send lock: reconnects, keepalives, stop.
9. The verification window of a locked session; a record whose job a crash
   prevented, against the delivery the durable executor's header promises.
10. A second session beside the remaining tasks of the first.
