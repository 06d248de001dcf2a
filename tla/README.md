# GoshCoder: specification and proofs

GoshCoder is a coding agent for the terminal: it sends a transcript to a model
provider, runs the tools the model asks for, records the conversation in an
append-only session file, and shows all of it in a terminal interface.  The
modules here specify the parts of it that are concurrent or that must survive
failures.  Each is translated from the Rust source under `src/src/`; TLC checks
its properties on small instances, and TLAPS proves most of the safety
properties for every instance.

Source paths below are relative to `src/src/`.

## 1. The system

| Component (files) | State | Operations | Interacts with |
|---|---|---|---|
| **Agent loop** (`agent.rs`) | `InnerState` behind one mutex: transcript, streaming flag, pending calls, cancellation token, `run_active`, `turn_preparation`, `lifecycle_transition`, steering and follow-up queues | `prompt`, `continue_run`, `run_queued_messages`, `steer`, `follow_up`, `take_queued_messages`, `abort`, `reset`, `compact_if_unchanged`, `set_context` | the responder (providers), tools, listeners, the `prepare_next_turn` hook |
| **Compaction** (`compaction.rs`) | none; a snapshot of the agent | `compact_with_summaries` | agent loop, responder |
| **Turn policy** (`turns.rs`) | local counters of one prompt | retry with back-off, overflow recovery, threshold compaction, continuation of queued messages | agent loop, compaction |
| **Session log** (`sessionlog.rs`) | lock file and its heartbeat thread, session file, `Writer` (size, degraded, keep) | claim, create, attach, append, close, fork, clone, garbage collection | the file system, other processes |
| **Session runtime** (`session.rs`, `sessions.rs`, `session_picker.rs`) | `RecorderState`: writer, recorded prefix, rewrite guard | open, resume, fork, switch, record | agent events in, session log out |
| **Event stream** (`stream.rs`) | bounded queue, `ended`, terminal result, two condition variables | `push`, `push_timeout`, `try_push`, `next*`, `result*`, `end` | provider worker and responder |
| **Providers** (`providers.rs`, `bedrock.rs`, `mistral.rs`, `google_auth.rs`, `omni_prompt_tools.rs`) | one worker thread and one stream per request | `stream_with_credentials`, `respond_with_credentials`, `MessageEmitter::{publish, finish, fail}` | event stream, cancellation token, credentials |
| **Catalog and credentials** (`catalog.rs`, `provider_cli.rs`) | `auth.json`, its lock file, an in-process lock, a stamped cache | read, `modify`, remove, resolve | other processes, OAuth |
| **OAuth logins** (`oauth.rs`, `tui_login.rs`) | pending login, refresh failures | login flows, `resolve_stored_oauth` | credential store, network |
| **Coding tools** (`tools.rs`) | a process-wide set of busy paths; children of `bash` | read, write, edit, bash, grep, find | file system; called from the agent's tool threads |
| **Side threads** (`btw.rs`, `btw_runtime.rs`) | threads with queue and activity per thread | enqueue, run, cancel, clear, export, bring to main | responder, persistence hook |
| **Planner** (`plannotator.rs`, `planner_runtime.rs`) | phase machine, workspace file and its fingerprint | toggle, submit, review, restore, adopt | agent's tool list, other windows |
| **Ralph loops** (`ralph.rs`, `ralph_runtime.rs`, `ralph_cli.rs`) | loop records in `.ralph` | start, iterate, pause, resume, finish | agent hook, command line |
| **Grok accounts** (`grok_accounts.rs`, `grok_cli.rs`, `grok_imagine.rs`) | vault of accounts, exhaustion marks, the session's chain | select, rotate on exhaustion, refresh | credential store, responder |
| **Meta Muse** (`meta_muse.rs`) | login and minted key | login, refresh, list models | network |
| **Gateways** (`aperture*.rs`, `omniroute.rs`, `omni_cli.rs`) | configuration files, model lists | discover, proxy, MCP over HTTP | network |
| **Computer use** (`computeruse.rs`) | one child process behind a mutex | call, restart, close | agent tools |
| **Web access** (`webaccess.rs`) | none | search, fetch | network |
| **Terminal interface** (`main.rs`, `state.rs`, `ui.rs`, `markdown.rs`, `line_editor.rs`) | view state, channels of agent events and turn results | input, rendering; starts the prompting threads | everything above |
| **Resources, prompts** (`resources.rs`, `prompts.rs`), **HTML export** (`export_html.rs`), **LLM types** (`llm.rs`), **configuration and start-up** (`config.rs`, `runtime.rs`) | files and values | pure functions and sequential I/O | - |

What makes the system hard, and what has to hold:

* **Agent loop.** Prompting threads, the user interface, one thread per parallel
  tool call and a hook that may itself rewrite the transcript share one mutex
  that is released around every callback.  There must be one writer of the
  transcript; each message must be delivered once and in order; each request
  must pair tool calls with results; nothing of a run may outlive it; listeners
  must be able to rebuild the transcript; every run must return.
* **Session log.** Processes coordinate through files only, one operation at a
  time, while owners stall or die.  There must be one writer of a session; a
  displaced one must stop; an acknowledged entry must survive a crash; an
  abandoned lock must not shut the user out.
* **Event stream and providers.** Producers and consumers sleep on two condition
  variables, calls time out, and either side may disappear.  No wakeup may be
  lost, the final event must be last and arrive, and an abort must free both
  threads whatever the other one does.
* **Turn policy.** The retry sleeps between two looks at the transcript; budgets
  must bound the number of requests; queued messages must still be delivered.
* **Credentials.** Two locks under one deadline, readers without a lock, a cache
  validated by a stamp, refresh tokens that rotate: no login may be lost, no
  refresh token spent twice.
* **Side threads, planner, Ralph loops, account rotation, file mutations,
  computer use.** Read-modify-write cycles on shared records or files, and
  cancellation racing completion.

The complete list of hazards, each at its line and with the properties that
cover it, is in `PROJECT.json`.

## 2. The modules

Each component has a module with its state and actions; `...Properties` states
what it promises, `MC...` gives TLC its scenario, and `...Proofs` holds the
theorems.

| Module | What it is |
|---|---|
| `AgentLoop` | the agent runtime: callers, tool threads, user, hook, compaction and reset |
| `TranscriptFeed` | abstract: what a recorder of the agent's events may rely on |
| `AgentProperties`, `MCAgentLoop` | properties of `AgentLoop` and the mapping to `TranscriptFeed`; scenarios |
| `AgentProofs` | types, mutual exclusion, the invariants of runs, of the transcript and of messages |
| `TurnPolicy`, `TurnPolicyProperties`, `MCTurnPolicy`, `TurnPolicyProofs` | what happens around a run: retries, recovery, threshold compaction, continuation, and the interface that starts prompts |
| `SessionClaim` | lock file, heartbeat, session file and writer, for any set of processes |
| `ExclusiveLog` | abstract: a log written by one holder at a time |
| `SessionClaimProperties`, `SessionClaimProofs` | properties and the mapping to `ExclusiveLog`; their proofs |
| `SessionRuntime`, `SessionRuntimeProperties`, `SessionRuntimeProofs` | the recorder, the tree of entries and what a resume makes of it |
| `EventStream`, `EventStreamProperties` | the bounded queue with its two condition variables |
| `ProviderStream` | composes `EventStream` with one worker and one responder |
| `StreamProofs` | proofs of both |
| `MCStreams` | both of the above as two scenarios of one run |
| `CredentialStore`, `CredentialProperties`, `MCCredentials`, `CredentialProofs` | `auth.json` with its locks, cache and token refresh |
| `CredentialMap` | abstract: a map changed one entry at a time |
| `SideThreads`, `SideThreadsProperties`, `SideThreadsProofs` | side questions, their workers, and the interface that shows the answers |
| `Planner`, `PlannerProperties` | several windows and one planner file |
| `RalphLoop`, `RalphProperties` | loop records changed by sessions and command lines |
| `LoopRecord` | abstract: the life of one loop |
| `MCSharedFiles`, `SharedFilesProofs` | the planner and the Ralph loops as two scenarios of one run; the proofs of both |

An operator named `X_bug` is the form a plausible mistake would give to `X`.  No
specification uses one; replacing `X` by it must break the property that
`PROJECT.json` names under "mutants", which shows that the property can fail.
`MCStreams` and `MCSharedFiles` pick one of their two scenarios in a variable
`use` that never changes.

### AgentLoop

One action is one critical section of the mutex, or one emission of an event
where another thread can get in between.  `messages`, `streaming`,
`pendingCalls`, `token`, `runActive`, `turnPrep`, `transition`, `steering` and
`followUps` are the fields of `InnerState`.  Per caller, `pc` and `run` hold the
position in and the local variables of `run_with`/`run_loop`; `unsent` is the
message that was pushed under the lock and whose `MessageEnd` is still to be
emitted; `edit` is the progress of a reset or a compaction.  `mirror` and `open`
are what a listener has been told: its copy of the transcript, and the event
brackets that are open.

| Actions | Code |
|---|---|
| `PromptMessages`, `ContinueRun`, `RunQueued`, `ReturnToCaller` | `prompt_messages`, `continue_run`, `continuation`, `run_queued_messages` and the claim in `run_with` |
| `AgentStart` ... `OuterLoop`, `FinishRun`, `ReleaseRun` | `run_loop`: the inner loop with its four polls of the steering queue, the outer loop over follow-ups, the end of `run_with` and the drop of `ActiveRun` |
| `RequestAssistant`, `StreamStart`, `Reply`, `SkipRequest` | `request_assistant`, `forward_assistant_event`; the responder's answer is a choice of stop reason and number of calls |
| `StartCall`, `FailTruncated`, `BeginTool`, `EndTool`, `JoinTools` | `execute_tool_calls`, `prepare_tool_call`, `execute_prepared_tool`, serial or one thread per call |
| `RuntimePanic` | the `catch_unwind` of `run_with`, for panics of the hook or of a tool's preparation |
| `CompactCheck`, `CompactSnapshot`, `TooShort`, `CompactCount`, `CompactApply`, `CompactRefused`, `CompactAnnounce`, `CompactClear` | `compact_with_summaries` around `compact_if_unchanged`: the look at the lifecycle and the snapshot take the mutex one after the other |
| `Reset`, `ResetAnnounce` | `reset_with_reason` |
| `Steer`, `FollowUp`, `TakeQueued`, `Abort` | the calls of the user interface |

A transcript entry keeps its role, the identity of a submitted message, a
reply's stop reason and number of calls, a result's call and outcome.  Text,
models, usage and thinking are left out.

Four behaviours of this code are not properties of it but worth knowing.
`compact_if_unchanged` compares lengths (`agent.rs` 942), so of two compactions
computed from one snapshot both may be applied, and the second brings back what
the first dropped and drops what came since; such messages count as removed.
Compaction counts the queues, rewrites, and clears them in a later step: a
message queued in between is dropped and not counted in the notice.  Between
compaction's look at the lifecycle (`compaction.rs` 103) and its snapshot (106)
another thread's run may begin, so the snapshot may be of the middle of that run,
calls without results included.  If the whole transcript is replaced before the
cut is applied and has the same length again, that half run comes back.  `torn`
marks a transcript cut from such a snapshot, and `RequestWellFormed` excepts it.  A panic of
the between-turn hook is reported by a message and a `TurnEnd` outside any turn,
although the comment calls it a complete final turn; `EventsNested` allows for
exactly that.  `AbortStopsRun` bounds the replies recorded after an abort; that no
tool begins after one is a guard of `BeginTool`, the check of the token right
before the call, and no property's subject.

### SessionClaim

One action is one file-system operation, because nothing protects a sequence of
them.  `lock` is the lock file (whose, whether its token is written, whether its
modification time is too old); `created`, `exists` and `log` are the session
file.  Each process has a main thread (`pc`) and a heartbeat thread (`beat`),
and the fields of `LockClaim` and `Writer`.  A claim that does not find the lock
stale gives up, as `claim` does.  `Expire` says that `LOCK_STALE` went by
without a heartbeat: for a live owner that is a stall, and their number is
bounded by `MaxStalls`; for a crashed one, and for a lock its owner failed to
remove, it is free.  `Crash` may leave half a line behind.

An operation on the lock file may fail although the file is there, `MaxErrors`
times: it cannot be created, judged or removed as stale (`ClaimFails`), not read
when an append verifies, which counts as held (`VerifyUnread`), neither read nor
removed at the release (`ReleaseFails`) nor removed after its token could not be
written (`TokenFails`), neither read nor touched by the heartbeat (`BeatFails`).
`unread` counts a claim's unread checks, `left` the locks whose owner failed to
remove them.

Lines are whole entries, `Torn` (an unterminated rest) or `Garbage` (an entry
glued to such a rest, which readers skip; a displaced writer whose write fails
after the successor's repair causes that).  Not distinguished: a last line that
lacks only its newline, which `attach` terminates.  `Writer::keep`, fork and clone
belong to `SessionRuntime`.

The release and the removal of a stale lock look and then unlink, and an append
verifies and then writes.  So a file that behaves as an `ExclusiveLog` is
promised only while no live owner stalls and no two waiters find a dead owner's
lock at once; after either, the second waiter removes the first one's new lock,
and with three processes and one crash two writers coexist until one of them
verifies again.  What holds always is `OneLateAppend`: a displaced writer gets
one line in, the one it had verified before, and one more for every check of the
lock that could not read it (`sessionlog.rs` 1536 takes any error but a missing
file for a claim that holds).  Closing an unanswered
session looks at the cached loss flag and not at the lock (`sessionlog.rs`
1372-1376), so a stalled creator deletes the file its successor appends to.

### EventStream and ProviderStream

A process of `EventStream` is idle, trying to get the mutex, waiting on its
condition variable, or expired (its timed wait ran out and it has yet to get the
mutex back, so the state may have changed).  `NotifyOne` wakes any one sleeper,
`NotifyAll` all of them; `WakesEarly` is a spurious wakeup.  A timeout of zero
(`try_push`, `try_next`) is a timed call.  `PushTimesOut` and `TakeTimesOut`
repeat the code's last look at the queue before giving up.

`ProviderStream` adds the two parties of a request.  The worker publishes
events, offering one again as long as neither an abort nor a vanished responder
tells it to stop (`publish`), and offers the final event until its budget is
spent (`deliver_terminal`).  The responder polls, hands events to the listener,
and after an abort waits for the final event no longer than its budget
(`respond_with_credentials`).  A deadline is a number of poll slices, chosen
anew whenever the code sets one.  A provider may fail, or stay silent for ever;
a panic of the worker is not modelled, and Bedrock's own untimed `push` is
covered by `EventStream` only.  A final event wakes consumers only; a second
pusher asleep at a full queue would stay there, but no stream has one.

### TurnPolicy

Every prompt is a thread that runs `run_prompt`: an optional compaction, one run
of the agent, and `finish_run`.  A run of the agent is reduced to its claim, its
replies and its release; the detail is `AgentLoop`'s.  The requests that
`RequestsBounded` counts are those of runs; each compaction sends one more, for its
summary.  `pc` and `local` are the
threads, `transcript`, `steering`, `runActive`, `streaming`, `cancelled`,
`transition` and `aborts` the agent's fields, and `ui`, `event`, `result`,
`notice`, `turnPending`, `shown` what the interface of `main.rs` knows: it drains
three channels one after the other before it looks at the keyboard, and decides
from what it has drained whether a line starts a prompt or steers one.

| Actions | Code |
|---|---|
| `PromptAgent`, `Reply`, `EndRun`, `ReleaseRun`, `RunQueued`, `ContinueRun` | a run as `finish_run` sees it |
| `Look`, `Arm`, `WakeUp`, `DropLast` | classification of the last reply, the pause before a retry, and dropping the failed reply by `set_context` |
| `CheckQueue`, `Measure`, `ApplyCut`, `AnnounceCut` | continuation of queued messages, threshold and overflow compaction |
| `Interface` | Enter, Esc, `/new`, and the draining of the channels |

Observations: Esc during an overflow compaction is not seen, nor is one between
the wake-up and the claim of the retry; when an overflow compaction fails the
failed reply stays dropped; an error of `maybe_auto_compact` ends the prompt
without sending it; `AgentEnd` clears `turn_pending` before the retry's notice is
drained, so a second prompt may start in the pause and have its reply
overwritten; a line typed between the thread's end and the draining of its
result is steered to an idle agent (`main.rs`, about line 1301).

### SessionRuntime

`log` is each session file as its sequence of entries, named by their lines;
`context` is the agent's transcript, `turn` the prompt thread between an event
and its recording, `keep` and `leaf` the fields of `RecorderState`.  `Restore` is
the fold over the path from an entry to the root.  `ui` is the operation the
interface is in; labels, names and settings are left out.

| Actions | Code |
|---|---|
| `Submit` ... `RecordCut` | the prompt thread: messages, retries, recovery, compactions, each followed by its event's recording (`bridge_agent_event`) |
| `Reset` | `reset_with_reason`: refused while the agent runs, recorded by the thread that resets |
| `BeginMove`, `GiveUp` | `require_idle`, `require_recording`, and the ways an operation ends before anything is changed |
| `PlanFork`, `MoveLeaf`, `MoveFails`, `ReadBranch` | `fork_to`: the plan, the move of the write head with its note and its sync, `restored()` |
| `SwitchTo`, `CloneSession`, `ImportSession` | the file of the other session is opened or written |
| `SetContext`, `Swap` | `Agent::set_context` at the end of a rewind, or in `adopt` before the recorder gets its new writer and closes the old one |
| `Restart` | the end of the process, by closing or by dying, and a resume |

`apart` marks the four ways file and transcript are known to part:

* The idle check of a rewind or a change of session is made once, looks only at
  `is_streaming`, and `set_context` is unguarded.  A retry that ends its pause
  meanwhile runs beside the operation, and what it records after the branch was
  read (`session.rs` 757-759), or after the transcript was set and before the
  recorder was swapped (942-951), is in a file the transcript does not come from.
  The same mark covers an entry above 16 MiB, which is skipped while recording
  goes on (`EntryTooLarge` is no recording failure).
* A retry's `set_context` from a snapshot taken before another operation was
  accepted in the pause.
* A cut applied to another conversation (below).
* A transcript replaced while the recording of a message or of a compaction is
  pending.

A rewind, a switch, a copy or a restart that is not itself crossed realigns them.

A cut can be applied to another conversation because `compact_if_unchanged`
compares lengths only (`agent.rs` 941-948), and a rewind or a switch is accepted
while the summary is generated.  If it leaves a transcript of the same length,
the summary and the messages of the old conversation replace the new one, and
are recorded in the session that is open now.  The comment (`agent.rs` 906-908)
says the call "refuses to apply a cut that no longer matches the transcript".
`ResumeSame` therefore promises nothing after such a cut, until the next rewind,
switch, copy or restart.  A rewrite of retained messages that
fails half-way leaves copies without a marker.  `latest_tip` follows the newest
child at each level, which need not be the newest entry.

### CredentialStore

One action per file-system call or lock operation of a thread in `get`,
`modify`, `resolve_stored_oauth`, a login or a removal.  `disk` is `auth.json`
with its stamp (every write makes a new inode), `writer` and `flock` the two
locks, `cache` the stamped cache and `failure` the remembered refresh failure of
each process.  A login is a token; the server takes its refresh token once
(`spent`), and `parent` says what it was refreshed from.  `AnswerLost`,
`StorageFails`, `StoredButFails` and `Crash` are the faults, `ForeignWrite` an
editor that knows of no lock.

Not modelled: the in-memory store; a file system without modification times; a
failure to open the lock file; the crash of a process that does not hold the file
lock (it leaves nothing behind); a login of the same provider by somebody who
takes no lock.  A foreign write between the reload and the rename of a `modify`
is lost; `ImplementsMap` names that exception (`RacedStore`).

### SideThreads

The threads (`made`, `turns`, `queue`, `activity`), the workers (`StartNext`,
`Respond`, `EnterCompletion`, `RecordTurn`, `FinishActivity`, `Snapshot`, `Save`,
`Finish`: `run_next` of `btw_runtime.rs`), the prompt thread, whose runs are told
by events and whose end by a result, and the interface (`Prompt`, `NewThread`,
`SaveNew`, `Resume`, `Ask`, `AskLater`, `Refused`, `Escape`, `SeeEvent`,
`SeeResult`).  `/btw` makes and saves a thread whatever is going on, and only
then asks whether the interface is busy.  A reply may call itself cancelled or
aborted although nobody cancelled it (`btw_runtime.rs` 568, 742, 805): its
question counts as cancelled, no turn of it is recorded.

The interface takes any result for the one it waits for, so what it shows is
promised only for a question asked while nothing else was on its way
(`ShownIsOwn`).  Otherwise: in the tail of a prompt thread `/btw` is accepted and
the prompt's result is taken for the answer, which then shows as cancelled, is
never shown, and is out of Esc's reach.  A question asked again on a thread that
is still running stays in its queue until the thread is asked once more, and then
the older one runs.  Two saves that cross may leave the older snapshot in the
session (`crossed`).  After `/resume` the threads of the old session are saved
into the new one (`runtime.rs` 755, 1148).  Not modelled: thinking levels,
clearing a queue and follow-ups (no caller), restoring saved threads, the caps of
`encode_threads`, failing writes.

### Planner

Windows with two threads each, the interface's and the agent's.  `mem` is the
manager's state, `file` the shared state with its fingerprint, `seen` the
fingerprint a window last wrote or read; `at`, `todo` and `held` are the stage,
the rest and the locals of an operation.  One action is one hold of the manager's
mutex or one file operation; the lock on `seen` is held across an adoption or a
save.  Further adoptions are the free action `Sync`.  Initially there is no file,
or one that a window left while executing.  A fingerprint is a number; a version
may get that of the version before (`Rename`, `twin`), as the code's fingerprint is
the file's time and length.

`apart` marks windows whose memory and file may differ for good: after a failed
save, and when two threads of one window change the state and save it after
releasing the mutex, in the other order.  `alone` marks an operation that nobody
interfered with.  Marks may be lost between one window's adoption check and
another's save, an adoption may overwrite a toggle whose save is pending, and an
approval does not look at what another window saved meanwhile.  Not modelled: the
prompt and the tool list, which may be stale until the next turn ends while
`guard_tool` still blocks; the copy in the session log; malformed or removed
files; plans that arrive with finished steps or return to an earlier version; a
file whose fingerprint is that of a version older than the one before, which needs
three saves within one tick of the file system's clock.

### RalphLoop

The records and task files in use (`live`, `task`) and archived (`arch`,
`archTask`), changed by sessions and by `goshcoder ralph`, which is a session
that gives one command and dies.  Each is one sequential actor: the interface
refuses to change a loop while its agent works.  `pc` and `op` are the stage and
the locals of its operation; every step reads or writes one file, and no lock
makes a sequence of them atomic.  `promised`, `crossed`, `worked`, `lost` and
`op.stale` record what was started, whose copy was overtaken, and what became of
each iteration's prompt.

A write fails before the file is replaced (`StageFails`) or after it: `atomic_write`
renames and then syncs the directory, and reports a failing sync as a failing write
(`ralph.rs` 1784-1785, `SaveUnsynced`).  The record then says iteration n + 1,
`ralph_done` returned an error and queued no prompt, and the next `ralph_done` goes
on with n + 2: the iteration between is never worked on.  `InStep` counts it as
lost with that write.

Observations, all of them excepted by name in the properties: a stop or a
completion between another session's read and write is overwritten, and the loop
goes on; a loop without an owner, from an older version, is taken over by every
session without recording one, and each advances it; archiving a second loop of
the same name overwrites the first; an archive racing a start removes the new
loop; the queue a compaction clears may hold the next prompt; a queued prompt may
be delivered for a loop stopped since.  Not modelled: reflection and pacing, the
system prompt, unreadable records, commands that only look.

## 3. What the runs check

| Run | Properties | Instance and why it is enough |
|---|---|---|
| `agent_tools` | `RequestWellFormed`, `PendingExact`, `AbortStopsRun`, `EventsNested` | one caller, two messages, two tool turns of up to two calls, an abort, a message taken back, a panic in a tool's preparation: two calls are what order and pairing need, two turns what a leftover of the first needs |
| `agent_queues` | `ExactlyOnce`, `SteeringInOrder`, `OneWriter`, and the refinement of `TranscriptFeed` (`RecorderFollows`) | two callers, three messages (a prompt and two that are queued), one edit of every kind, a hook panic |
| `agent_liveness` | `RunsReturn`, `QueuedDelivered` | two callers, one of which can get in between the other's run and its look at the queues; an abort and a message taken back |
| `claim_faults` | `OneLateAppend`, `NoLockLeftBehind`, `AckedReadable`, `LossNoticed`, `ClaimReturns`, and the refinement of `ExclusiveLog` (`ImplementsExclusiveLog`) | two processes, three claims attempted in all (an owner can come back for the lock it lost), two appends (the second is one too many, the first after an unread check too), one stall or crash, one failing operation on the lock file (a lock its owner could not remove lets both find it stale at once), any write failing |
| `streams` | `FinalMessageLast`, `NoLostWakeup`; `HeardWhole`, `WorkerLetGo`, `AbortReturns` | two pushers, two takers, a watcher and a queue of two, timed and untimed calls in each role; and one request of four events with budgets of up to two slices |
| `turn_policy` | `RequestsBounded`, `AbortEndsBackoff`, `PromptReturns` | one prompt with every outcome of a reply, one retry, one steered message, one Esc, resets; the proofs cover several prompts |
| `credentials` | `WritersExclusive`, `ReadsAreFresh`, `StoredLoginUsable`, `RefreshedOnce`, `LoginHonoured`, and the refinement of `CredentialMap` (`ImplementsMap`) | three threads in two processes, three tokens (a login, its refresh and another login), two expiries, one fault |
| `session_resume` | `ResumeSame` | two sessions, five events of which one may be a fault (messages, summaries, rewinds, resets, restarts), any number of switches |
| `side_questions` | `EachQuestionOnce`, `ShownIsOwn`, `AnswersSaved` | two workers, two threads, three questions (one can wait while another runs), one prompt of two runs |
| `shared_files` | `SharedStateKnown`, `MarksKept`, `ApprovalRespectsToggle`; `LoopKept`, `InStep`, and the refinement of `LoopRecord` (`RecordFollows`) | two windows, two steps, two plans, three operations and one fault (a failed save or a version like the last); two sessions, one loop of three iterations (an iteration can be skipped and one follow it), four commands, tool calls or breaks, one of them a death or a failed write |
| `turn_lost_reset` | `OnlyFailureLeaves`, violated | two prompts |
| `session_stale_summary` | `ResumeExact`, violated | six messages, no fault |

Every run explores its instance completely, the largest (`session_resume`, 4.2
million states); none needs more than four minutes.

Counters are capped by guards on constants that start with `Max`.  Those that
count calls, appends, claims, messages and pushes bound data, the others what the
environment does.  The theorems hold for all their values.  Type invariants are
proved or used as part of an inductive invariant and no longer model-checked.
`CHECK_DEADLOCK FALSE` is set where the system may really stop: a stream on which
nobody calls any more, a conversation nobody goes on with.

### Where the code and its comments disagree

Two runs expect a violation.  Each checks what the source says of itself.

* `turn_lost_reset`: a retry is to leave only the failed reply out of the
  context.  It restores a snapshot taken before the pause, so a reset (or
  anything else accepted in the pause) is undone.
* `session_stale_summary`: what is restored is to be what the agent had.  When a
  second compaction retains messages from before the first, the older summary
  reappears behind them (`sessionlog.rs` 545-549, `session.rs` about line 1042).

## 4. Fairness

* `AgentLoop!FairSpec`: weak fairness of each caller's loop, of its edit and of
  each tool call.  They are threads that run on their own, hold the mutex for
  bounded work and wait for nothing but the responder and the tools, which this
  assumes to answer (an abort and the budgets of `ProviderStream` are why they
  do).  Nobody has to prompt, steer, abort or panic.
* `SessionClaim!FairSpec`: weak fairness of main and heartbeat threads.  Opening,
  appending and closing is up to the user; failures and crashes are never due.
* `MCStreams!MCSpec`: timers fire (weak fairness of the slices of both parties).
  `WorkerLetGo` adds only that the worker's thread runs, so the listener may hold
  the responder for ever; `AbortReturns` adds only that the responder's thread
  runs and the listener returns, so the worker may be wedged.
* `TurnPolicy!FairSpec`: each prompt thread runs; its pause is a timed wait.  The
  user does nothing of necessity.
* `SideThreads!FairSpec`: workers run and the responder answers; the interface
  drains its channels and finishes a command it has begun.

The other specifications state no fairness; their properties are safety.

## 5. What is proved

The theorems hold for every value of the constants that satisfies the modules'
assumptions: bounds are natural numbers, a "nobody" value (`NoThread`, `NoProc`,
`NoEvent`) is not among those it stands beside, the roles of a stream's threads
are disjoint and its pushers finitely many, its capacity is positive
(`with_capacity` refuses zero), every thread of the credential store belongs to a
process, and a compaction's own summary is no message a user submitted.

| Theorem | States |
|---|---|
| `AgentProofs!TypeCorrect`, `MutualExclusion` | types; `[]OneWriter` |
| `AgentProofs!PendingIsExact` | `[]PendingExact`: the pending set is exactly the calls that run |
| `AgentProofs!AbortsStop` | `[]AbortStopsRun`: after an abort at most one more reply is recorded |
| `AgentProofs!EventsAreNested` | `[]EventsNested` |
| `AgentProofs!RecorderKeepsUp` | `RecorderFollows`: `AgentLoop` implements `TranscriptFeed` |
| `AgentProofs!RequestsAreWhole` | `[]RequestWellFormed`: each request pairs calls with results, unless the transcript is `torn` |
| `AgentProofs!DeliveredOnce` | `[]ExactlyOnce`: no message lost or doubled |
| `AgentProofs!SteeringKeepsOrder` | `[]SteeringInOrder` |
| `TurnPolicyProofs!TypeCorrect`, `EscEndsTheWait`, `RequestsAreBounded` | types; `AbortEndsBackoff`; `[]RequestsBounded` |
| `SessionClaimProofs!AtMostOneLate`, `LocksAreGivenBack`, `AckedStays` | `[]OneLateAppend`, `[]NoLockLeftBehind`, `[]AckedReadable` |
| `SessionClaimProofs!ClaimImplementsLog` | `ImplementsExclusiveLog` |
| `StreamProofs!TypeCorrect`, `NothingAfterFinal`, `NoWakeupIsLost` | types and the queue's bound; `[]FinalMessageLast`, `[]NoLostWakeup` |
| `StreamProofs!RepliesHeardWhole` | `[]HeardWhole` |
| `CredentialProofs!WritersExclude`, `ReadsNeverOld`, `LoginStaysUsable`, `RefreshesOnce`, `RefusalsAreTrue` | `[]WritersExclusive`, `[]ReadsAreFresh`, `[]StoredLoginUsable`, `[]RefreshedOnce`, `[]LoginHonoured` |
| `CredentialProofs!StoreImplementsMap` | `ImplementsMap` |
| `SessionRuntimeProofs!Invariant`, `AppendOnly`, `HeadNewest` | `[]SessionInv`; no line of a file is changed or removed; the write head is where a resume would go on |
| `SessionRuntimeProofs!MovesResume` | a rewind sets the transcript that the file restores to, unless something was recorded since the branch was read; a change of session or a restart that of the file written from then on |
| `SessionRuntimeProofs!MessagesResume`, `ResetsResume` | a message lengthens what the file restores to by itself; a reset empties it |
| `SessionRuntimeProofs!CutsResume` | a compaction restores to its summary and exactly the messages it retained |
| `SideThreadsProofs!QuestionsAreAnsweredOnce`, `AnswersAreShown` | `[]EachQuestionOnce`; `ShownIsOwn` |
| `SharedFilesProofs!SharedStateAlwaysKnown` | `[]SharedStateKnown`: an up-to-date window agrees with the file |
| `SharedFilesProofs!MarksAreKept`, `ApprovalAlwaysRespectsToggle` | `MarksKept`; `ApprovalRespectsToggle` |
| `SharedFilesProofs!StartedLoopsAreKept` | `[]LoopKept`: a started loop is there with its task |
| `SharedFilesProofs!RecordsFollowTheirLife` | `RecordFollows`: every record implements `LoopRecord` |
| `SharedFilesProofs!IterationsKeepInStep` | `InStep`: no iteration handed out twice, none skipped but for a prompt that went away or a write that failed late |

The inductive invariants, and why the properties alone are not inductive:

* **Agent, who writes.** `SlotInv` ties the three flags of the mutex to the
  callers' positions: `runActive` holds exactly while some caller is in the loop,
  `turnPrep` names the caller inside its hook, `transition` holds exactly while
  some caller's rewrite is unannounced.  `OneWriter` does not say why a claim is
  refused.
* **Agent, runs.** At most one thread is in a run, so `RunsWell` says of that
  thread, phase by phase, what the flags, the token, the pending set and the open
  brackets are; `RestsWell` says what is left when there is none, and
  `ThreadsWell` types the locals.  `FeedInv` relates the listener's copy to the
  transcript: equal but for the one message pushed and not yet told.
* **Agent, transcript.** `TranscriptInv`: the transcript is whole except for the
  batch that is open on its last reply, snapshots are whole, and cutting a whole
  transcript at a user message leaves it whole.
* **Agent, messages.** `PlacesInv`: every message is in exactly one place: not
  yet submitted, queued, in a thread's hands, in the transcript, or removed on
  purpose; a thread has messages in its hands only in the phases that carry some,
  and a snapshot holds only messages told or removed.  `OrderInv` states the
  order as a relation on messages: what was told or snapshotted precedes what a
  thread holds, which precedes what is queued.  `PaceInv` says per phase how much
  of the steering queue the turn may still record in one-at-a-time mode.
* **Turn policy.** `Budget`: what a thread has sent, plus what its remaining
  attempts and the messages still waiting entitle it to, is within the bound.
  Each reply that is no error restores the attempts but uses up a message or the
  single recovery.
* **Session claim.** `LateInv`: a claim whose late appends exceed its unread checks has lost its
  lock for good, since a token is written once, and is past the point where it
  could write before verifying again.  `OwnerInv` and `HoldInv` say, up to the
  two exceptions, that a claim past its creation has the lock under its own
  token; `FileInv` and `LogInv` follow the last line through tail repair, append
  and rollback.  The refinement then maps each step to a step of `ExclusiveLog`
  or to none.
* **Session runtime.** `FileInv`: every line hangs from an earlier one, and while
  recording goes on the write head is the newest line.  The latter holds of a
  rewind for a reason: one that leaves nothing behind and so writes no note does
  not move (`StaysAtHead`).  `TalkInv` types the conversation and keeps the
  transcript equal to the cut that is about to be recorded.  `MoveInv` says what a
  move has in its hands: unless `apart`, the branch it read is still what the file
  restores to, and the file it opened is untouched.  What a file restores
  to is a recursive function of its lines.  Lines are numbers, so an induction
  over them becomes a least counterexample (`Smallest`, from the
  well-foundedness of `<`), and so it is proved what a path is and that it rises
  (`PathGrows`, `RisingPath`), that a written line never changes the path to an
  older one (`PathStays`), that filtering distributes over concatenation
  (`FilteredConcat`), that the tip of a branch exists (`TipType`), and that a
  compaction's pointer finds on the branch what it was computed from
  (`TailFound`) while its copies are found again in order (`CopiesFound`).
* **Event stream.** Counting: each event taken frees one place and wakes one
  pusher, each accepted push uses up one of both; a push is accepted on an open
  stream only.
* **Provider request.** The worker's count of offers equals what entered the
  stream, or one more while the last offer is out; what entered is what was taken
  and then what is queued; what was taken is what the listener heard, or one more
  in the responder's hands; the final event is the last.
* **Credentials.** `LocksInv`: a thread is past the taking of a lock exactly if
  it holds it.  `ReadInv`: stamps grow along a read, and a cache entry is never
  newer than its stamp allows.  `TokenInv`: who asks the server asks about the
  stored login, and logins on their way to the file are new, unspent and
  distinct; so the stored one is spent only while its successor is on the way.
  `RefusalInv`: what was read was stored once and is never on its way again; so a
  remembered refusal concerns a spent or a replaced login.
* **Side questions.** `SlotInv`: a thread's request is one worker's, and the
  worker's position shows in the thread's activity.  `HomeInv`: a question never
  leaves its thread.  `OrderInv`: recorded before served before waiting.
  `CancelInv`: a question is cancelled exactly when its request is stopping or
  was given up.  `AloneInv`: while a question asked alone is waited for, the
  interface is busy and only that question's worker moves; so the result that
  ends the wait is its own.
* **Planner.** `PlannerInv`: one thread of a window holds the lock of `seen`; whoever
  carries the file's fingerprint carries its state (`Carries`), unless the file is a
  twin of the version before; what memory holds between an adoption's load
  and its put, or between a save and its fingerprint (`OnTheWay`).  These say
  why a window that stops being busy is right again, which `SharedStateKnown`,
  silent about busy windows, does not.  `Trusted` follows a thread that no other
  save overtakes: it knows the file, and what it is about to save keeps the
  file's marks; that is `MarksKept`, a property of the one step that saves.
* **Ralph loops, files.** `RalphInv`: what an operation's kind and its stages
  still to come may be at each stage (`ShapeOf`), and what the four files still
  hold of what it read and wrote, unless somebody else wrote its loop (`Fresh`).
  `LoopKept` speaks of the files only; a crash between two stages keeps it
  because the archive's copy is complete before the first file goes.  From
  `Fresh` every write is also a step of `LoopRecord` or none.
* **Ralph loops, iterations.** `StepInv`: a run being started is nobody else's
  yet (`Newborn`); an iteration about to be handed out is ahead of all handed out
  (`Ahead`), the one before it is worked on or lost (`Behind`); no prompt is ahead
  of its record (`Counted`), and who owns an active loop has, had, or is about to
  get its prompt (`Handed`).  The steps that write no record keep this by one
  frame lemma, `CalmKeeps`; the writing of a record is the real case
  (`SaveKeepsActors`, `SaveKeepsLoops`).

`PlannerInv`, `RalphInv` and `StepInv` were checked by TLC as invariants of the
scenarios of `MCSharedFiles` before they were proved, and TLC corrected them.
The formulas of `SessionRuntimeProofs` were checked on the instance of
`session_resume`; no run repeats them.

Model-checked only:

* the liveness properties (`RunsReturn`, `QueuedDelivered`, `LossNoticed`,
  `ClaimReturns`, `WorkerLetGo`, `AbortReturns`, `PromptReturns`,
  `AnswersSaved`): the prover has no rules for fairness and ENABLED;
* `ResumeSame`.  Its parts are proved step by step: what a message, a reset, a
  compaction and a move leave to resume.  The whole needs, for every branch of
  every file, that what a resume finds between a compaction's pointer and its
  marker is what the agent had, which rests on each message being shown once on
  each branch; that invariant is not stated here.

## 6. What is not modelled

* Pure data transformations: wire formats, SSE parsing, token estimation,
  Markdown, edits and globbing, HTML export, image and quota parsing, LLM types.
* Sequential request-and-response code: gateways, web access, Meta Muse, browser
  and device logins, reading and writing of prompts and resources, configuration
  and start-up.
* **Coding tools.** What a batch of calls does to a run is in `AgentLoop`.
  Between themselves calls meet only in `FileMutationQueue`, one set of busy
  paths under one mutex and condition variable.
* **Computer use.** One mutex is held over the whole call, so calls are
  sequential, and a failed one kills the child with its pipes.
* **Grok accounts.** The chain a request tries is a local of one subscription;
  the account shared with others is in the credential store.  Two things seen in
  reading: a fresh login in another process, or of the first account, does not
  clear `recent_exhaustion`, and a user's `use` while a request is failing is
  overridden by the rotation.
* **A panic of a provider's worker**, which the responder sees only through its
  own budgets; rendering, pickers and the other commands of the interface; model,
  prompt and thinking-level setters; listing, labels, names, export and migration
  of sessions.

## 7. What could come next

Every safety and action property of a passing run is a theorem, except
`ResumeSame`.

1. The invariant of branches on which all of `ResumeSame` could rest: on every
   branch each message is shown once, and a note of a rewind among retained
   messages is itself retained.
2. Components not modelled yet, first `FileMutationQueue` of the coding tools and
   the rotation of Grok accounts.
