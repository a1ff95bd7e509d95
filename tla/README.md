# jetsonlocalai, in TLA+

`jetsonlocalai` runs a local assistant ("Hermes") on a Jetson board. The agent
itself is a language model behind a gateway; everything that can spend money,
issue a tax document, send a mail or write shared state is kept *out* of the
agent, in small deterministic programs the agent reaches over Unix sockets or
through a plugin. This project models those programs. Paths below are relative
to `src/hermes-agent/`.

## 1. The system

| part | code | state it keeps | operations |
|---|---|---|---|
| invoice broker | `invoice-relay/hermes_greeninvoice/` | sqlite table `calls` (one row per gated call), the cached JWT, a directory of previews, four worker permits | `reserve`, `finalize`, the reaper, the operations of `_OPS`, `TokenCache.get`, the accept loop |
| mail relay | `mail-relay/hermes_mailer/` | sqlite table of sends, the allowlist file and its last good version | `handle_send`, `reserve`, `finalize`, `load_for_caller` |
| socket daemons | `daemon.py` of both brokers, `_client.py` of their plugins | worker permits, the connections being read | `_accept_loop`, `_handle_connection`, `call`, `_roundtrip` |
| calendar relay | `calendar-relay/hermes_calendar/` | a JSON file with the calls of the day, Google's token file | `handle_request`, `build_plan`, both transports |
| household store | `plugins/household/_store.py` | one JSON file per list, shared by two processes | `add`, `remove`, `check`, `read`, `clear` |
| household board | `household-board/board.py` | the Telegram update offset, which message shows which list, the last modification time seen | `handle_message`, `handle_callback`, `poll_store_changes` |
| vault plugin | `plugins/vault/` | Markdown notes with frontmatter, temporary files | `vault_write_memory`, `vault_write_observation`, `vault_session_brief` |
| agent plugins | `plugins/{greeninvoice,mailer,familycal,voice}` | the rule keys David allowed for good | one framed request per tool call, the confirmation of an expense |
| backups | `monitoring/hermes-db-guard.sh` | hourly and daily copies of the databases | `backup_db` |
| vault crons | `vault-crons/` | the conflict inbox, the health block in the daily note | `vault-conflict-scan.py`, `vault-health.py`, the digest |
| embedding server, installers | `bge-m3-embedding/`, `*.sh` | none of their own | deployment |

The agent calls a plugin; the plugin sends one framed JSON request to a broker
daemon; the daemon identifies the caller by its socket's peer credentials, runs
the request on one of four worker threads, and answers. GreenInvoice, S3, SMTP,
Google and Telegram are the outside. The brokers share nothing with each other;
the household store is the one piece of state two programs write.

Where the difficulty lies:

- the invoice broker must never issue a document twice or give one away free,
  while answers get lost, requests are retried, reservations expire under a
  call in flight, and the daemon dies between reserving and finalizing;
- the mail relay must charge every mail that may have gone out, under limits the
  operator changes while calls are in flight;
- both limiters count with a clock reading and a day label taken *before* the
  transaction that counts, by several workers at once;
- the token cache reads without its lock;
- the daemons read requests in whatever pieces clients send them, and a client
  may stop in any of them, or give up and leave its request behind;
- the calendar relay is one thread over two files it rewrites in place;
- previews, notes, conflicts and snapshots are files that several programs write
  without a lock, and any of them may die between two system calls;
- the board displays a store another process writes, and learns of taps from a
  queue that repeats them after a crash.

`PROJECT.json` lists each hazard at its line with the properties that cover it.

## 2. What is modelled

### `QuotaLedger`: what a limiter promises
The abstract specification: a sequence of slots. `Take` appends one only if in
the ledger that results *no* rolling hour and *no* calendar day of any key is
over its cap, whatever instant the slot is stamped with; `Settle` makes held
slots final; `Free` gives one back. No clock, no workers, no crash.

### `RateLimit`: `ratelimit.py` and the workers that use it
`calls` is the table (a row's id is its position), `clock` the wall clock, `up`
whether the daemon runs, `task` the locals of each worker. One action per step
between which another thread, the clock or a crash can intervene:

| action | code |
|---|---|
| `Label` | `_run_gated` computes `local_day_str` (handler.py 344-347) |
| `ReapFirst` | the reaper's own transaction at the head of `reserve` |
| `ReadEpoch` | `now_epoch`, before `BEGIN IMMEDIATE` |
| `Admit` / `Deny` | the transaction: two counts, then INSERT/COMMIT or ROLLBACK |
| `Finalize` | `UPDATE ... AND status='reserved'` |
| `Abandon` | sqlite raises, `handle` answers `internal_error` |
| `Crash`, `Restart` | the daemon dies with its workers; `main` reaps on its way up |
| `ClockMoves` | time passes, or NTP or an operator sets the clock |

`LedgerSpec` states that this implements `QuotaLedger` under the mapping
reserved -> held, committed/unknown -> spent, failed_pre_send -> freed.

### `InvoiceBroker`: the gated operations over that limiter
Extends `RateLimit`; every broker step that touches the table is one of its
actions. A holding worker has an exchange `net[w]` (leg, retries used, whether
it waits for an answer); `wire` holds requests that left and that GreenInvoice
has not handled, whatever became of their sender; `effects[r]` counts what
GreenInvoice really did for row `r`, which no part of the code can see;
`reply[r]` is what the caller was told. `Send`, `TimeOut`, `Resend`, `GoToS3`,
`MalformedUrl`, `Succeed`, `GiveUp`, `CannotSend` are the paths of `_http`,
`request`, `_do_upload` and `_execute_reserved`; `Escape` is an exception out of
any of them; `Serve` is GreenInvoice or S3, which may handle a request and
answer any status, late, or not at all.

What is assumed of GreenInvoice (it is not in the repository): a 2xx answer means
the request took effect, a clean 4xx (401 and 429 included) that it did not,
a 5xx or no answer means nothing; asking S3 for an upload address has no effect.
These are the assumptions `_execute_reserved` and the retry rule are built on.

### `TokenCache`: `auth.py` and the request loop that uses it
Tokens are numbered as they are issued; `token` and `expires` are the two fields
of the cache, `lock` its lock, `ends` and `revoked` say when GreenInvoice ceases
to honour a token, `thread[w]` holds the locals of a worker. The unlocked reads of `get` are three steps
(`CheckToken`, `CheckExpiry`, `ReadToken`), the refresh is `Acquire`, `Recheck`,
the fetch (`Fetched` or `FetchFails`) and two assignments (`StoreExpiry`,
`StoreToken`), `invalidate_if_current` is `Compare` and `ClearExpiry`. `Refused`
is the 401 branch of `request`, which re-authenticates once; `Ends` and `Again`
are its other branches. `Tick` and `Revoke` are the world. `InvoiceBroker` lets
any exchange be answered 401, which is all a stale token can cause there.

### `ShoppingList` and `HouseholdStore`: `plugins/household/_store.py`
`ShoppingList` is what a list promises: a mark (`absent`, `open`, `bought`) for
each item and five changes, `Put`, `TakeOff`, `Tick`, `ClearBought`, `ClearAll`,
each in one step. `HouseholdStore` is the code: two processes, threads in them,
the lock in memory (`mutex`), the lock file (`flock`), and the two files
(`disk`, with `torn` for one that is half-written). A call goes `Call`,
`TakeMutex`, `TakeFlock`, then `Change` (load, apply, validate) or `SaveNothing`,
then `StartWrite`, `FinishWrite`, `Replace` (`write_text` and `os.replace`),
then `Leave`; `CannotLock` and `SaveFails` are the exceptions and `Crash` the
death of a process, which frees its locks and leaves its temporary file. The
operations themselves are `Added` and `Applied`, on sequences of entries as in
the JSON, so that order, duplicates and the limit in the middle of a batch are
really computed. `ListSpec` says the store implements `ShoppingList`; it is
checked on a small instance and proved for all (section 4).

### `HouseholdBoard`: `household-board/board.py`
Extends `ShoppingList`: the board and the agent change the list by its atomic
operations, which is what `HouseholdStore` is proved to make of the file (`StoreIsList`). Telegram is
`updates` (it forgets those up to `confirmed`), the messages `alive` and what
they show; the service is `offset`, `batch`, `registry` (with `saved` for
`boards.json`), `seen` for `_mtimes`, and its place `at` in the loop, which is
cut at every call of the store or of Telegram:

| action | code |
|---|---|
| `Fetch` | `getUpdates` with the offset; its answer may be lost |
| `TakeTap`, `Look`, `TickItem` | `handle_callback`, `it`: read, then check under the lock again |
| `TakeClear`, `TakeRefresh` | `cb`, `rf`, and any callback whose store call fails |
| `TakeList`, `TakeAdd` | `/list` and `/add` |
| `Poll` | `poll_store_changes` |
| `Draw`, `Edit` | `refresh_board` |
| `Post`, `Send`, `SendFails`, `Unpin` | `post_board`, with the registry's save |
| `Crash`, `CannotRead` | the process dies and systemd starts it; a `StoreError` in a redraw |

`Faults` chooses what may go wrong in a run: a call of Telegram (`api`), the
service (`crash`), the store (`store`), the save of the registry (`save`), or a
person deleting the board (`deleted`).

### `MailRelay`: `mail-relay/hermes_mailer/`
The mail daemon has a limiter of its own: a day's limit per recipient, no hourly
cap, and the limit comes from a file the operator edits. `editions` are the good
versions that file has had, `file` the one on disk (0 when what lies there cannot
be read), `cache` the last good one this daemon has read. `sends` is the table,
`task` the locals of each worker, `wire` the mails that left and have not been
dealt with, `accepted` those the provider took, `reply` what callers were told,
and `served`, which the code does not have, the edition used last.

| action | code |
|---|---|
| `Edits` | the operator writes a version, or breaks or removes the file |
| `Load` | `load_for_caller` and `lookup`, under their lock |
| `Label`, `Reap`, `Insert` / `Deny` | `local_day_str`, the reaper's transaction, the counting transaction |
| `CannotSend` | `PreSendError` before anything left |
| `HandOver`, `Accept`, `Drop` | the mail leaves; the provider takes it or not, whoever waits |
| `Answered`, `Rejected`, `Fails` | a message id, a 4xx, any other exception |
| `Finalize`, `CountToday` | `_finalize_or_warn`, then the count and the answer |
| `Escape` | sqlite raises, the daemon's safety net answers |
| `Restart` | the daemon dies and `main` reaps on its way up |

Assumed of the provider: a message id means it has the mail, a 4xx that it will
never send it; anything else means nothing. `LedgerSpec` maps the table to
`QuotaLedger`, as in `RateLimit`: reserved -> held, sent/unknown -> spent,
failed_pre_send -> freed, with the highest limit an allowlist may have as the cap
of the day. `MailsWithinLimit` is the finer statement, about the limit each call
had read.

### `ClientPromise`: what a client of a daemon is promised
The abstract specification of two different doors: `acted` (how often each request
was acted on) and `told` (nothing, done, refused, unknown). `Act` acts on a request
once, and only while its client has heard nothing, or what leaves it open;
`Tell` tells clients that have heard nothing one thing, which is true. So a client that was
refused may call again without fear, and one that does not know may not.
`SocketDaemon` implements it with what the client read (`Heard`), a connection
that was not accepted being a refusal and `internal_error` leaving it open; `CalendarRelay` with the events in
Google's calendar for `acted` and the plugin's error kinds for `told`
(`Learnt`). The two daemons share no code, and the relay acts on requests
whose callers have gone. `PromisesKept` in `MCFront` is both implementations.

### `SocketDaemon`: the door of both brokers and their clients
A connection goes through `backlog`, the states of a worker and `gone`; a client
through connecting, sending and waiting to what it was told in the end. A
request is a header line and, for an upload, a body; `sent` counts the pieces
that matter to the framing (part of the text, the text, the line, part of the
body, all of it), `unread` says that some of them wait for the worker. `acted`
counts how often the operation behind the door was acted on. A whole request may be
refused or accepted: what the checks of the header and of the body's length decide is
left open.

| action | code |
|---|---|
| `Connect`, `SendPart`, `Trickle`, `GiveUp`, `ReadReply` | `_connect`, `call`, `call_with_file`, `_recv_response`; for the mail door `_roundtrip` |
| `Admit`, `Reject` | `_accept_loop`: the permit before the thread; a connection for which there is no permit is refused |
| `Identify` | `_resolve_caller`, peer credentials against the allowlist |
| `ReadHeader`, `ReadBody`, `Deadline`, `TimePasses` | `_read_until_newline`, `_read_exact` under one deadline |
| `Refuse`, `Handle`, `Answer` | the refusals of `_handle_connection`, the handler, the reply and the `finally` |
| `Raises` | the net at the end of `_handle_connection`: an exception before, while or after the handler acts, answered `protocol`/`internal_error`, or by nothing if the net raises too |
| `EndOfProcess`, `StartAgain` | SIGTERM or death (also by a thread that cannot be started, which leaves the accept loop), and `_bind_socket` |

The handler of the mail daemon raises where `MailRelay`'s `Escape` does: in `finalize`,
in `count_today` and in the audit log, after the mail is out. The client then holds an
answer of the class `protocol`, like that of a request which was never acted on.
`ReadReply` therefore takes `internal_error` for not knowing, and `SettledIsTrue` and
the promise say of every *other* protocol error that the request was not and will not
be acted on.

### `InvoiceService`: the invoice daemon as one program
The composition of the two: `SocketDaemon`'s invoice door in front of
`InvoiceBroker`. A connection is served by a thread of its own, so the set of
connections is the set of workers. `Handle`, one step of the door, becomes all
the steps of the broker for the request and coincides with the one that ends the
call; the other steps of the door leave the broker alone, and the other way
round. They die and come back together. `rowOf` is the row each request got,
`answer` what `handle` returned; the line of the connection then carries it to
the client, if it still reads.

| action | code |
|---|---|
| `AtTheDoor` | what `_handle_connection` and the client do before and after `handle` |
| `Begin`, `TurnedAway` | `handle`: the call goes to `_run_gated`, or is answered before (invalid, unconfirmed, an exception) |
| `FallsThrough` | an exception out of `handle`'s own except clauses, which the daemon's net answers |
| `GetsReservation`, `OverTheCap` | `ratelimit.reserve` inside `_run_gated`, and `RateLimitExceeded` |
| `GoesOn`, `Executed`, `Raises` | the exchange; its end in `_execute_reserved`; an exception caught at the end of `handle` |
| `ProcessEnds`, `ProcessStarts` | the door and the workers at once |
| `Outside` | the clock; GreenInvoice and S3 |

`ServicePromised` says that the whole implements `ClientPromise`. `acted` is here
the effect *at GreenInvoice* (`Performed`), no longer a fact of the handler, and
`told` is what the answer means to a client that read it (`Means`): a denial or a
clean failure is a refusal, `ok` says done, anything else leaves it open. So the
promise spans the framing, the permits, the limiter, the retries, requests still
on the wire, and deaths of the process. It is about operations that must not
happen twice; a client update may be applied again by a retry, so it counts
neither as performed nor as told.

### `PreviewSpool`: `previews.py`
Workers list the directory, choose what is to go, unlink it file by file and
write their own file; other workers do the same in between. `files` is the
directory, `listed` and `doomed` the locals of a prune, `told` the drafts whose
path the agent got.

### `InvoiceRequest`: `validate.py`, `_plan_op` and `schemas.py`
No state: which fields each operation takes, needs and drops, the documents that
may be drafted and issued, the client block with its two side effects, and the
tools as the agent is shown them. A value is good, bad or the literal `true`;
the ranges of single values are behind that.

### `ExpenseConfirm`: the gate before `gi_create_expense`
`register` may fail before the hook is in place (`Register`); a call goes through
`PreToolCall` (skipped, blocked, or asked), David's answer (`David`: once, for
good, or no), `Dispatch`, the broker's `CreateExpense`, and `Return`, which a
timeout may precede. `payload_key` and `summary` are operators on the payload,
the body is `InvoiceRequest`'s.

### `EventPlan` and `CalendarRelay`
`EventPlan` is what a calendar request means: the plugin's checks
(`create_event`), the contacts (`resolve_attendee`), the times and guests of
`build_plan`. `CalendarRelay` is the relay: one thread (`server`), the sockets
in its backlog, the quota file and the token file, each of which may be whole,
torn or absent, and Google's calendar (`events`).

| action | code |
|---|---|
| `Ask`, `StopsWaiting` | `create_event` of the plugin, and the timeout of `_roundtrip` |
| `Accept`, `NoTransport`, `Read`, `SendReply` | `_serve_socket`, `handle_request` |
| `TakeSlot`, `QuotaOpened`, `QuotaNotOpened`, `QuotaWritten`, `QuotaNotWritten` | `_ratelimit_check_and_consume`: read, count, truncate, write, each of which may fail |
| `Authorised`, `Refreshed`, `NotAuthorised`, `TokenOpened`, `TokenWritten`, `TokenNotStored` | `GoogleTransport._svc` |
| `Rehearse`, `Insert`, `InsertFails`, `InsertAnswered` | the two transports' `execute` |
| `RelayDies`, `RelayStarts`, `Midnight`, `TokenExpires`, `Authorize` | the world, and `setup-google-auth.py` |

`charged` and `lost` are history: the slots taken on a day, and those no count held.
A slot is lost when the file could not be opened or read, and all that was counted of
the day is when the relay dies, or the disk is full, between truncation and write, or
when the write follows a read that failed (`blind`), which the code takes for an empty
file (server.py 48-51).

### `VaultWrites`: the two writing tools of `plugins/vault/handler.py`
A write is also the file (inode) it creates, so that a name can hold what another
writer is still filling: `memory` and `tmp` say whose inode the memory file and
its temporary name are, `observations` the same for each minute. The actions are
the system calls: `LookForTmp`, `UnlinkTmp`, `CreateTmp`, `Fill`, `Replace`,
`CleanUp` for a memory, `CreateNew`, `FillNew` for an observation, each with its
`OSError`; `GatewayDies` ends all calls where they stand.

### `VaultTriage`: `vault-conflict-scan.py`
`Arises` and `Resolves` are Syncthing and David; the scan is `ScanStarts`, `Visit`
(which finds a free name) or `Overlooks` (`os.walk` has no `onerror`), the move,
`WalkEnds`, `ScanEnds` with the index, `ScanDies`. The move is `shutil.move`:

| action | code |
|---|---|
| `Renamed` | `os.rename`, which replaces what it finds |
| `CopiesPart`, `CopiesAll` | after any `OSError` of the rename: the copy, which stands in part under its final name first |
| `DeletesPart`, `Deleted` | the deletion of the source after it, of a directory piece by piece |
| `MoveFails`, `CopyBreaks`, `DeleteFails` | an `OSError` before anything was copied, in the copy, in the deletion; what there is stays |

`cut` is what the tree holds only a part of, an entry's `whole` whether the inbox
has all of it, and `botched` (history) says at which conflicts a copying scan failed or
died: those may be in both places. `unseen` is what the walk passed over. A conflict
inside a directory that is itself one is a part of it.

### `VaultHealth`: `vault-health.py`
A daily note is David's lines, the lines right below the block, and the number of
blocks. `JobReads` decides on one of three writes; `JobAppends` is the one, the
truncation (`JobOpens`) and the text (`JobFills`) the others, and David writes in
between. `risked` is history: the lines that were where a job may lose them.

### `VaultDocs`: staleness and the session brief
No state: `StalenessStatus`, `ReadWithStaleness` and `Brief` on documents of which
only the two keys matter that staleness reads.

### `DbBackups`: `hermes-db-guard.sh`
One database, its hourly and daily snapshots by version, and the tick that makes
them: `Backup`, `QuickCheck`, `Move`, `CopyBegins`, `CopyEnds` or `CopyFails`,
`Rotate`. The live database may be corrupted at any time and a tick may die
between any two commands.

### How the modules compose
`InvoiceBroker` extends `RateLimit`, which implements `QuotaLedger`, as
`MailRelay` does; `HouseholdBoard` extends `ShoppingList`, which
`HouseholdStore` implements; `ExpenseConfirm` extends `InvoiceRequest`, and
`CalendarRelay` extends `EventPlan`; `SocketDaemon`, `CalendarRelay` and
`InvoiceService` implement `ClientPromise`. `SocketDaemon` stands before
`InvoiceBroker` and `MailRelay`: what it calls `Handle` is one of their calls, and a
worker they let die is its `EndOfProcess`. For the invoice daemon `InvoiceService`
is that composition; for the mail daemon it is left at the two models, whose common
part is that an exception may end the call at any point. The programs in `MCFront` and `MCVault` share no
state with each other, so each of these two runs checks several subjects side by
side: the variable `subject` picks one, and the others stand still. A property
about a subject that stands still holds trivially there and is checked in the
states where it moves.

## 3. The runs

| run | question | bounds, and why they are enough |
|---|---|---|
| `limiter` | do the caps, the slot of a call in flight, and the ledger hold under every interleaving | two workers, one key with caps 1, three calls, four instants with an hour of two and a day of two: a third call meets a cap that two others raced for, at both edges of a window and on both sides of midnight; a TTL of one tick lets the reaper overtake a call |
| `broker` | at most once, charged, capped, honest, and every call ends | two workers upload, with one retry on either leg, under a cap of one: the upload has every path of the code, a non-idempotent operation behind an idempotent one included; two calls and two instants leave room for a crash, a restart that reaps, and a second expense in the next hour |
| `invoice_service` | do the door, the handler, the limiter and the retries keep the promise together | two connections for one permit and a backlog of one; an issue with one retry under a cap of one an hour, and uploads that come in pieces and are refused for their arguments (an upload that goes through is in `broker`, and in the proof); two instants and two calls, so that the second client is refused at the door, denied by the cap, or served in the next hour, while the first has given up or its request is still on the wire; a crash and a restart. Checked for deadlock; connections are interchangeable |
| `update_freed` | violation, finding 1 | one worker, one call, one retry: 5xx, retry, 4xx |
| `token_cache` | no stampede, no reuse of a refused token, no drop of a good one, the lock comes back | two workers (the code's races are pairwise), three tokens and three instants: a refresh, a refusal, a second refresh, and an expiry in between |
| `household_store` | whole file, a right list, the abstract list, the lock file | two threads in one process and one in another, three items with room for two, batches with a duplicate and with an item too many: a batch that must be refused half-way exists |
| `board` | nothing lost, the registry kept | one chat, two updates, three messages: a board, its replacement, and a replacement whose answer was lost |
| `board_shown` | a change is shown | two chats with a board each, two updates, one change of the agent; boards may be deleted and saves of the registry may fail |
| `board_first_write` | violation, finding 2 | one board, one change |
| `mail` | charged, within the limit, true replies, no older list, the ledger | two workers racing for a limit of one or two; two versions of the allowlist, so that a limit is raised, lowered or withdrawn under a call; three instants with a midnight among them; a TTL of zero lets the reaper overtake a send |
| `vault` | do files that several programs write survive races, failing disks and deaths; does the brief warn of what is stale | three writers of one memory (one dead, two racing) and two minutes; two conflicts, a directory and a file, that are encoded alike, one suffix between them, and two days, so that two scans meet each other's leftovers and a third finds no name; three lines of David's; documents of five days and four thresholds around a default of two; five hours of two to a day, two hourly snapshots and one daily or all of them, and one more write of the agent than there are sound copies |
| `front` | framing and permits, previews, drafts against issues, tools against operations, the confirmation, the calendar relay, the promise to the clients of both doors | two connections for one permit and a backlog of one; calls and uploads at the invoice door, calls at the mail door, each refused, accepted or met by an exception; three drafts, two at once, for a directory of one, and four instants over a retention of one; two calls of the confirmed tool with two amounts and suppliers by id and by name; documents with at most one bad field; two calendar calls on two days with a limit of one, and contacts of whom two share a name and one has no address |

`CHECK_DEADLOCK FALSE` is set where the bounded counters stop the system: calls,
mails, tokens, connections, hours and the clock run out. Of those runs, the ones
whose subject waits for something have a liveness property (`CallsEnd`,
`NobodyStuck`, `EveryoneLeaves`, `NobodyWaits`) that a deadlock inside the bounds
would violate. The household runs and `invoice_service`
never stop and are checked for deadlock.

Each property has a mutant of the code in the module, defined just before what
it replaces and commented `Mutant:`, under which TLC finds it violated.

### Fairness
- `FairBrokerSpec`: weak fairness of each worker's own steps, not of the daemon's
  crash, nor of GreenInvoice's answers. Every call of `_http` has a timeout
  (`apiclient.py`), so a worker that waits is one that will go on.
- `TokenCache!FairSpec`: the same for each worker; the fetch has the same
  timeout, so `Fetched` or `FetchFails` comes.
- `HouseholdStore!FairSpec`: a thread in the store runs on. Nothing is assumed of
  the order in which waiting threads get a lock; so only the holder is promised
  to come out, not a waiter to come in.
- `HouseholdBoard!FairSpec`: the one loop runs on (its calls of Telegram have a
  timeout, the store's locks are held for one operation). The agent and the
  family owe nothing.
- `DoorFairness` (in `MCFront`: `Fairness`): each worker's own steps, and the
  clock that its deadline reads. Clients owe nothing: one may send a byte now and
  then, or stop, for ever.
- `CalendarFairSpec` (likewise in `MCFront`): the one thread runs on, each call of
  Google or of the file system returning or failing, and systemd starts a relay
  that died. That a client gives up is not assumed.

### Findings
1. `update_freed`: a client update that was applied behind a 5xx, is retried, and is
   then refused with a clean 4xx, gives its quota slot back; `handler.py` 393-395
   frees the slot only for what definitely had no effect.
2. `board_first_write`: a modification time seen for the first time counts as no change,
   so the write that creates a list's file is not displayed.

Known divergences that no run of their own shows:

- `TokenCache.get` reads the token twice without the lock (auth.py 43-45); an
  invalidation in between makes it return `None` although it promises a `str`
  (`ReadToken` in the model). The request is refused and re-authenticates once.
- A tap negates what the store holds, not what its button showed (board.py 284-289
  against 7-8): a tap that means "bought" can un-buy.
- A document's own threshold can only make it stale earlier: one longer than the
  default of 14 days is ignored (plugins/vault/handler.py 366-377).
- The nightly scan moves conflicts of the agent's own files away, so a later brief
  no longer blocks on them; a scan with scope `vault` counts the inbox too.
- The scan exits non-zero on partial failures (vault-conflict-scan.py 124), but a
  directory that `os.walk` cannot list is none of them: its conflicts stay where they
  are (`unseen` in the model) and the exit code is 0. A move that failed after copying
  leaves the conflict in the tree and in the inbox, where the next scan adds another
  copy under the next suffix.
- The mail daemon answers `protocol`/`internal_error` although its mail may be out
  (mail daemon.py 202-209); PROTOCOL.md 194-201 lists the reasons of protocol errors
  without it.
- The calendar relay takes an unreadable quota file for an empty one and then
  overwrites it: the calls of the day are forgotten (server.py 48-61).
- A second health run swallows the text right below its block (`tail` in the
  model, vault-health.py 218-228); a second scan of a day overwrites `_INDEX.md`.
- `hermes-db-guard.sh` never rotates the daily copies of `kanban.db`, although its
  header (26-27) gives them a limit, and a failing tick still rotates although its
  message says it does not.
- `notify: false` of a calendar request is ignored by the Google transport.
- `GI_ISSUE`'s schema requires `income` although its text says a 400 receipt needs none
  (schemas.py 85, 167-172); the confirmation of an expense shows 40 characters of
  the supplier's id and neither `vatType` nor `currencyRate`.
- A header that ends with the connection instead of a newline is accepted as the
  line; `page: true` is accepted as an integer.

A tap that was handled just before the service died is delivered again and
toggles the item back: `NothingLost` says taps are delivered at least once, and
no document promises that they are delivered at most once.

## 4. The proofs

TLC checks small instances; the theorems below hold for every value of the
constants. Each proof module has the same shape: typing of each action, an
invariant that is inductive, one lemma per action that can disturb it, and the
temporal step.

| module | theorems | assumptions | inductive argument |
|---|---|---|---|
| `InvoiceServiceProofs` | of the limiter: `TypeAndReservation`, `CapsHold`, `SettledForGood`, `ImplementsLedger`; of the broker: `UsesLimiter`, `BrokerTypes`, `NeverTwice`, `NoFreeEffect`, `AnswersAreTrue`, `RealEffectsCapped`; of the service: `ServiceKeepsPromise`, `ServiceImplementsBroker`, `ServiceWithinCaps`, `ReservationsUnderPermits` | on the constants; those on GreenInvoice in section 2; nothing on how the clock moves | limiter: the ids under which workers hold reservations are distinct rows of the right key, at most as old as the table; `Admit` counts every row that could share a window with the new one, later stamps included, so each window of the new table is either an old one or one that was counted. Broker: `IInv` relates each exchange to what the wire may still do and to what has been done: a row whose worker has nothing ambiguous behind it has no effect and no request in flight, so only such a row is freed. Service: the broker's invariant, the door's, and `Links` between them: a thread with a reservation is one that handles, its row is the connection's own and no other's, and an answer is the reply recorded for that row (or a denial without one). That every step of the service is a step or a stutter of both parts (`ServiceStepsAreSteps`) carries the invariants of the parts over; `Links` says that what a client is told is true |
| `SocketDaemonProofs` | `DoorIsTrue` | on the constants | what each state of a worker says of what was sent, received and acted on, an exception leaving it behind with `internal_error`, and that the permits are those not held by a worker; whoever was told something is not told again (`ToldOnce`). One module for both doors, used by the two proofs that build on it |
| `TokenCacheProofs` | `CacheTypes`, `OneRefreshAtATime`, `NewTokenAfterRefusal`, `OnlyDeadTokensDropped` | on the constants | the lock belongs to the one worker in the locked region; while it is in there the cached token changes only by its hand; what a worker was refused with is dead |
| `HouseholdStoreProofs` | `ListStaysWhole`, `NoUpdateLost`, `ListIsRight`, `StoreIsList` | on the constants | the lock file belongs to the one thread in the locked region; what it is about to save is an operation, let through by the limit, applied to what the file still holds, and what is in the temporary file at `replace` is what it is about to save. `ListInv`: the file holds a listing (each key once) within the limit; `OperationsDo`: on any listing every operation gives a listing on which each thing has the mark the operation means for it, in the order it had |
| `HouseholdBoardProofs` | `BoardTypes`, `NoUpdateForgotten`, `BoardTakenUpAgain` | on the constants; the last: no save of the registry fails and nobody else deletes boards | `Counting`: updates below the offset are handled, or in hand; the batch has no gap. `Keeping`: the registry in memory is the one saved, and names messages that exist, of which the one about to be deleted is none |
| `FrontProofs` | `OnlyConfirmedWritten`, `PromisesHold`, `DraftsAreIssued`, `EveryToolFits`, `PreviewsStay`, `QuotaHolds`, `EventsAreJustified`, `CalendarAnswersTrue` | on the constants; `ArgsAssumption`: times and durations of a calendar request are integers or absent | the confirmation: a call past the gate has a yes for its own payload, or for good for one of the same key; and the key is the payload. The tools: row by row, each against that of its operation. The previews: `FilesInv` relates a file's time to the drafts of its name, and what a prune has listed or doomed to the drafts that came since, so that whatever is unlinked was old, taken or crowded out; `AloneInv` counts the directory along a prune nobody ran beside. The calendar: `QuotaInv` compares the slots of a day with what the file, or the thread about to write it, knows of the day, and a thread that read nothing with what its write will forget; `RequestInv` follows a request from its client through the backlog and the thread to the one event it may make. The promise, at each door: whoever was told something is not told again (`ToldOnce`, `AnsweredOnce`), and the same invariants say that what is told is true and that only a client which was not refused has a request that can still be acted on |
| `VaultProofs` | `WritesSurvive`, `ConflictsSurvive`, `NoteSurvives`, `BriefIsRight`, `LastGoodSurvives` | on the constants | once a writer has seen to the temporary name, it holds nothing of a call that had ended when that writer began; the move under way goes to a free name (`FreeDupIsFree`), so no entry is ever replaced but the part it has copied itself; when the deletion begins all of the conflict is in the inbox, and what a scan failed at is the only thing that may be in two places; the job's text has every line not at risk; versions of snapshots grow with their hours, so that the last good one is the newest of a rotation that keeps at least one |
| `MailRelayProofs` | `MailTypes`, `OutIsCharged`, `WithinTheLimit`, `RepliesTrue`, `NoOlderList`, `ImplementsLedger` | on the constants; those on the provider in section 2; nothing on how the clock moves | `Truth`: a worker that has a row has it alone, and knows what its place says of it (nothing left before `connect` is over, `accepted` once it counts). `InLimit`: each counted row was within its limit when it came, and since rows never return to being counted it still is. `cache` is `served` or nothing, and the file on disk is the newest edition or unreadable |

Folds and counting need induction, of which the provers have only the first-order
kind. `LeastOf` (a set of naturals that is not empty has a least element, from the
well-foundedness of the finite subsets) gives `UpTo`, induction for a *set* of
numbers; a formula is proved of all places of a list by naming the set of the
places it holds of. `FoldExists`, `AddedRuns` and `KeptRuns` unfold `FoldLeft` into
the sequence of its intermediate lists that way, and everything `ListIsRight` says
of `add`, `remove` and `clear` is an induction along that sequence. `Kept` is a fold
for the same reason: the prover has no definition of `SelectSeq`.

Not in a run, but proved: `HeldUnderPermit` (`ReservationsUnderPermits`), and that the
service implements the broker (`ServiceImplementsBroker`), from which every theorem
about the broker holds of the daemon behind its door. `UsesLimiter` gives the broker
the theorems about the limiter in the same way, so no run repeats them.

Only model-checked: the liveness properties (`CallsEnd`, `NobodyStuck`,
`LockFileFreed`, `ChangeShown`, `EveryoneLeaves`, `NobodyWaits`), because the
prover does not reason about fairness. Every other property of the passing runs
is a theorem, or a conjunct of one.

## 5. What is not modelled

- Reads (`usage`, quota, searches, `vault_read`), audit logs (of which `_audit`
  catches only `OSError`), configuration from the environment, and wording.
- The machine losing power: sqlite with `synchronous=NORMAL` may lose its last
  commits, and a file that was replaced but not synced may come back empty. A
  crash here is the death of a process.
- Single values of a request: a field is good or bad, not what its range or its
  pattern makes of it. MIME and header text of the mail relay likewise.
- The two places a caller's allowlist may lie in (`_resolve_path`): `file` stands for
  the one that is found; an operator who removes the first brings back the second.
- Two writes of a list within one tick of the file system's clock, which `_mtimes`
  cannot tell apart; several lists (each has its own lock file and state); more
  than 45 buttons; chats that are not allowlisted.
- The refresh of the token inside `InvoiceBroker` (see `TokenCache`); the TCP
  listener, which runs the accept loop of the socket.
- Two conflict scans at once; what a memory
  carries over from the frontmatter it replaces; the digest, `hermes-watch.sh`,
  the voice plugin, the embedding server and the installers; `visiongate.py`, which
  its authors have parked and nothing calls.
- An endpoint, or a direct client of the calendar relay, that sends a byte now and then:
  `urlopen` and the relay bound each receive, not the whole. Threads that wait for
  the token cache's lock: they are promised only that it is given back.
- Required fields inside a field (`ToolsFit` compares the tools' top level); the
  confirmation's cut of a name at 60 characters and its rounding of an amount to two
  places, taken as the identity; an `INDEX.md` that cannot be read or is too large,
  which fails the whole brief.
- A preview that `os.write` writes only in part; a `ratelimit.json` that is valid
  JSON of another shape, which raises.

## 6. What could follow

- `MailRelay` behind its door step by step, as `InvoiceService` does it for the invoice daemon.
- The loss of sqlite's last commits in `RateLimit` and `MailRelay` when the machine
  loses power.
