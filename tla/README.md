# monzo-mcp in TLA+

A verification project for monzo-mcp, an MCP server that gives language-model
clients access to one person's Monzo bank account. It holds TLA+ modules of the
parts of the program whose order of steps matters, TLC configurations that check
them on small instances, and TLAPS proofs of the main results for every size.

Sections: [the system](#the-system), [modules](#modules-and-the-code),
[runs](#runs), [fairness](#fairness), [proofs](#proofs),
[findings](#findings), [not modelled](#not-modelled), [plan](#plan).

## The system

`monzo-mcp serve` is one asyncio process: Uvicorn, a Starlette application with
two middlewares, FastMCP with nine tools, one HTTP client, and one provider of
Monzo access tokens. `monzo-mcp auth login | status | logout` are short commands
a human runs between two servers. What they share is a directory.

| Component | State it keeps | Operations | Talks to |
| --- | --- | --- | --- |
| Encrypted credential store (`credentials.py`) | lock file, key file, encrypted bundle (OAuth client, token); in memory: payload, key, write lock | open, load, save, clear, save_oauth, status, close | file system, worker threads |
| Auth commands (`cli.py`) | the login's `state`, the listener's future and connections | login, status, logout, one callback handler per connection | store, browser, Monzo |
| Local runtime (`mcp/runtime.py`, `mcp/local.py`) | the open store, one provider with one refresh lock | open, serve, close; get_access_token and refresh_after_rejection through the provider | store, Monzo, tool calls |
| Tools (`mcp/tools.py`) | none between calls | nine tools, `_execute`, `_confirm_transfer` | provider, Monzo, the client's human |
| Broker provider (`mcp/broker.py`) | none; one provider per request, with the request's delegation | create, get_access_token, refresh_after_rejection | external broker |
| HTTP gate (`mcp/http.py`) | none between requests; the body being buffered | bearer check, body limit and replay, connection limit | Uvicorn, FastMCP |
| Start of `serve` (`mcp/settings.py`, `mcp/server.py`, `cli.main`) | the settings objects being built | select flag, variable or default; validate; register tools | command line, environment |
| Private file reader (`private_files.py`) | one descriptor | lstat, open, fstat, read | file system |
| Result models (`mcp/models.py`) | none | copying | |

How they interact. A tool call is a coroutine that asks the shared provider for
a token, may refresh it under one `asyncio.Lock`, and through the provider saves
the new pair in the store, whose write runs on a thread under another
`asyncio.Lock`; the file is guarded against other processes by a `flock`. A pot
movement also waits for a human, whose answer comes back as a second HTTP
request that must pass the same gate and the limit on connections. In broker mode each
call brings its own provider, and what calls of one user share is kept by the
broker, out of the server's sight.

What is hard, and what makes each part correct:

* **Store.** Every write is seven system calls on a thread that outlives the task
  that waits for it; a process can be killed and the host can stop between any
  two of them. Correct means: the bundle is never torn, an acknowledged save is
  durable, a failed one changes nothing, no update is lost, only the lock holder
  writes, and a refused open gives the lock back.
* **Login.** The browser, the timer, Ctrl-C and several connections race for one
  future; the OAuth client is saved minutes before the token; a save can fail
  after it took effect. Correct means: one callback is accepted, only one that
  carries this login's own state leads to a token, a failed login leaves the old
  token or the one it was just issued, and the command ends unless it waits for the
  user to type the secret or for `webbrowser.open` to return.
* **Refresh.** Monzo's refresh tokens are single-use, so a refresh is a
  read-modify-write over a network with crashes. Correct means: concurrent calls
  spend each pair at most once and only for a reason, a pair is on disk before it
  is used, and the human is asked to log in again only if a pair was really lost.
* **Pot movements.** Posts time out, clients call again, Monzo may handle a post
  nobody waits for. Correct means: money moves at most once, each post has its
  own approval, success is never invented.
* **Broker calls.** Requests of several users interleave, tokens end at any
  moment, and a question may be answered after its call has given up. Correct
  means: a call only uses its own user's token, a rejected one not twice, a stale
  report spends no refresh token, and the call ends.
* **Start.** Twelve settings come from flags, variables and defaults, and the
  token file can change under the reader. Correct means: whatever widens what the
  server does was asked for, flags win, the token comes from a private file.
* **Gate.** Correct means: nothing is read for strangers, nothing grows beyond
  the limit, the application sees the body once and never the endpoint bearer.
* **Paging.** Correct means: no gap, no repetition, no early end while the
  account grows.

`PROJECT.json` lists every component, and under `hazards` the places in the code
where these things could go wrong, each with the properties that would show it.

## Modules and the code

| Module | Models | State | Actions |
| --- | --- | --- | --- |
| `DurableRegister` | what the store promises | the value, what a power loss may leave, the last acknowledged value | begin, change, settle, acknowledge, crash |
| `LateRegister` | what the store still promises when saves are cancelled and syncs fail | the value, what a power loss may leave, what the holder has read, the changes under way: asked for, in place, made durable | open, begin, land, settle, acknowledge, close, crash |
| `CredentialStore` | `credentials.py` | per process: phase, mode, `_payload`, has `_key`, awaited write; per write thread: its stage; key file and bundle file, each as seen and as on disk | `AcquireLock`, the steps of `_open` and `_create_key_file`, `Save`, `Clear`, `SaveOAuth`, the steps of `_write_payload`, the resuming task, `CancelSave`, close, `Kill`, `PowerLoss` |
| `AuthCommands` | `_auth_login`, `_auth_logout`, `_LoopbackCallbackServer` | the bundle, the number of tokens issued, where the command is, the listener, its connections, its future | one action per step of the commands and per kind of callback; the prompt for the secret and `webbrowser.open`; timeouts; failing saves (`SaveCutShort`); `Interrupt` |
| `LocalServer` | `open_runtime`, the shared provider, `_execute` | the pairs known to Monzo, the directory and the memory; whether the OAuth client beside the pair is the pair's own (`client`); the refresh lock; each call's stage; the pairs that threads of cancelled saves may still write (`orphans`); whether a pair was lost (`broken`) or the newest one written over (`overwritten`) | start, stop, kill, login, logout; a late write; per call: use, need, take the lock, refresh and its ends, save, call and its ends |
| `PotTransfer` | the two pot tools, `_confirm_transfer`, the connection limit | calls, open streams and other connections, human decisions, Monzo's dedupe ids and posts nobody waits for | call, decide, approve, decline, turn away, post, answer, time out, disconnect, cancel, late handling |
| `MoneyPromise` | what the pot tools promise of a transfer | approved, moved, reported as done | approve, move, confirm |
| `BrokerAccess` | `broker.py`, `_execute` in broker mode | each call's headers, delegation and token; the broker's side of each question; the users' stored tokens | begin, no answer, rejected, end; the broker answers, refuses, refreshes; users connect and withdraw |
| `PrivateFile` | `read_private_text_file` | what the path names, the reader's step, its descriptor, the text | one action per system call; the file is replaced |
| `ServerStart` | `settings.py`, `main`, `create_server`, with `PrivateFile` | flags, environment, the settings built so far, the tools served | edit a flag or variable, one action per loader, the reader's steps, serve, stop |
| `TransactionPaging` | `monzo_list_transactions` read page by page | the growing account, the call's query, what was shown | first call, page, failure, next call, arrivals |
| `RequestGate` | the two middlewares | the request's head, the buffered body, the messages the application got | each return and each `receive` of the middlewares |
| `...Proofs` | the proofs about `CredentialStore` (with `DurableRegister` and `LateRegister`), `AuthCommands`, `LocalServer`, `PotTransfer` (with `MoneyPromise`), `BrokerAccess`, `ServerStart` (with `PrivateFile`), `TransactionPaging`, `RequestGate` | | |
| `MC...` | the instance of each module for TLC | | |

The modules meet at two abstractions. `LocalServer` and `AuthCommands` use the
store as a register in which a save takes effect whole or not at all; that the
store is one is `RegisterSpec`, checked and proved for saves that are not
cancelled and directory syncs that do not fail. What is left of the promise under
every fault is `LateRegister` (`LateRegisterSpec`): whole bundles that somebody
with the directory open has asked for, success only of what cannot be lost, but
a change may land long after its caller has gone, over newer ones. `LocalServer`
takes that into account: its save may fail after the file was replaced
(`SaveFails`), and the thread of a cancelled save writes whenever it likes
(`LateWrite`), even over the pair of a later login. `AuthCommands` has the save
that fails or is interrupted after it replaced the bundle (`SaveCutShort`), but no
later write: a login is a process of its own that joins its threads before it
ends, so for a user who runs one command after the other its late write is over
before the next begins. `ServerStart` extends `PrivateFile`: reading the
token file is one stage of the start, interleaved with whoever replaces the
file. `PotTransfer` implements `MoneyPromise`, in which posts, repetitions and
late handling no longer occur (`PromiseKept`). `PotTransfer` and `TransactionPaging` see of the
provider only that a call may be refused.

`PROJECT.json` maps each definition to the lines it stands for. Definitions that
begin with a comment "Variant:" are not part of the specifications: each is a
plausible bug in the definition below it, and putting it in that definition's
place makes TLC report the property listed with it under `mutants`.

Main abstractions:

* A bundle is the pair (OAuth client, token) of model values. Encryption is
  reduced to "the file holds this bundle whole" or `Torn`. Permission checks on
  directories and files are reasons for which opening is refused.
* What a power loss leaves of a file is the set of its contents since its last
  sync; a rename of a file not yet synced may leave it `Torn`.
* Pairs (access token, refresh token) are numbered in the order in which Monzo
  issues them; only the last one is honoured. When a token expires is the
  environment's choice.
* aiomonzo's provider and client, Monzo, Uvicorn, FastMCP, the MCP client and the
  browser are external, modelled from what this repository's code, tests and
  documents rely on: one refresh lock with a second look inside it, one repeat
  after a 401, one movement per `dedupe_id`, lists oldest first.
* A broker keeps one numbered sequence of tokens per user, and a fingerprint is
  such a number. Its side follows `docs/wiki/External-Broker-Mode.md`: it looks
  and refreshes under a lock per user, and refreshes for a fingerprint only if
  the stored token still has it.
* A setting has one value for each thing the code can do with it: take it, refuse
  it in the validator, fail to parse it, or treat it as empty; for hosts also
  whether it is loopback. Settings that are treated alike are one.
* A body is its number of bytes, a transaction its position in the account.

## Runs

| Run | Configuration | Shows |
| --- | --- | --- |
| `store_safety` | 2 processes, 2 write threads, 1 OAuth client, 2 tokens; I/O failures, kills, power losses; symmetry | the store's safety properties and the refinement of `DurableRegister` |
| `store_async` | 2 processes, 2 threads, 1 token, no OAuth client; cancellation, failing directory sync, power losses | the key is durable before the bundle, writes and opens settle (`StoreSettles`), and the refinement of `LateRegister` |
| `store_dirsync` | as `store_safety`, failing directory sync only | violation: a failed save that changed the file |
| `store_cancel` | as `store_safety`, cancellation only | violation: a write after the lock was released |
| `auth_commands` | 2 OAuth clients, 3 connections, 3 tokens | login and logout |
| `auth_together` | the same | violation: a failed login turns a usable directory into one the server refuses |
| `local_calls` | 3 concurrent calls, 3 pairs, all six kinds of fault | the chain of pairs, one refresh per reason, a new login only if the chain broke, every call ends |
| `pot_transfers` | 2 transfers, 3 calls in all, 2 at a time, a limit of 3 or 5, up to 1 other connection | money moves once, with an approval per post; refinement of `MoneyPromise`; with room for answers none is turned away; answered calls end |
| `broker_calls` | 2 users, 2 concurrent calls, 3 tokens per user | own token only, no repeat with a rejected token, no refresh for a stale report, calls end |
| `server_start` | 4 documented environments, 2 changes to flags or variables | nothing is implied, flags override, the token comes from a private file |
| `request_gate` | limit 3 bytes, messages of up to 2 | the gate |
| `paging` | up to 4 transactions at times 0 to 3, pages of 1 or 2, lookback 1 | paging |

Why the bounds are enough. *Store*: two processes make the lock contended, two
thread slots let an orphaned write meet a new one, two tokens tell an old value
from a new one; the process count and the thread count are unbounded in the
proofs. `store_async` has one
token, and so clearing and saving, to stay within minutes: what the tokens add to
late writes is in the proof. *Auth*: two clients tell old from new, three tokens
tell a second login with the same client from the first; of three connections one can win,
one can lose and one can hang. *Local*: three calls are one refresher, one that
waits with a rejected pair and one that waits with an expiring one; three pairs
are two rotations, so that a call can be two pairs behind, and a late write can
put back a pair that was already replaced. *Pots*: the second and third
call of a transfer are retries, the second transfer shows that ids are not
mixed up. Uvicorn counts the new connection before it compares, so a limit of 3
is one too few for two streams and an answer; 5 is just enough for two streams,
one other connection and the answer's own, and 4 is not (the mutant).
*Broker*: of two calls of one user one
reports a token that the other has already had replaced; of two users one could
get the other's token; with three tokens a report can be one token old while the
next refresh is under way. *Start*: from an empty, the example, a local and a
broker environment, two edits reach every flag against every variable of the same
setting and every pair of settings; each started server is judged by itself.
*Gate*: with limit 3 and messages of 0 to 2 bytes the limit is met exactly,
passed by one and by two, in a first, middle and last message. *Paging*: four
transactions give two full pages and an empty one, and several per timestamp.

`pot_transfers` switches the deadlock check off: `MaxCalls` bounds how often
clients call, and after that the system may rightly stop. All other passing runs
check for deadlock.

## Fairness

* `store_async`: worker threads run, and the event loop resumes a task whose
  thread has ended. Nobody has to call the store.
* `auth_commands`: the command's own steps happen (its timers, Monzo's answers or
  the HTTP client's timeouts), and each connection's five-second timer fires. The
  user and the browser are under no fairness. Two waits have no limit in the code:
  `getpass` for the secret (`cli.py:482`), and `webbrowser.open` (`cli.py:390`),
  which a console browser blocks until it is left; the callback's timeout only
  starts after it. A command may stay there for ever, with the directory lock held,
  and `CommandEnds` says so: it ends, or waits in one of these two places
  (`Unbounded`) for ever.
* `local_calls`: weak fairness for a call's own steps, because HTTP requests end
  at the timeouts of `runtime.py:30`; strong fairness for entering the refresh
  lock, because `asyncio.Lock` serves its waiters in order. `CallsEnd` needs the
  strong form: a lock that is taken again and again is free again and again only.
* `pot_transfers`: approved calls run and their posts time out; an answer that the
  client has posted gets to Uvicorn, which admits it or turns it away. Neither
  Monzo nor the human has to answer, so there is no claim that a call that waits
  for a human ends, and none for a server on which answers may be turned away.
* `broker_calls`: the provider stops waiting for the broker, and the HTTP client
  for Monzo (`broker.py:85`, `runtime.py:30`). httpx times each operation, not the
  whole exchange, so an answer that drips in for ever is outside this assumption.
  Broker and Monzo need not do anything.
* `store_safety`, `request_gate`, `paging` and `server_start` assume no fairness:
  they check safety only.

## Proofs

The proofs hold for every value of the constants that satisfies the named
assumptions (model values differ from data; bounds are natural numbers).

**`CredentialStoreProofs`.** `TypeCorrect` needs the strengthening
`OpenHasMemory`: a thread's bundle is a copy of `_payload`, which is a bundle
only while the store is open. `NeverTorn` holds under every fault, directly from
the stage a thread must be in before it renames. All else rests on
`WritersAwaited`: without cancellation one process is past the lock
(`OneHolder`) and each write thread is awaited by that process
(`ThreadsAwaited`), so there is at most one thread. From it follow
`ReplacedUnderLock`; `SavesAreDurable`, with `SavedIsSynced` (a thread finds its
bundle in the file until it ends); `MemoryIsCurrent`, with `MemoryLags` (memory
and file differ only between the rename and the assignment), and
`FailureLeavesBundle`. `StoreIsRegister` is the refinement: each action is a step
of `DurableRegister` or a stutter. The last three also assume that the directory
sync does not fail. The assumptions are necessary: `store_dirsync` and
`store_cancel` are the counterexamples without them. `KeyComesFirst` has an
assumption of its own, that opening is not cut short by a failing call or a kill
(a whole but unsynced key would be used by the next process); its invariant
`KeyIsSynced` says that whoever has a key has a synced one, and it needs
`OneHolder` but not `ThreadsAwaited`, so it covers cancelled saves.
`StoreIsLateRegister` assumes nothing about faults. Under the refinement mapping
the holder's view is the memory of the open store, a change is under way while
its thread is anywhere before the rename, in place after it, durable after the
directory sync; changes are known by their bundles, so that a thread nobody
awaits needs no owner. What makes each step one of `LateRegister` is `Late`: one
store is open at a time (`OneHolder`), and whoever awaits a write has its own
store open (`CallsAwaited`), which holds even when `ThreadsAwaited` does not.

**`LocalServerProofs`.** `LockIsHeldByRefresher`: the lock is held exactly by the
call that refreshes, so there is at most one pair in hand. `PairOrder` orders the
numbers of the pairs: calls do not know more than the memory, the memory not more
than the directory, the directory not more than Monzo (`PairsInOrder`); the pair
in hand is newer than all of these and than every pair a late write may still
bring (`NewestInHand`); and what a late write brings is a lost pair or an old one
(`OrphansAreLost`). The last two are needed because a kill or a save may put the
pair in hand into the directory while such writes are outstanding.
`PairsAreDurableBeforeUse` follows. `ChainStaysIntact` and
`NoSpuriousReauthentication` follow from `ChainBehindByOne`: unless a pair was
lost or the newest was written over, memory equals disk, and disk equals Monzo's
pair except for the one in hand. The second has one more exception: the server
accepts a pair that names no client beside any client (`runtime.py:82`), and after
a failed login with another one Monzo refuses that pair's refresh. `OneRefreshPerReason` follows from
`RefreshJustified`: the reason for which a call took the lock stands until the
new pair arrives, because nobody else can replace the pair. The exceptions in
these theorems are bounded by two more. `NothingWrittenOver`: where no call is
cancelled, `overwritten` never comes about. `NoFaultNoReauthentication`: without
any fault no refresh is refused at all, because then the chain is broken by a
logout only, no server starts from an empty directory, and none beside another
client (`Noticed`). Both hypotheses are needed: with cancelled calls, or one of
`lost`, `io`, `kill`, `withdraw` and `unnamed` alone, TLC finds a refused refresh.

**`BrokerAccessProofs`.** `OwnTokens` follows from `QuestionFits` (a call that
waits is waiting for an answer to its own question) and `OwnDelegation`. The
heart of `StaleFingerprintsAreHarmless` is `ReportsTrue`: a reported token is not
newer than the stored one, and if it is the stored one, it is not good; tokens
only move forward, so a report can become stale but never wrong. With one refresh
per user at a time (`RefreshJustified`, from the broker's lock) the reason for a
refresh stands until it is done. `RepeatedWithNewToken` uses the same fact for
the answer: what the broker hands out after a report is not what was reported.

**`PotTransferProofs`.** Three invariants: `IdsNameTransfers` (every request
carries the id of its transfer, and Monzo has moved exactly the transfers whose
ids it knows), which gives `MovesOnce`; `PostedBeforeHandled` (what is handled
was posted, what is reported was handled); `ApprovalsCounted` (the posts of a
transfer and the calls that hold an unused approval for it are together at most
its approvals, a fact about cardinalities of finite sets), which gives
`PostsAreApproved`. Together they give `PromiseIsKept`, the refinement of
`MoneyPromise`: `Approved` is an approval, the first handling of an id is the
movement, a report of success is a confirmation, all else is a stutter. The set
of calls may be infinite. `AnswersGetThrough` needs it finite: then the streams
are at most as many as the calls, the other connections at most `MaxOthers`, and
with the answer's own connection they are still fewer than the limit.

**`AuthCommandsProofs`.** Tokens are numbered, so that "the old token" and "the
token of this login" are told apart even for one OAuth client; the types are
inductive only together with `CommandInOrder`, by which a token in hand has been
issued. `CommandInOrder` says what each command may have
changed by each step: a login only the OAuth client, a logout nothing, and a
token is only held once this login's own callback was accepted. A save that fails
adds only what it was to save, so that a failed login leaves the token from before
or, from the last save alone, its own. It gives
`FailureKeepsToken`, `TokenIsApproved` and `ReportsAreTrue`. `ListenerInOrder`
says that the one future decides for all connections; it gives `OneIsAccepted`
for any number of them.

**`RequestGateProofs`.** `BodyBuffered` (the buffer is what was sent, and within
the limit whenever the application may ask for it) gives `BodyIsReplayedOnce`;
`BehindGate` (whatever is past the first middleware has shown the bearer and no
longer has it) gives `BearerIsStopped`.

**`ServerStartProofs`.** `ChosenIsSelected` says that what main has kept by each
stage is what flags and environment select, and that every loader it has passed
accepts them. `NothingIsImplied` follows from it. For `FlagsDoOverride` the two
environments are compared: they select the same values, no loader or validator
looks at a variable that has a flag, so the outcome is the same, and a started
server has that outcome. `TokenIsPrivate` follows from `ReaderInOrder`.

**`TransactionPagingProofs`.** First facts about the oldest `limit` elements of a
finite set of positions: they are closed downwards, no more than `limit`, and no
fewer if anything is left out (its first left-out element has `limit` elements
before it). That there is a first element comes from the well-foundedness of
strict inclusion on finite sets, which the library states without an operator
parameter. The invariant `Frontier` says that a reading in progress has shown
exactly what is wanted up to its cursor; it needs `AccountInOrder`, so that what
follows the cursor by position is not too old by time. `PagesFit` and
`EndIsTheEnd` follow: a page that is not full leaves nothing out.

**Model-checked only.** Liveness (`StoreSettles`, `CommandEnds`, `CallsEnd` of
`LocalServer` and of `BrokerAccess`, `AnsweredCallsEnd`) is out of the prover's
reach: it needs ENABLED for the fairness conditions. Every other property of a
passing run is proved. No module declares a RECURSIVE operator, and nothing needs
induction over data.

## Findings

1. *A save that fails may have happened* (`store_dirsync`). If only the directory
   sync after the rename fails (`credentials.py:485`), the caller is told
   "could not be saved" and keeps the old bundle in memory, but the file holds
   the new one. `tests/credentials/test_store.py:212` states the opposite for
   failing saves, and tries a failing rename only. For a refreshed pair the file
   then holds the better of the two.
2. *A write can outlive the lock* (`store_cancel`). A cancelled save leaves its
   thread running while the store is closed and the lock released
   (`credentials.py:322` and `241`), against the process-lifetime lock of
   `docs/wiki/Security.md:68`. `LocalServer` follows the write to its end: if the
   user logs in while it is outstanding, it puts the old pair back over the new
   one, and the next server's refresh is refused although nothing was lost. This
   is the exception `overwritten` in `DurableBeforeUse`, `ChainIntact` and
   `ReauthOnlyIfBroken`; TLC violates the three without it.
3. *Client and token are not saved together* (`auth_together`). `cli.py:378`
   saves the OAuth client before the login, the token comes after it;
   `docs/wiki/Operations.md:124` says they are saved together. In the trace a
   first login succeeds; a second one with another client saves that client and
   fails before the exchange. The directory then holds the new client and the old
   token, which `open_runtime` refuses (`runtime.py:82`); the old token itself
   stays (`FailedLoginKeepsToken`).

## Not modelled

* Of the six tools besides the three modelled, what they ask for and the copying
  of the answer (`models.py`): they are calls of `LocalServer` and
  `BrokerAccess`; annotating twice is annotating once.
* The parsers of the commands, the wiring of HTTP clients, `healthcheck`.
* The character rules inside validators (a URL without credentials, a header
  name that is not reserved, token lengths): a value is good or bad.
* A reader that blocks: a pipe put in the token file's place between `lstat` and
  `open` would hold `open` up; the model lets it be opened and then refused, or
  refused. `O_NOFOLLOW` is assumed to exist.
* The host stopping under `LocalServer`. What a save has acknowledged survives it
  (`AckedSurvives`). A pair that a killed process had put in place but not yet
  synced can be lost to it later; `KillServer` counts that pair as saved.
* The cryptography, file permissions, symbolic links, and leftover temporary
  files after a kill.
* Naive datetimes and Monzo's 90-day limit: to paging they are failing calls.
* The wording of messages and logs.

## Notes on the documents

Small differences met while modelling, none of them a property of a run:

* `--host ""`, `--token-broker-url ""` and `--delegation-header ""` do not
  override a variable (`settings.py:237`, `host or os.environ.get(...)`), although
  `docs/wiki/Configuration.md` says that flags override; `Given` models it.
* `private_files.py` checks the file's type, mode and size, not its owner.
* `tools.py:515` reports every other HTTP status as "Monzo rejected the request",
  a 5xx after a movement too. `MonzoRefuses` may therefore follow the movement;
  `MoneyPromise` makes no promise about reported refusals.
* `README.md:248` calls `MONZO_MCP_HTTP_MAX_CONCURRENT_REQUESTS` the maximum of
  concurrent requests. The code passes it to Uvicorn as `limit_concurrency`
  (`http.py:261`), which counts open connections, idle ones and the new one
  included, and turns the new one away when the count reaches the limit: N lets
  N - 1 in. A limit of 1, which the validator accepts (`settings.py:162`), refuses
  every request, the health check too.
* A delegation header named `Authorization` is accepted by the settings
  (`settings.py:340`), but the gate removes that header before the tools see the
  request (`http.py:80`), so every call would be refused.
* The default hosts for a loopback bind do not contain `[::1]`
  (`settings.py:467`), so a server bound to `::1` refuses requests addressed to
  it.

## Plan

Order: the store first, because everything a user can lose is there; then the
refresh chain that depends on it, the commands that create it, the tools that
move money, the gate, paging, the broker mode, the start. All of these are
modelled and checked, and every safety property that a passing run checks is
proved. To come, in this order:

1. `LocalServer` composed with the promise of `LateRegister` as a module, in place
   of its own `disk` and `orphans`.
2. `AuthCommands` with late writes, for a second command started while the first
   still joins its threads.
3. The read tools' own parameter checks, and the bodies of `models.py`, as far as
   a property distinguishes them.
