# Verification of Blogd

Blogd is a blog engine inside Redis 3.2.5: the event loop of Redis serves HTTP,
the files of a content directory are compiled into string keys, and the keys are
persisted with RDB snapshots. This directory holds TLA+ models of it, the TLC
configurations that check them on small instances, and proofs checked by TLAPS.
Paths below are relative to `src/redis-3.2.5/`.

## The system and what is modelled

| Part | Code | Module |
|---|---|---|
| Content compilation, pagination, reload | `src/blogd.c` (`initContents`), `deps/blogd/content.c`, `helper.c` | `Contents` |
| Directory scan | `deps/blogd/tinydir.h` | `Contents` |
| Look-up and routes | `src/blogd.c` (`httpRoutes`, `responseHttp*`) | `Contents` (keys), `Clients` (order of replies) |
| Event loop | `src/ae.c`, `src/ae_epoll.c` | `Clients` |
| Connections, output, freeing | `src/networking.c` | `Clients` |
| `serverCron` | `src/server.c` | `Clients` (idle clients, free queue), `RdbSave` (shutdown, save points, reaping) |
| Snapshots | `src/rdb.c` | `RdbSave` |
| Signals, shutdown, restart | `src/server.c` | `RdbSave` |
| Start-up and loading | `src/server.c`, `src/rdb.c` | order only, in `Contents` and `RdbSave` |

How they interact: `main` loads `dump.rdb`, calls `initContents`, then enters the
event loop. A fired read event calls `processHttpRequestFromClient`, which may call
`initContents` again (reload), looks a key up and queues the reply. `beforeSleep`
writes queued replies. `serverCron` frees clients, starts and reaps snapshots and
carries out a requested shutdown. There is one thread; the parallel actors are the
peers, the author of the content, the saving children, the system and its signals.

`createClient` installs the HTTP handler as the only read handler, so no Redis
command arrives from outside. Replication, cluster, Sentinel, AOF (off in
`redis.conf`), scripting, transactions, Pub/Sub, blocking commands and the other
data types are therefore listed in `PROJECT.json` as not modelled.

### Contents

State: the directory (`posts`, `tpl`), the key space (`postKey`, `pageKey`,
`errorKey`), the snapshot (`saved`), and the locals of `initContents`. Each action of
`Load` is one system call or one round of a loop: `ReadTemplates`, `OpenDir`,
`CountEntry` and `ScanEntry` (the two passes of `tinydir_open_sorted`, entry by entry,
`next` being the entry that `readdir` has returned and nobody has looked at),
`CompileFile`, `FinishLoad`. The author's `Write`, `Delete` and `EditTemplates` fall
between any two of them. `Reload`, `Snapshot` and `Restart` are the surroundings.
`touched`, what the author has changed since the load began, and `before`, the keys at
that moment, are history variables. A request for a post goes through the routes in
their order: names in `Static` are taken for static files.

Abstractions: a text is a stamp, fresh for every edit, 0 for the empty text; all
templates share one stamp, and their nine files are read in one step, so a load that
sees half of an edit of the templates is not among the behaviours; a `stat` and the
`readdir` that follows it are one step (an edit that falls between them has the same
effect before the `stat` of another file or after the `readdir`); `readdir` returns
any name not yet returned, and ends only when every name that was there throughout
the load has been returned; a file name is a number in the order of `strncmp`.

### RdbSave

State: the counters of the server (`dirty`, `dirtyBefore`, ages, `status`, `asap`),
`main` (the synchronous save of a shutdown), `kid[i]` (the child of incarnation
`i`), `dump`. A data set is the pair of an incarnation and the number of its
changes. A saver opens, writes and renames its temporary file in three steps
(`OpenTemp`, `WriteTemp`, `RenameTemp`), each of which may fail; a pending `SIGUSR1`
lets the call in progress finish. `changes` and `saved` are history variables.
`rdb_bgsave_scheduled` is never set without `BGSAVE` and is left out. A save point
is always configured (`SaveParams # {}`), so a shutdown always saves. A signal during
the start-up ends the process while `server.loading` is set and is remembered
otherwise; `pc = "loading"` covers both, so `SigTerm` may do either.

### Clients

State: connections and their sockets, the events table, the two client lists with
the flags that mirror them, the output queue, and the position of the event loop
(`pc`, `fired`, `cur`). One action is one handler call: `HandlePending` for each
client of the list of pending writes, `Poll`, `FireRead`, `FireWrite`, `Cron`; the loop
of `acceptTcpHandler` is `Accept` (`accept` and `createClient`) and `Admit` (the test of
`maxclients`, with the new client already there) in turn, at most `MaxAccepts` times.
Descriptors are reused, lowest first, as `accept` does.

Abstractions: a request arrives whole; a reply is `Units` pieces; static buffer and
reply list are one queue; output buffer limits are off in `redis.conf`; a refusal by
protected mode is the refusal at the client limit; the error text written past the
queue to a refused connection is left out.

## Runs

| Run | Configuration | Checks |
|---|---|---|
| `contents` | 3 files, 2 per page, 2 edits, 1 reload or restart | `ScanWithinArray`, `LostOnlyToNewcomers`, `OnlyListedKeysChange`, `PublishedMatchesDirectory`, `PagesPartitionListing`, `MoreChain`, `ListingAgreesWithPosts`, `TypeOK` |
| `contents_live` | 2 files, 1 per page, 1 edit, 2 reloads or restarts | `LoadTerminates` |
| `rdb_save` | 2 changes, 2 incarnations, 1 failure | `CrashLossBound`, `DumpNeverTorn`, `ShutdownDumpIsFinal`, `SaveInv`, `TypeOK` |
| `rdb_live` | 2 changes, 1 incarnation, 2 failures | `DirtyEventuallySaved`, `ShutdownDecides` |
| `clients` | 2 connections, 1 descriptor, 3 requests, 2 in flight | `StreamIntegrity`, `NoStrandedReply`, `NoIdleWriter` |
| `clients_reuse` | 3 connections, 3 descriptors, 2 clients | `NoDanglingReference`, `FlagsMatchLists`, `EventReachesItsClient`, `OverLimitIsRefused`, `TypeOK` |
| `clients_live` | 2 connections, 1 descriptor, 1 accept per call, 2 requests in flight | `AnsweredOrClosed`, `CloseAsapIsFreed`, `ConnectionDecided` |

What the properties of `contents` say together: the scan stays inside its array; a
load that does not bail out misses a post nobody touched only if a newcomer took its
place; what is not listed keeps the key it had, so deleted posts stay, and a scan that
bails out leaves the blog of the last load; what is listed is served as it was read.
`PublishedMatchesDirectory` speaks of loads that no edit disturbed and of names that
are not taken for static files; `ListingAgreesWithPosts` speaks of the others, too.

What the properties of `clients` leave open: of several requests that arrive in one
read only the first is answered (`StreamIntegrity` allows numbers to be skipped,
`AnsweredOrClosed` is about the first), and the last reply of a connection that is
closed may be cut.

`CrashLossBound` compares with the last snapshot that the current incarnation renamed.
A child of an earlier incarnation may replace that snapshot (`rdb_orphan`), and then a
crash loses more.

Why the bounds suffice: three files at two per page give an empty blog, a short, a
full and a second page, and a shared base name; two edits are what it takes to
change the directory on both sides of a pass, or to replace a post in the middle of
one. Two incarnations are what an orphaned
child needs, and one failure may hit each system call in turn. A send buffer of one
piece under replies of two cuts every reply; three connections for two clients make
one close, one reuse its descriptor and one be refused in the same batch; two
connections for one descriptor make `accept` fail with one of them waiting. Symmetry
is used for connections in the safety runs only.

Four runs show where the code departs from what it, or its README, says:

* `no_templates`: the message of `blogd.c:216` announces an exit when a template is
  missing. `readFileContent` never returns NULL, so the load goes on and publishes
  empty pages (`RunsOnlyWithTemplates`).
* `ten_pages`: the route `/page/(\d)+` captures the last digit only, so the More
  link of page 9 leads to a 404 (`MoreLinkOpensNextPage`).
* `static_name`: `src/README.md` says that a request for a resource returns the key of
  that name; a post whose name contains `.js`, `.html` or another extension of the
  static files goes to the route for those, and is answered with 404
  (`RequestReturnsItsKey`).
* `rdb_orphan`: `prepareForShutdown` kills its child so that it cannot overwrite the
  final save; the child of an earlier incarnation that crashed still can
  (`NothingOverwritesShutdownSave`).

In a run that expects a violation, no other property is checked.

## Fairness

* `Contents`: `WF(Load)`. A load is an uninterrupted call of the only thread.
* `RdbSave`: weak fairness of the main thread's steps, of the children and of time.
  Failures, kills, signals and crashes are never required to happen.
* `Clients`: the loop runs; `SF(Cron)`, because `serverCron` is due `hz` times a
  second however busy the loop is; a peer that stays reads what it is sent. Peers
  need not send, close or grow old.

`rdb_save`, `rdb_live` and `rdb_orphan` do not check for deadlock, since a server
that is down and may not start again (`MaxInc`) stops.

## Proofs

`RdbSaveProofs` proves, for every set of save points and all bounds:
`Spec => []SaveInv`, and from it `[]TypeOK`, `[]CrashLossBound`, `[]DumpNeverTorn`
and `[]ShutdownDumpIsFinal`. The only assumption is `RdbSaveAssumption`, the types
of the constants.

None of the four is inductive. `CrashLossBound` needs to know, while a child exists,
that its snapshot lags the key space by exactly `dirty - dirtyBefore`, and that a
child which has renamed is the one `saved` speaks of. `DumpNeverTorn` needs that a
saver about to rename never holds a partial file. `ShutdownDumpIsFinal` needs that
from the unlink on, the child of this incarnation can rename nothing: it has ended,
or it is killed and its file has no name (`NoRename`), and a call in progress ends
it. `SaveInv` is the conjunction; the run `rdb_save` checks it, too. The proof has
one lemma per group of actions (`MainSteps`, `CronSteps`, `ShutdownSteps`,
`FinalSaveStep`, `KidSaveStep`, `KidEnds`) over the facts of a single system call
(`SaveStepFacts`).

Only model-checked: everything about `Contents` and `Clients`, and all liveness.
Liveness under fairness, `ENABLED` and induction over data are outside what the
prover does.

## Plan

1. Loading: `rdbLoad` with `processEventsWhileBlocked`, requests answered meanwhile.
2. Requests in parts and static files; the router as an operator on paths.
3. The reply buffer (`buf`, `reply`, `sentlen`) as a refinement of a queue, and
   `Clients` on top of it.
4. The timer list of `ae.c` with clock skew; `bio.c`; rehashing and `dictScan`.
5. A composed `Blogd`: an abstract blog server that the parts implement.
6. Proofs: `NoDanglingReference`, `FlagsMatchLists` and `NoStrandedReply` for
   `Clients`; for `Contents` that `Sorted` lists a finite set in descending order
   (`FS_Injection`), then `MoreChain`.

`PROJECT.json` lists the components, the source lines of every definition, the
hazards with the properties that cover them, and for each property a variant of the
code that breaks it.
