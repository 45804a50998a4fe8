# TLA+ verification of OpenEarth Datalab

Datalab is a Django site on which users define *processing jobs*: a script and
data from Subversion, executed in a Linux container by a celery worker, logged
live to the browser, and whose results are committed to a database of
observations and to a file store. This directory models the parts of it in
which several processes share state, checks them with TLC and proves the most
important properties with TLAPS.

Paths below are relative to `src/src/openearth/` in the repository; `sem/`
stands for `apps/script_execution_manager/`.

1. [The system](#1-the-system)
2. [The modules](#2-the-modules)
3. [The runs](#3-the-runs)
4. [The proofs](#4-the-proofs)
5. [What the checks found](#5-what-the-checks-found)
6. [What is left out, and assumptions](#6-what-is-left-out-and-assumptions)
7. [Plan](#7-plan)

## 1. The system

    browser ── forms, polling ──> web process (uwsgi) ──┐ row of the job (PostgreSQL)
       ^                              │ publish, revoke │
       │ websocket                    v                 │
    websocket server <── redis <── broker (redis)       │
              (pub/sub, history)      │                 │
                    ^                 v                 │
                    └── log ── celery worker ───────────┘
                                 run_script ──> container, results directory
                                 commit ──> csv_worker ──> observations (PostgreSQL)

| component | state it keeps | operations | how it interacts | what is hard | what makes it correct |
|---|---|---|---|---|---|
| **Job record and pages** (`apps/processing/models.py`, `views.py`, `forms.py`, `static/js/processing.js`) | the row of a job: status, script, revisions, planned start, files | create, edit, poll the status, stop | `save()` of a new job publishes `run_script`; `stop_job` broadcasts a revocation; the page polls until the status is terminal | every process works on a copy of the row and saves the *whole* copy later; celery's state and the row are two stores | no outcome is invented or forgotten; after a stop the script does not run again; what is shown is what was executed |
| **Tasks and signal handlers** (`sem/tasks.py`, `task_utils.py`) | progress of `run_script` and `commit`, the task's result | publish / prerun / failure / revoked handlers, `run_script`, the linked `commit` | writes the row, creates and destroys the container, attaches files, logs | an exception at every step; revocation in every step; a second delivery; a restart | every published job ends; the container is cleaned up exactly when nobody uses it; `commit` only when there is something to commit |
| **Containers** (`sem/container.py`) | the instance image, the libvirt domain, the network, the results directory | create, wait for an address, destroy | used by `run_script` and, through a second object, by the handlers; one network for all jobs | partial failure of a sequence of resource operations; a revocation in the middle of it; two deliveries with one uuid | nothing left behind, nothing taken away under a script |
| **Log stream** (`sem/store.py`, `logger.py`, `wsgi_server.py`, `processing.js`) | Redis: subscriptions, last message, history list | set up a logger, emit, subscribe, send the history, listen | worker → redis → websocket server → page | publication and history are two commands; subscription and history are two reads; processes die in between; select sees the socket and not what the redis client keeps | a page misses as little as possible; the history is complete and in order; what was received is shown |
| **CSV import** (`sem/management/commands/csv_worker.py`, `sem/models.py`) | the table of observations and their references to environments | dereference, purge, save chunks, commit | one process per file, up to four at once (`settings/base.py:535`) | stale objects saved whole, a unique index, row locks in opposite order, clean-up outside the transaction that can itself deadlock or fail | references stand for committed data; no orphans once a purge has gone through; the table shows the latest run; everybody ends |
| **Commit worker** (`commit` in `sem/tasks.py`, `sem/commit_worker.py`) | files under way to the file store, directories and destinations of a repository | publish each file by its kind: mark and place NetCDF, copy KML, import CSV | the task `commit`; runs `ncatted` and `csv_worker`; shares directories with the tasks of other jobs | one of several files failing; look, then make a directory; copies that break off or overlap | a job is FINISHED when each file is published or reported; what is stored is whole |
| **Command wrapper** (`sem/exec_wrapper.py`) | two pipes, the set of those it polls | poll, read a line, drop a pipe that hung up, wait | runs the command of `CommitCSV` and yields its lines to the log | one thread for two pipes of limited capacity; hang-up with data left; a line that is never ended | lines are whole; nothing written is lost; it ends when the command does |
| **Accounts** (`libs/auth.py`, `forms.py`, `admin.py`, `actions.py`, `views.py`) | entries and groups in LDAP, rows of users in Django | register, reset or change a password, edit name and staff flag, delete, log in | requests write two stores one after the other | partial failure, a computed uid, copies of a row saved whole, a user deleted or renamed under a request | numbers are distinct; who was registered is in LDAP and its groups, under the name that was registered; passwords in Django are those of staff, and the same as in LDAP |
| **Subversion access** (`libs/svn.py`, form fields and widgets) | none | list and read | fills forms | – | – |
| **KML server, documentation pages** | none | serve | – | – | – |
| **Log watcher** (`libs/log_watcher.py`) | vendored | – | not called by the tasks | – | – |
| **Settings, provisioning** | – | – | concurrency, expiry times, broker | – | – |
| **Vendored JavaScript** (`static/js/`, `src/system/static/js/`) | third-party: select2, bootstrap, highcharts, jquery, metisMenu, sb-admin | – | – | – | – |

`PROJECT.json` lists, under `hazards`, the places in this code that tests would
hardly reach, each with its line and the properties that watch over it.

## 2. The modules

| module | what it is |
|---|---|
| `JobStatus` | the status codes and the one rule by which a status changes (`set_status`) |
| `JobLifecycle` | one job: web requests, worker, celery; the core of this project |
| `JobPromise` | what the job page promises its user, as a specification of two variables |
| `ContainerPromise` | what the deliveries of one job rely on in their one container |
| `JobRefinement` | `JobLifecycle` implements `JobPromise` and `ContainerPromise` under refinement mappings |
| `JobLifecycleProofs` | theorems about `JobLifecycle` |
| `JobRefinementProofs` | theorems about `JobRefinement`: the promises are kept |
| `ResultTable` | what the table of observations shows of an environment and script |
| `CsvCommit`, `CsvCommitProofs` | concurrent imports into the tables of observations and of points |
| `CommitTask`, `CommitTaskProofs` | the task `commit`: files of several jobs on their way to the store |
| `ExecWrapper`, `ExecWrapperProofs` | a command whose two pipes one thread reads |
| `LogStream`, `LogStreamProofs` | the log of a job from worker processes to pages |
| `JobPage` | the browser: `LogStream` with what a page makes of the messages |
| `Container`, `ContainerProofs` | image, domain and network behind a job's container |
| `Accounts`, `AccountsProofs` | users in LDAP and in Django |
| `MCJobLifecycle`, `MCCsvCommit`, `MCCommitTask`, `MCExecWrapper`, `MCLogStream`, `MCContainer`, `MCAccounts` | instances for TLC |

How they fit: `CommitFiles` of `JobLifecycle` is one step that succeeds or
raises; `CommitTask` takes it apart file by file, its `CommitCSV` is one import
of `CsvCommit`, and that import is a command run by `ExecWrapper`, whose lines
are messages of `LogStream`, which `JobPage` shows. The container, which
`JobLifecycle` looks for, creates and removes in one step each, is taken apart in `Container`; both implement `ContainerPromise`,
which is where the two modules meet.

Definitions that begin with the comment "Mutant of X" are defective versions of
X. No behaviour uses them; putting one in the place of X breaks the property
named for it under `mutants` in `PROJECT.json`, which shows that the property
depends on the code that X models.

### JobLifecycle

One `ProcessingJob` and everything that reads or writes it. `row` is the row of
the database, reduced to its status and its *plan* (script, revisions, planned
start: all that goes into the message). Three kinds of process have a program
counter and a private copy of the row:

* `web[q]` with `wobj`, `wseen`, `kwargs`: a browser window and the requests it
  makes, one at a time. Creating or editing a job, polling and stopping it.
* `run[r]` with `args`, `robj`, `rseen`: one *delivery* of the `run_script`
  message, from the queue through `task_prerun`, the task, and the failure or
  revocation handler. `args` is the plan in the message.
* `commit[r]` with `cobj`: the `commit` task linked to that delivery.

The rest is the result store (`result`), the revocation on its way and
remembered (`revoking`, `revoked`), the container (`image`), and how often
result files were attached (`appended`). `asked` and `raised` are history
variables.

**Granularity.** `objects.get()` and the later `save()` are separate steps,
because the code holds the copy across other work: `get_current_status`
(`models.py:311-321`) reads the row, asks celery, and saves; `commit` reads
before it commits files and saves afterwards (`tasks.py:388-430`). `save()`
writes the whole row, also the fields nobody changed, and so does the model.
Between two steps of a process any other process can act. A query to celery is
a step of its own (`PollState`, `PrerunState`); `get_current_status` makes up to
three such queries in a row, of which the model has one, as the others only
pick the value that is stored.

| actions | code |
|---|---|
| `CreateJob`, `StartJob`, `SetScheduled`, `Publish` | `save`/`start_job` and the `before_task_publish` handler, `models.py:331-379`, `tasks.py:220-229` |
| `OpenPage`, `PollGet`, `PollState`, `PollSave` | the status view and `get_current_status`, `processing.js` |
| `EditGet`, `EditSave` | the edit form; a copy read while CREATED is published again |
| `StopJob`, `ReceiveRevoke` | `stop_job` and celery's `revoke(terminate=True)` |
| `Take`, `Discard`, `PrerunGet` … `Track` | the worker, `task_prerun`, `CELERY_TRACK_STARTED` |
| `RunGet`, `RunSave`, `RunNotBegun` | `run_script` reads the row and sets the status, or fails to (`tasks.py:112-113`) |
| `LookForImage`, `LookFails`, `CreateContainer`, `CreateFails` | the container: `os.path.exists` of its image (`container.py:266`), then the rest, from the opening of the image on (287) |
| `ScriptEnds` … `Link`, `StoreSuccess` | the rest of `run_script` and its callback |
| `StoreFailure`, `FailGet` … `FailCleanup` | `task_failure` |
| `StoreRevoked`, `RevokeGet` … `RevokeCleanup` | `task_revoked` |
| `CommitGet` … `CommitFailCleanup` | `commit`, which may fail in each of its steps (`CommitRaises`), and `task_failure` for it |
| `Redeliver`, `Restart`, `Expire`, `RequestDies` | the redis transport, the worker's supervisor, result expiry, uwsgi |

### JobPromise and JobRefinement

`JobPromise` has a phase (new, waiting, running, an outcome) and whether a stop
was asked for. Phases only move forward; an outcome is final, except that a stop
that was asked for may still be recorded over another outcome, or the other way
round. `JobRefinement` reads the phase off the status of the row, so
`PromiseFulfilled` says that all the steps of the worker, its handlers and its
stale copies amount to that. It holds as long as nobody but the worker writes to
the row of a published job (run `job_worker`, and the theorem `PromiseIsKept` for
the safety part `PromiseKept`); section 5 has what happens when others do.

### CsvCommit

One `csv_worker` per CSV file. `table` is what is committed: for each content an
observation can have, which import inserted its row (its identity) and the set
of environment hashes that refer to it. An import dereferences its own hash (an
UPDATE: `DerefBegins`, `DerefRow`, `DerefEnds`), purges observations without
references (a DELETE: `PurgeBegins`, `PurgeRow`, `PurgeEnds`), then reads a chunk
(`ReadChunk`), saves its rows one by one (`SaveRow`), goes to the next chunk and
commits (`CommitImport`). `found` holds the objects it has read, which may be
stale; `own` what its transaction has written and thereby locked. PostgreSQL is
read committed: a read sees committed rows and the own writes, a write waits for
the lock, an insert of the same data fails on the unique index
(`SaveCollides`), a cycle of waits aborts one (`DeadlockAborts`), a query that
fails (`DatabaseError`) or a process that is killed is rolled back.

The two statements of the clean-up (`csv_worker.py:164-172`) are transactions of
their own. Each goes for the rows that qualified when it began (`scan`), not for
those that come to qualify later; it takes their locks one by one in whatever
order the database chooses, waiting for a row that a saving import or another
statement has, looks again whether it still qualifies, and keeps the lock (`held`)
until it ends. Hence statements are in the circles of `DeadlockAborts`, too. The
DELETE is one statement because nothing refers to an observation and no signal
is connected to it. `unpurged` is a history variable: an import broke off
between its dereference and the end of its purge, and nobody has begun a purge since.

`points` counts the LocationPoints of each spot, `made` those that open
transactions have made: `WithPoints` is `point_exists` and the creation of a
point for each row of a chunk, where a transaction sees what is committed and
its own. Places are further than a metre from each other, and each observation
is at one.

One read of a whole chunk is one step and each save is one. Rows of a chunk are
saved in any order (the code iterates over a dictionary), new ones before
those that were read.

### ResultTable

What all this comes to for someone who looks up the results of an environment and
script: `shown` has the observations that refer to each hash, `phase` where each
import is. An import *begins*, is *clearing* what it found shown of its hash
(`old`), takes all that off at once and is *cleared*, and then either
*lands*, with its whole file shown at once, or is *off* and shows nothing of it.
What another import of that hash lands while this one is clearing stays shown.
Another hash is not touched, with one exception that the code leaves open: after
an overlap (`together`) a landing import may take off or bring back references of
others, but only of the observations in its own file, and only those that a landed
import of that hash did have (`OutOfDate`). Without the exception TLC finds a
stale save that does so. `CsvCommit!ResultsShown` reads `shown` off the committed
table: the UPDATE is *clearing*, its end the moment of clearing, and the end of the
transaction that of landing; purges, reads and saves are no steps at all.

### CommitTask

`at[t]` is where the `commit` task `t` is in its loop, `todo[t]` the files it has
still to go through, `file[t]` the one in hand. `committed` and `reported` say
what became of each file; `dirs` and `store` are the file system, a stored file
being two parts, so that a copy can be half done. `erred`, `met` and `broken` are
history variables for the exceptions the properties make.

| actions | code |
|---|---|
| `Start`, `NextFile`, `Finish` | the loop, `tasks.py:378-394`, `456-458` |
| `LookForDir`, `MakeDir`, `DirIsThere` | `exists`, then `makedirs`, which raises when the directory came in between (`tasks.py:400`, `446`) |
| `CommitNetCDF` | `ncatted`, which writes a file of its own and renames it |
| `CommitCSV` | `csv_worker` through the command wrapper |
| `OpenCopy`, `CopyPart1`, `CopyPart2` | `copyfile` for KML: truncate, then copy |
| `OnlyLogged` | `CommitError`, caught for NetCDF and CSV |
| `Raises`, `Dies` | any other exception; the end of the worker |

### ExecWrapper

A command writes units, text or the newline that ends a line, to two pipes that
hold `Capacity` of them; a write waits for room. `start_process` polls (`PollIn`,
`PollHangUp`), and `readline` (`ReadUnit`, `ReadEnd`) stays with one pipe until a
line is complete or the pipe has ended. `ends` are the positions at which yielded
lines end. The pipes are unbuffered (`subprocess.Popen` without `bufsize`), so a
readline takes nothing beyond its newline. What a call of `poll` reports of
several pipes stays true until the loop comes to it, as only this thread reads,
so the model looks at one pipe at a time.

### LogStream and JobPage

A process of the worker emits a message in two commands (`Send`: publish to the
subscribers and store as the latest; `Push`: append to the history), and may die
anywhere. A page subscribes (`Connect`), looks up the key (`FindHistory`), reads
the list from its element 1 (`SendHistory`) and listens. `SetupLogger` may be
called any number of times in a process, as `run_script`, `commit` and the
failure handler each call it. A reload of the page is another page.

What comes over a subscription, beginning with its confirmation, is in `socket`
until the loop of `wsgi_server.py` reads it. `select` looks at the socket only.
The client that the code pins (redis 2.10.3 with hiredis 0.2.0) receives all that
is in the socket, returns one reply and keeps the others in `buffer`; the next
call of `parse_response` takes from there and leaves the socket alone.

`JobPage` extends `LogStream` by what the browser does with the messages: it
handles what it was sent (`shown`) one by one (`onmessage`, `handled`). A message
of progress goes to a bar, any other to the terminal. `updateProgressBar` clones
the template row for every message, with an id that may be there already, and
then updates the first row of that id; the number of a message stands for the
percentage. Its steps are those of `LogStream`, with the tables as they are, and
its own; leaving the page (`Unload`) closes the socket and takes the table along.

### Container

What `JobLifecycle` has as one `image` is here what it is made of: for each job
an instance image (`none`, `partial` while it is copied, `whole`) and a libvirt
domain (`none`, `defined`, `running`), and the network all domains share. A
*delivery* is one delivery of a `run_script` message; several may be of one job
(`JobOf`), with one uuid and hence one image and one domain. `at[d]` is the call
a delivery is about to make, `by[d]` whether it makes it in the task, in the
failure handler or in the revocation handler. `trouble` is a history variable:
libvirt could not be opened for a clean-up (*unopened*), a clean-up was cut after
the image was deleted (*cut*), or a delivery that had seen no image opened it over
one that another had made meanwhile (*overwrote*).

| actions | code |
|---|---|
| `LookForImage`, `OpenImage`, `CopyEnds` | `copy_base_image`, `container.py:257-311`: `os.path.exists` (266), `open` with `wb` (287), which empties what is there, and the copy; `writing` says whether the open file is still the image or was unlinked |
| `LookupNetwork`, `DefineNetwork`, `CheckNetwork`, `StartNetwork` | `LibVirtNet.create`: look up, then define; ask, then start |
| `GetDomain`, `StartDomain` | `LibVirtDomain.create`; looking at `.domain` defines it (`GotOrDefined`) |
| `GotIp`, `NoIp` | `wait_for_ip`; forty tries are one step |
| `CreateRefused`, `TaskFails` | calls that find what they do not expect; any call, or the script, failing |
| `DeleteImage`, `NoImage`, `CannotOpen` | the first half of `destroy`; a missing image ends it |
| `StopDomain`, `StopFails`, `Undefine`, `UndefineFails` | the second half |
| `TaskEnds`, `Revoked` | the end of `run_script`; `task_revoked_handler` after a kill in any of the above |

`destroy` in `JobLifecycle` is one step that succeeds, or one that raises and
leaves the container; this module is where it is taken apart.

### ContainerPromise

The interface between the two: whether there is a container (`image`), and how
each delivery stands to it (`phase`): *waiting* before it has looked for one,
*ready* when it has seen that there is none, *using* it,
*owing* a removal after a failure or a revocation, or *rid* of it. Only one that
is ready creates, in a step after that in which it looked, so that it may create over
what another has made meanwhile; whoever used or owes removes it, or abandons it when
the clean-up fails; a worker that dies loses what was owed; the handler of a failed
commit may remove it once more. `JobRefinement!ContainerKept` reads this off
`run` and `image` of `JobLifecycle`, `Container!ContainerPromised` off the next
call (`at`, `by`) of the deliveries of each job, where the opening of the image is
the moment of creation and its deletion that of removal. So no interleaving of
libvirt calls does to a job what the steps of `JobLifecycle` do not show.

### Accounts

`entry` and `member` are the entries and groups in LDAP, `row` the users in
Django. Entries are indexed by how the code addresses them: it makes and changes
`CN=<name>` and deletes `UID=<name>`; earlier entries may be of either kind. A
request `r` is one operation `op[r]` for one user `name[r]`, and `at[r]` where it
is; `obj[r]` is its copy of the row, which it saves whole, under `name[r]`, in the
place of the row with that key, whatever name it has by then. A password, and the
key of a row, is the request that made it; the key of an earlier row is the name it then had. `raced`, `wasStaff` and `upset` are
history variables for the exceptions the properties make.

| actions | code |
|---|---|
| `CheckName`, `NextUid`, `AddEntry`, `AddToGroup`, `Insert` | `UserCreationForm`: the form's check, `_get_next_uid`, `create_user`, `add_user_to_groups` (one modification for each group), the row |
| `Read` with `"reset"`, `"admin"` | the row is read; `LDAPSetPasswordForm` and `AdminPasswordChangeForm` |
| `Edit`, `SaveUser` | the admin's page of a user: `UserAdmin` (`admin.py:11`) inherits a form with the name and the staff flag, checks that the name is nobody else's, and saves the row; LDAP is left as it is |
| `ChangeEntry`, `ChangeFails`, `SaveUser` | `change_password`, its error (ignored for staff), `user.save()` |
| `Read` with `"delete"`, `DeleteEntry`, `DeleteFails`, `RemoveRow` | `UserAdmin.delete_model`, one user at a time (`delete_selected`) |
| `Bind`, `GetOrCreate`, `SaveUser` | a login by `LDAPBackend`, which makes a missing row and always updates it (`settings/base.py:88`) |
| `Fail` | any exception, and the end of a process |

## 3. The runs

All runs are small enough to be exhaustive. Deadlock is not checked anywhere:
jobs, imports and log processes end, and nothing happens after that.
(That they end is checked as liveness.)

| run | what it shows | bounds |
|---|---|---|
| `job_worker` | every published job ends (`PublishedJobEnds`) and its outcome is in the row (`OutcomeIsRecorded`); the status never goes down unless a stop was asked for; `commit` only follows attached files; the row refines `JobPromise` | one window that creates and may stop, one delivery, every step of `run_script` and of `commit` may fail, clean-up may fail, results expire |
| `job_windows` | with polling pages on stale copies, an edit form and a stop button: no outcome is invented, after a stop `run_script` is not at work again (`StopIsFinal`), and a failure that was overwritten is repaired by a later poll (`FailureIsHealed`) | two windows that poll, one of which may edit and stop; one delivery; no window dies, no result expires (`job_worker` and `job_redelivery` have these) |
| `job_redelivery` | the message is delivered twice, the worker restarts once: no outcome is invented; no container is left behind (before the restart); both deliveries execute the plan the row shows (`PlanIsExecuted`); the job's container is used as `ContainerPromise` has it (`ContainerKept`) | two deliveries, one restart, one window, two plans, no edits |
| `csv_imports` | with an UPDATE and a DELETE that take rows one by one, wait, deadlock and fail: references, orphans, latest run, points, termination; the imports come to what `ResultTable` has (`ResultsShown`) | one spot, three imports: two of one hash, one of another, two contents, two of them with two chunks in opposite order |
| `log_pages` | a page misses at most one message of each process next to the first of the history; history in order; what the client keeps is shown when the next message comes; a progress bar ends at the latest progress the page was sent | two processes, two messages each, two calls of `setup_logger`, one page |
| `containers` | no image is left behind, nor a domain of a job delivered once; a domain starts on a whole image, unless another delivery opened it over this one, and with an active network; the calls come to what `ContainerPromise` has (`ContainerPromised`) | two deliveries of one job beside one of another, every call may fail, each may be revoked once |
| `accounts` | numbers are shared only in the race for them; who was registered has its entry and groups under the name that was registered, whoever renames it; only staff has a password in Django, the one of LDAP | three requests of any kind, two names, two groups, every mix of earlier accounts, every step may fail |
| `exec_wrapper` | lines are whole, nothing is lost, and worker and command are stuck only over a line left open; otherwise the command is read to its end | two pipes that hold two units, four units written to each, every way to close, exit and be killed |
| `commit_files` | a finished task has published or reported each file; only the race for a directory fails a task without an error of its own; stored files are whole but for breaks and clashes; every task ends | a job delivered twice with a KML file, beside a job with a KML file of that name, a NetCDF and a CSV file; directories there or not |
| `job_lost_finish`, `csv_two_files`, `log_last_message` | disagreements, see section 5 | smallest instance that shows them |

**Why the bounds are enough.** The interesting cases are pairs: a stale copy
needs one process that holds it and one that writes meanwhile. Two windows
beside a worker give window/window and window/worker pairs; two deliveries give
every pair of worker processes. Two imports in a lock cycle with a third of
the same hash give dereference against save, insert against insert, and a
cycle. In `Container` two deliveries of one job and one of another
give each pair that shares image and domain or only the network. Pages in `LogStream` do not influence each other or the processes, so one
page sees all there is to see; two processes of two messages suffice for
interleaved histories and for the message that is lost between the two commands
of each. In `ExecWrapper` a capacity of two against four units lets either pipe fill up
before, during and after a line of the other. In `CommitTask` three tasks give a
pair with the same file, pairs with different files of one name, and a third
that comes between look and make. In `Accounts` three requests
give each pair and a third that comes after both. The proofs in section 4 hold without bounds.

**Restrictions that are part of the statements.** `PublishedJobEnds`,
`StatusNeverLowered`, `OutcomeIsRecorded` and the refinement are checked with no
polling or editing window: a window that holds a stale copy breaks each of them,
as section 5 tells. `StopIsFinal` is checked with one
delivery, as the worker kills only one process of a task id. It is about
`run_script` and its failure handler: a `commit` that was linked before the stop is a task with
an id of its own, which nobody revokes and which goes on. In `Container` a delivery whose clean-up met `trouble` is
exempt: `NoImageLeft` does not hold if libvirt cannot be opened for the
clean-up; `NoDomainLeft` does not if the clean-up was cut after the image was
deleted, since every later one stops at the missing image. `NoDomainLeft` is
about jobs delivered once. `StartsComplete` exempts an image that was opened over
(`NotOverwritten`), and is about jobs delivered twice at
most: with three deliveries TLC finds a domain that starts on a half-copied
image, after the second removed what the first had made and while the third
copies. `NoContainerLeaked` and `StopIsFinal` are stated up to
the first restart: revocations live in the worker's memory, and tasks are
acknowledged when they start, so a worker that dies does not clean up.
`NoOrphans` exempts the time from an import that broke off in its purge to the
next purge of any import (`unpurged`), and `ResultsShown` an overlap from what
concerns other hashes.
`OnePointPerPlace` holds only without overlap, as no index stands behind the
search for a point. `StuckOnOpenLine` and `CommandEnds` say under which condition
the worker blocks for good: no code prevents it, but the commands the worker runs
write whole lines. `StoreIsWhole` exempts different files of one name that two
jobs publish at the same time: nothing locks a destination. `FailureIsHealed`
asks for a page that still polls.
`NoContainerLeaked` is checked where destroying a container does not fail.
`PlanIsExecuted` is about jobs nobody edits (`Editors` empty): an edit after
`start_job` is never executed, see section 5.
In `Accounts`, `UidsUnique` exempts an account that was being added while another
one was (`raced`), as the number is taken from a search long before the entry is
there. `PasswordsAgree` exempts a name for which requests overlapped or failed, or
which was given to another user (`upset`): LDAP is written first, and nothing
undoes it. `AccountComplete` is about the name that was registered, and says that a
row has another only after an edit; under that one it has no entry (section 5). `OnlyStaffPassword` says
"was staff", since taking the flag away leaves the password.

**Fairness.** Weak fairness of each step of a delivery, of `commit` and of the
reception of a broadcast: the worker is supervised and its pool processes run.
Weak fairness of polling: `processing.js` sets its timer again after each
answer. Weak fairness of the steps of an import that was started, of emitting
and of serving a page. Weak fairness of the steps of a `commit` task that was begun,
of `start_process`, and of the command's pending write and exit, the latter an
assumption on the commands (`ncatted`, `csv_worker`) like that on scripts below.
No fairness for users, restarts, failures, kills,
expiry. The code has no limit on the time a
script takes: that scripts end (`ScriptEnds`, under the fairness of a delivery's
steps) is an assumption of `PublishedJobEnds`. `Container` and `Accounts` have no
liveness and no fairness.

## 4. The proofs

The proof modules hold no bound: any set of plans, windows, deliveries, imports,
files, contents, processes, pages, users, groups, requests, any limit.

| theorem | states | extra assumption |
|---|---|---|
| `TypeCorrect` | `JobLifecycle!TypeOK` always | – |
| `OutcomesHappened` | `NoInventedOutcome` | – |
| `CommitsFollowFiles` | `CommitsAttachedFiles` | – |
| `PlanExecuted` | `PlanIsExecuted` | – |
| `ContainersCleaned` | `NoContainerLeaked` | clean-up does not fail |
| `StopIsObeyed` | `StopIsFinal` | one delivery |
| `OutcomesRecorded` | `OutcomeIsRecorded` | `WorkerOnly`: nobody polls or edits, one delivery |
| `StatusOnlyRises` | `StatusNeverLowered` | `WorkerOnly` |
| `ContainerIsKept` | `ContainerKept`: `JobLifecycle` implements `ContainerPromise` | – |
| `PromiseIsKept` | `PromiseKept`: `JobLifecycle` implements `JobPromise` | `WorkerOnly` |
| `CsvTypeCorrect` | `CsvCommit!TypeOK` | – |
| `ReferencesEarned` | `NoInventedReference` | – |
| `OrphansPurged` | `NoOrphans` | – |
| `ContainerTypeCorrect` | `Container!TypeOK` | – |
| `ImagesDeleted` | `NoImageLeft` | – |
| `DomainsUndefined` | `NoDomainLeft` | – |
| `StartsWhole` | `StartsComplete` | – |
| `ContainerImplementsPromise` | `ContainerPromised`: `Container` implements `ContainerPromise` for each job | – |
| `PointsMerged` | `OnePointPerPlace` | – |
| `ImportsShowResults` | `ResultsShown`: `CsvCommit` implements `ResultTable` | – |
| `LatestRunShown` | `TableShowsLatestRun` | one import per job |
| `CommitTypeCorrect` | `CommitTask!TypeOK` | – |
| `FinishedComplete` | `FinishedIsComplete` | – |
| `DirsOnly` | `FailsOverDirsOnly` | – |
| `StoreWhole` | `StoreIsWhole` | – |
| `ExecTypeCorrect` | `ExecWrapper!TypeOK` | – |
| `LinesWhole` | `LinesAreWhole` | – |
| `OutputComplete` | `OutputIsComplete` | – |
| `StuckOnlyOnOpenLine` | `StuckOnOpenLine` | – |
| `LogTypeCorrect` | `LogStream!TypeOK` | – |
| `HistoryOrdered` | `HistoryInOrder` | – |
| `OneMissedAtMost` | `MissesOneAtMost` | – |
| `BarsCurrent` | `BarsAreCurrent` | – |
| `PageImplementsLog` | `JobPage` implements `LogStream` | – |
| `AccountsTypeCorrect` | `Accounts!TypeOK` | – |
| `UidsDistinct` | `UidsUnique` | – |
| `PasswordsOfStaff` | `OnlyStaffPassword` | – |
| `RegistrationsComplete` | `AccountComplete` | – |
| `OnePassword` | `PasswordsAgree` | – |

`Accounts` assumes (`AccountsAssumption`) that earlier entries have different
numbers, that there is a name and a group, and that names are not requests.

Each rests on an inductive invariant; the property alone is not one.

* `NoInventedOutcome` speaks of the row, which any process may overwrite with
  its copy. So `SoundCopies` says that every copy of the row and of the task
  state, wherever held and however stale, tells only of what happened; outcomes
  do not "unhappen", so old copies stay sound. `HandlersCalled` says that a
  handler runs only for what it handles, and `LinkedOnce` that a `commit` is
  linked once, so that `commit[r] = "done"` is not undone.
* `CommitsAttachedFiles` needs the state just before `Link` (`AttachedInv`).
* `PlanIsExecuted`: `PlanInv` follows the plan from the copy `start_job` takes it
  from, through the message, to the deliveries, and says of every copy that may
  still be saved (`WebPlanned`, `RunsPlanned`, `CommitsPlanned`) that it was read
  from the row, not left blank; so no save changes the row's plan (`PlanStays`),
  and what a message carries stays true.
* `ContainersCleaned` and `StopIsObeyed` are inductive once types are known, the
  latter because all deliveries are one.
* `OutcomeIsRecorded`, `StatusNeverLowered`, `PromiseKept`: `WorkerInv` tells the
  status of the row, and of the copies that may still be saved over it, from where
  the delivery (`Stage`) and its `commit` (`Linked`) are. Beside a `commit` only
  the handler of a revocation writes, and what that writes is an outcome. So a
  change of the status is one of `RowMoves`, which the refinement mapping turns
  into steps of `JobPromise`. The assumption `WorkerOnly` (no window that polls or
  edits, one delivery) is needed: section 5 has what breaks without it.
* `NoInventedReference`: `ReferenceInv` extends it from the table to the objects
  an import has read and to what its open transaction has written. An import's
  own hash is the exception there, earned when it commits; therefore the
  invariant also says that the data of its objects come from its file.
* `NoOrphans`: `OrphanInv` says the same of objects and transactions: what is
  going to be written has a reference. Each orphan is on the list of some purge
  that is at work or about to begin (`ToPurge`), or a purge broke off; so one
  import's purge makes up for another's dereference. That a purge which takes its
  rows one by one deletes orphans only, and finds those on its list, needs
  `StatementInv`: no row is locked twice, and what a DELETE holds has no reference.
* `LatestRunShown` follows an import that has been alone since it began: what its
  hash refers to is first nothing, then, with its open transaction, what its file
  had up to the current chunk (`RunInv`). Two imports of one job would each be such an
  import, and the second undoes the first (`csv_two_files`).
* `ResultsShown`: what a DELETE holds has no reference (`StatementInv`), so that
  its end changes nothing shown; a row an UPDATE leaves is one that shows its hash no
  longer (`Forget` of `ResultTable`). `ProgressInv` holds however imports overlap, so that one which
  commits has written its whole file and nothing else (`WrittenAll`); `OwnInv` says
  that what it writes refers to its hash, however stale, and `ReferenceInv` that
  whatever else it refers to was earned. `PhaseStep` shows for each step which move
  of `ResultTable` it is.
* `ImagesDeleted` is inductive once types are known: an image appears only by a
  delivery that has still to delete it, and whoever leaves `WillDelete` has
  deleted it, found it missing, or met trouble.
* `DomainsUndefined`: `DomainInv` says where a domain can be of each delivery
  that is the only one of its job, and above all that the image is there as long
  as the domain needs a clean-up that gets past the image.
* `StartsComplete`: `StartInv` says that, unless an image was opened over another,
  a delivery which has copied finds its
  image whole or deleted, and that in the latter case the other delivery of the
  job, which deleted it, is past its own copy (`Nobody` is `Early`).
* `ContainerPromised`: each call moves its delivery, and the image of its job, as
  one step of the promise or not at all (`StandStep`). `HoldInv` says that only
  the task, having looked, creates, so that an error there is the first, and that a file still
  written to is still the image. `ContainerKept` has the same lemma for the steps
  of `JobLifecycle`, and needs `LinkedOnce`: whose `commit` may fail, has cleaned up
  or owes it.
* `HistoryInOrder`: `EmitInv` (one handler at most, hence one emission per
  message) and `PastInv` (the history holds only messages already logged, and
  not the one still in hand).
* `MissesOneAtMost`: for each process and page there is a *cut* (`CutInv`), the
  number of the last message the process had logged when the page subscribed.
  What is sent after the cut comes over the subscription; what is before it was
  pushed before the page read the history, and so has been shown, but for the
  first. Only the message at the cut can have gone to neither.
* `BarsAreCurrent`: bars go back when history comes again over the subscription,
  so that the property holds at no other time than when a page has caught up.
  `AgainInvOf` says that what a page knows and is later than a message that waits
  for it, waits too, and `BackInvOf` that wherever an earlier message was shown
  after a later one, the later one comes again or has come; so with nothing
  waiting the last message is the latest (`LastIsLatest`). Both need the order of
  what waits (`QueueInv`) and that a message about to be pushed was published to
  every page that has one of its process waiting (`SentInvOf`). `TableInv` says what
  the rows are made of: the first row of an id is its only visible one, and shows
  the last message handled. `LogStream`'s theorems carry over to the pages by
  `PageImplementsLog`.
* `FinishedIsComplete` follows each file from `todo` through the task's hands to
  `committed` or `reported`. `FailsOverDirsOnly` needs that a task that looked
  found no directory, so that whoever made it was at work meanwhile (`met`).
  `StoreIsWhole` needs that without a clash all that copy to one destination write
  the same file, and that whatever part is missing one of them is still to write
  (`InOrder`).
* `LinesAreWhole` and `OutputIsComplete`: every newline read is in `ends`, and
  between two lines nothing is left over unless the pipe has ended.
  `StuckOnOpenLine`: in `readline` the last unit read, if any, ended a line or
  belongs to the line being read, so a reader that waits with text taken waits on
  a line left open.
* `UidsUnique`: `SearchInv` says that the number a request holds is greater than
  all there are, unless an entry was added after its search (`raced`).
* `OnlyStaffPassword`: `StaffInv` says the same of every copy of a row that a
  request may still save, and that a row with the flag has a key in `wasStaff`.
* `AccountComplete`: `CompleteInv` follows a registration through its steps
  (`RequestsInv`) and says of every row and every copy that the registration which
  made it is complete under the name it was made with, and that the row or copy has
  that name or one from an edit (`Sound`, `Named`); what a request is for does not
  change once it has begun (`StillTheSame`), so that a stale copy brings back only
  complete accounts (`SoundKept`).
* `PasswordsAgree`: `AgreeInv` says of a user whose requests have not overlapped
  or failed that one request at most is at work (`Works`), that its copy has the
  password it has set in LDAP (`CopyAgrees`), and that the row agrees unless that
  copy is about to take its place (`Changing`).

**Only model-checked:** everything under fairness (`PublishedJobEnds`,
`FailureIsHealed`, `ImportsEnd`, `NextMessageShows`, `CommandEnds`, `CommitEnds`),
since liveness and `ENABLED` are out of the prover's reach, and the liveness half of
the refinement `PromiseFulfilled`, whose safety half `PromiseKept` is proved.
Every other property of the passing runs is a theorem. No module has a
`RECURSIVE` operator, and nothing is claimed about recursive definitions by
induction.

## 5. What the checks found

* `job_lost_finish`: a poll that read the row before `commit` ended and saves it
  afterwards puts back the old status. `FINISHED` is never repaired, as celery's
  `SUCCESS` is not a name `set_status` knows: the page polls for ever.
  A lost `FAILURE` of `run_script` is repaired (`FailureIsHealed`), one of
  `commit` is not, since polls look at the task id of `run_script`.
* `csv_two_files`: a job with two CSV files keeps the observations of the second
  one only, because each import begins by removing what its environment and
  script refer to.
* `log_last_message`: when two messages come together the page gets one of them;
  the other waits in the redis client until a third one comes. From the
  confirmation of the subscription on a page can be behind by what it received
  at once, and nothing comes after the last message of a job.

Met while modelling, without a run of their own: the history is read from its
element 1 (`sem/store.py:111`), so that a page never gets the first message,
while the tests read the list from 0 (`MissesOneAtMost` exempts it); a page that
connects while messages are emitted may be sent some twice, and its progress bar
goes back until it has read them all (`BarsAreCurrent` says where it ends); a
progress of `100.0%` (`sem/container.py:300`) does not match the four characters
`processing.js:115` allows, so that it is printed in the terminal and the bar
stays where it was; `committed` of a job's files is never set; two imports at
once can make two points at one spot, where `sem/models.py:54` says they are
merged; a `commit` task that finds its directory made by another job's task fails
and leaves its remaining files; a command that was killed has a negative return
code, which `ExecWrapper` takes for success (`exec_wrapper.py:81`); the message has the plan of the
moment of `start_job` (`models.py:334`), so that an edit while the job waits for
its planned start changes what the page shows and not what is executed (nothing else can make the
two differ, `PlanIsExecuted`); the time to live is set on the
key of the latest message and not on the list (`sem/store.py:79`), so that the
history never expires, while `settings/base.py:513` announces a purge; a stop
request that arrives while a job's clean-up is between image and domain leaves
the domain running for good; a revision of the OpenEarth tools is passed to `svn`
as the text of a boolean (`sem/tasks.py:169`); an edit whose copy was read
while the job was CREATED publishes a second message; a job left CREATED by a
failed `start_job` becomes PENDING by the first poll, never runs, and is
polled for ever; a failed import has already removed the data of the run before
it (`csv_worker.py:476`, the transaction begins at 484); its UPDATE and its DELETE
(`csv_worker.py:164-172`) can deadlock with an import that saves, and when the
DELETE is the one that is aborted or fails, observations without a reference stay
until somebody's next purge; of two deliveries of a job that both find no image
(`container.py:266`) the later opens it (287) over the other's, even one on which a
domain runs; `csv_worker` that
exits with an error fails the `commit` task and leaves the remaining files
uncommitted, while one that is killed, or a NetCDF file that cannot be
committed, is only logged and the job is FINISHED.

And in the accounts: `delete_user` seeks `UID=<name>` (`libs/auth.py:249`), and
without binding first, while `create_user` makes `CN=<name>` (195), so the entry and the
groups of a user that this code made outlive its deletion; the next login makes
the row again, and the name can be registered no more, as
`add_s` finds the entry. For the same reason a registration that failed after
its entry was made cannot be repeated. An admin who gives a user another name (`admin.py:11` inherits a form with the
name) leaves its entry and groups under the old one: the user cannot log in by the
new name, and a login by the old one makes a second row. Users without a password in Django fail
`clean_old_password` (`libs/auth.py:354`), which asks Django only, so they cannot
change their password but by a reset.

## 6. What is left out, and assumptions

* **Celery, kombu, Redis, Django, PostgreSQL, ws4redis** are external; they are
  modelled from how the code uses them (celery 3.1, kombu 3.0: a revocation is
  a broadcast kept in memory, a task is acknowledged when it starts, an
  unacknowledged one is delivered again after the visibility timeout, a result
  that is not there is PENDING). `task_revoked` is called once per
  revocation, as the comment at `tasks.py:253` says.
* **Job**: deletion of a job; the command lines sent over SSH; the names, sizes
  and copying of result files (an attached file is a count). `task_prerun` fires
  for `commit` too, with a task id that no row has, and is ignored there. The
  tasks may fail in each step; that the handlers of `task_prerun`, `task_failure`
  and `task_revoked` fail over a query of their own is not modelled.
* **CSV**: distances between points (places are either one spot or far apart; a
  chain of points less than a metre from the next has no definite merge) and the
  `processing_jobs` array, which nothing reads back. A row that occurs twice in a chunk is saved twice,
  to the same effect. The hash of environment and script is a model value; the
  code takes the md5 of key and script concatenated.
* `TableShowsLatestRun` is stated for imports with no other import at work
  meanwhile; with one, an import of the same environment and script may
  dereference what another is saving.
* **Container**: the results directory, which the tasks only ever create;
  a crash of the worker's main process, after which nobody cleans up (see
  `JobLifecycle`); a handler that fails before its clean-up over a query of its own; the clean-up by the handler of a failed `commit`
  (`CommitFailCleanup` of `JobLifecycle`, `RemoveAgain` of `ContainerPromise`). Undefining a running domain leaves it running.
* **Log**: buffer limits of Redis subscriptions; publish and setex are one step,
  so are rpush and expire. Pages do not publish. The subscription each call of
  `setup_logger` opens has no effect on what is modelled.
* **Accounts**: the policy for passwords and their hash, the mails and tokens of
  a reset, sessions, and the groups that LDAPBackend mirrors to Django. The
  staff flag stands for staff and superuser. `LoginView` would set the flag from
  an attribute that nothing sets (`views.py:110`). The uniqueness of DNs,
  of members of a group and of names in Django are taken from LDAP and the table.
* **Commit worker**: the marks on a NetCDF file; `mark_unpublished`, which only
  tests call; file names beyond which destination they give. A job's results
  are read once, at the start of the loop.
* **Command wrapper**: the pause of `poll`, which returns after a second without
  an event and is called again; `SecretString`; the interrupt of a system call.
* **Job page**: colours, scrolling, and messages that say what is not there.
* **Vendored JavaScript**: almost all the lines of JavaScript in the repository
  are libraries (select2, bootstrap, highcharts, jquery, metisMenu) and the theme
  sb-admin, which are no logic of this program. The program's own script,
  `processing.js`, is modelled but for cookies and layout.
* **Not modelled**: components of section 1 with that status in `PROJECT.json`.

## 7. Plan

All modules of the plan are written. What is left, in the order of importance:

1. **Accounts**: an abstract specification of one set of users, of which deletion
   shows that the code does not implement it.
2. **Composition**: `CommitTask` with the moves of `ResultTable` as its imports, and
   `JobLifecycle` with the loop of `CommitTask`; each is a state space of its own
   today, joined by the one step named in section 2. `ContainerPromise` is how it
   is done between `JobLifecycle` and `Container`.
