# A TLA+ model of px-accounts-service

px-accounts-service keeps the online accounts of a desktop user. Clients ask it
over an RPC socket to list, read, create, edit and delete accounts and to report
their status. What makes it hard is not concurrency between requests - one
thread handles them, each to its end - but that each request changes several
stores one after the other, none of them transactional: the account file, the
secret service (another process), the data that plugins keep, the status
dictionary in memory, and what subscribers of the event service were told. Any
of these steps can fail, and SIGINT ends the process between any two of them.

## 1. Inventory

| part | state | operations | talks to |
|---|---|---|---|
| `AccountManager` | `m_parsers`, `m_statDict` | create, modify, delete, list, read, set/get status, `createAutoInitializingAccounts`, `verifyAccountCreationLimits`, `findParser` | all below |
| `AccountObject`, `AccountService` | one account in memory | verify (plugin verify, authenticate, save tokens, plugin write), cleanup, removal | plugins, `SecretManager`, `ProviderHandler` |
| `AccountParser` | one directory of YAML files, writable or read-only | read, list, write, remove, hasAccount | `AccountUtils` (files) |
| `SecretManager`, `RPCClient` | none; a connection per request | set, search, delete secrets | px-secret-service |
| `EventManager` | one nng push socket | create, modify, delete and status events | px-events-service |
| `PluginManager`, containers | loaded plugins; plugins may keep data of their own | load at start; verify, authenticate, read, write, remove | Python and C++ plugins |
| `ProviderHandler` | provider presets | load at first use | - |
| `RPCHandler` | none | one handler per RPC; exceptions become RPC errors | `AccountManager` |
| `RPCServer` | thread, `isRunning` | start, stop, restart, destructor | the owner's thread, clients |
| `main` | - | initialises all of the above, creates auto-initialising accounts, starts the server; SIGINT calls `exit(0)` | - |
| `Logger`, `AccountUtils`, `Utils` | log engine | output, paths, files | - |

What makes each part correct:

- *AccountManager*: an account that exists has its tokens and plugin data
  stored; an account that does not exist leaves nothing behind; a failed request
  changes nothing a client relies on; read-only accounts are never changed; an
  account lives in one directory; limits hold; start-up creates an account once.
- *Status*: it belongs to an account that exists, is forgotten at restart, and
  agrees with what subscribers were told.
- *AccountParser*: list, get and edit agree on which accounts there are.
- *SecretManager/RPCClient*: a lost answer is not taken for success, a refused
  request not for failure of the whole account; to its caller a request is one step,
  and its thread does not outlive it.
- *EventManager*: an event arrives at most once, one that was reported as sent arrives,
  and no event service, however slow, stops the serving thread.
- *PluginManager, ProviderHandler*: what is loaded follows from the files and their
  precedence, not from the order in which a file system lists them.
- *main, AccountUtils*: the directories exist when the service takes requests.
- *Logger*: its two filters agree, and syslog is open when it is written to.
- *RPCServer*: stop stops, restart serves again, no client waits for ever.

Hard to test, and the reason for the properties: failures between two stores,
lost answers, crashes and second starts, plugins that disappear between two
starts, truncated files, the race between an owner and a server thread that is
still starting, a service that hangs or goes down in the middle of a request, two
processes that make the same directory. `PROJECT.json` lists these hazards line by line.

## 2. Modules

```
AccountDefinitions          ids, services, references, statuses, kinds of fault
 |- PluginManager           plugins that are served, data plugins keep
 |   '- AccountParser       directories and files; findParser, list, read, write, remove
 |- SecretManager           the secret service as requests change it
 '- EventManager            what a subscriber knows
      AccountManager        composes the four: every operation, step by step
       |- AccountProperties     what must hold, and the documented promises that do not
       |   '- AccountManager_proofs
       |- AccountRegistry       abstract: what clients rely on
       |- AccountRefinement     AccountManager implements AccountRegistry
       |   '- AccountHomes_proofs       homes, statuses, subscribers, the refinement
       |       '- AccountRequests_proofs    limits, start-up, progress
       '- MCAccountManager      instances for TLC
AccountService              one service of one account: its parameters and secrets
 |- AccountService_proofs
 '- MCAccountService
RPCServer                   owner, server thread, clients
 '- RPCServer_proofs
MCParts                     instances of the parts around the account manager:
 |- RPCClient               a request to the secret service: caller, thread, service
 |                              (implements SecretManager)
 |- EventSocket             dial, send, connections, the event service
 |- AccountUtils            paths, mkpath
 |   '- Startup             main() and its directories
 |       '- Startup_proofs
 |- Logger                  engines, levels, syslog
 |- PluginLoading           plugin paths, information files, modules
 '- ProviderHandler         provider files of three directories
Channels_proofs             of RPCClient, EventSocket and Logger
Loading_proofs              of PluginLoading and ProviderHandler
```

**Data.** An account is its id; a file holds, for each service, nothing
(`Absent`), parameters (`NoPid`) or the id under which a plugin keeps the
parameters. Titles, providers' names, settings and parameters are left out (with them
`list`'s filter on providers; its filter on services is there): a title or provider
that `AccountObject::verify` turns down is the input `wellFormed = FALSE`.
A file may also be `EmptyFile` (truncated, not written) or `GarbageFile` (cut off
where it does not parse); one cut off between two lines is an account with fewer
services. `readId` keeps a consequence that matters: an empty file reads as an
account with the null id.

**AccountManager** has one action per step that another party can observe, and
`pc` names the next step:

| pc | action | code |
|---|---|---|
| down | `Start` | `main`: plugin, event, secret initialisation |
| scan, boot | `Scan`, `AutoInitialize`, `Serve` | `createAutoInitializingAccounts`, then `srv.start()` |
| idle | `Add`, `Edit`, `Remove`, `SetStatus` | the RPC handlers up to their first external step, with their early returns |
| verify | `VerifyService`, `VerifyThrows`, `BeginDrop`, `OpenFile` | the loop of `AccountObject::verify`; verify and authenticate of a plugin; an exception no container catches |
| save, write | `SaveSecret`, `WritePlugin` | `_saveProtectedParams`, the plugin's `write` |
| drop | `DropSecret`, `VerificationFailed` | `removeSecrets` of every service when one failed |
| flush | `FlushFile` | the ofstream's close |
| status | `ResetStatus` | `setStatus(id, AC_NONE)` with its event |
| cleanup | `CleanupOld`, `CleanupDone` | `AccountObject::cleanup` |
| emit | `EmitWritten` | the create or modify event; `Instance()` throws without a socket |
| premove | `RemovePluginData`, `RemoveSecrets` | `performAccountRemoval` |
| unlink, erase | `UnlinkFile`, `EraseStatus` | `AccountParser::remove`, the end of `deleteAccount` |
| any | `Exit` | SIGINT; idle only, unless the run admits crashes |

An exception ends a handler with an error at the client; in
`createAutoInitializingAccounts` nobody catches it and it ends the process.
Truncating and writing a file are two actions because the ofstream truncates when
it is opened and writes when it is closed.

**Faults** are a constant: a run names those of the environment it admits
(`AccountDefinitions`). A property is checked under as many of them as it can bear,
and the table below says which.

**AccountService** is the same path, `Request` (add or edit) - `VerifyParams` -
`Authenticate` - `SaveSecret` - `WritePlugin` - `WriteFile`, or `DropSecrets`
after any failure, seen from the other side: one service, but with the values of its
parameters. A key is missing, blank or has a value; `protectedDict` is what
`isProtected` knows; `stored` is what the secret service holds for each protected key,
and `Item` says which keys share a secret, from the schema of the plugin's tokens
(`Role`). `loadFrom` is the loop that fills blank protected parameters: each secret
of the service overwrites all of them, so the last one that the search lists decides, and
the order of a search is not fixed. `isUserPassword` is false for every key, because
it compares the map's end (undefined behaviour; with libstdc++ the memory read there is
a string of another length). A plugin's `verify` is that of the example plugins: it
returns what it was given, and a blank for each protected parameter it was not given, or
turns the request down. Its `authenticate` accepts or refuses whatever it gets, blanks
included, as the example plugins do (`px_accounts_service_plugin_python_test.py`), and returns
a token with the value of each protected parameter. Either may throw (`PluginThrows`).
`request`, `reply` and `heard` (the search of this request was answered) are history variables. Account files are written at once here, and a
new account starts with no secrets, as its id is new; removal is left to `AccountManager`.

**RPCServer.** The owner's calls are split at each access of `isRunning` and
`tServer`, the server thread at listening, announcing (`isRunning = true`), and the
loop's test and poll. `isRunning` is a plain `bool`: a data race. The loop calls code
that the compiler does not see between two reads, so the build re-reads the flag
each time; the model interleaves single reads and writes and no more than that.
A `patient` owner makes no call while a start is under way, as `main` (which never
stops its server) and the test programs, which run a test session between start and
stop, do in practice. That a unix socket's file outlives its listener, and that binding an
existing file fails, are facts of the platform that the constructor's own
`FILE::remove` answers to.

**RPCClient** is the request behind each step of `SecretManager`: the caller in
`join`, the request thread that connects, sends and waits, and a service that applies a
request or turns it down, goes down with the request applied and not answered, or hangs.
`storeOfCaller` is the store as the caller may see it, changing only when its call
returns; `ImplementsRequest` says that each call is then one step of the module
`SecretManager`, the one the account manager composes. It is the justification for
treating a request as one action there. The callbacks are those of `SecretManager.cpp`;
that of `search` takes an exception for success, with nothing found.

**EventSocket** is one `emit` after the other on one push socket. Each dials again, so
connections add up; each message goes to any connection with room. What nng does is
external, taken from how the code uses it: a dial waits, a broken connection is dialled
again, a send waits for room. In `EventManager`, `lost` stands for what can go wrong here.

**Startup** is `main()` as far as directories and the environment decide how it goes,
calling **AccountUtils**' `mkpath`, whose recursion is a walk down to a directory that
exists and up again, one `mkdir` a step, with other processes at work on the shared
part of the path. `wordexp` is modelled by what it does to the paths at hand: `~` is
expanded, and of a path with a blank the first word is left. `ndebug` is a build without
assertions, in which the RPC directory is never made.

**PluginLoading** and **ProviderHandler** are the two constructors, file by file, over
every content of the paths within the bounds and every order in which a file system can
list them. Python keeps one module per name, so that a second plugin whose name maps to
the same module runs the first one's code (`effective`). A library that opens but has no
allocator ends the process (`TitleFails`).

**Logger** is set up by `main` before any thread runs, and changed by `setLevel` and
`setTarget`; as nothing else runs then, a change is one step. `engine` is the target
of the engine at hand, which `init` compares with the new one.

**MCParts** is a disjoint union: a behaviour is one of one part, and each part keeps the
fairness of its own specification. The parts share no state; one module and one run
check them together.

## 3. Runs

| run | faults | checks |
|---|---|---|
| `sound` | plugins not loaded at a start; weak fairness | `NoOrphanSecrets`, `SubscriberInSync`, `RemovalCompletes`, `OkMeansDone`, `HandlerEnds` |
| `storage` | crash, torn file, disk, secret service, plugins that throw or are not loaded | `TypeOK`, `CommitIsBacked`, `ReadonlyUntouched`, `CreationWithinLimit`, `AutoInitOnce`, `HandlerProgress` |
| `registry` | crash (but not between truncation and flush of a file), plugins that throw, no events; two writable directories | `RegistrySpec` (refinement), `StatusOfExisting`, `UniqueHome`, `ListedIsGettable` |
| `service` | crash, plugins that throw, lost searches, lost answers | `NoProtectedInFile`, `KeepsPasswords` |
| `server` | patient and hasty owners, any address; weak fairness | `NeverTerminated`, `StopStops`, `NobodyWaitsInVain`, `StopReturns`, `EveryRequestEnds` |
| `parts` | other processes in `/tmp`; secret and event services that go down, hang, do not read; bad plugin and provider files; weak fairness | `MkpathMakes`, `MkpathReturns`, `PlainDirsMade`, `FiltersAgree`, `AtMostOnce`, `SendHasRoom`, `NoneLost`, `EmitEnds`, `SentArrives`, `ThreadWithinCall`, `ImplementsRequest`, `CallReturns`, `LoadedAsFound`, `ProviderPrecedence` |

Properties the code does not keep, each a run TLC finds violated and a finding in
`PROJECT.json`:

- `failed_edit`: an edit that fails to verify deletes the stored secrets of the
  account that stays on disk. The clean-up was written for failed creations.
- `edit_limit`: `max_count` is only looked at when an account is created; an edit
  that adds the service goes past it.
- `lost_write`: a creation whose file could not be opened answers ok; `FILE::write`
  reports success whatever becomes of the stream.
- `home_dir`: a user directory given as `~/x`, or with a blank in it, is made under its
  expanded name and used under the literal one: `AccountManager::Init` computes the
  absolute path and drops it.
- `restore`: the user's half of a dual_password secret is never loaded for a blank
  parameter: `isUserPassword` looks for a misspelt attribute.
- `restart`: `restart()` on a unix socket ends the process, as nothing removes the
  file of the first listener.

Some limits of what holds are as telling. `KeepsPasswords` says that an edit which answers ok
stores what it was given and otherwise keeps what there was, never one value in the place of
another; but a plugin that accepts blanks has a blank stored over a password that was
not given where loading cannot find it, which is always so of the user's half of a dual password
(`restore`) and of an oauth2 secret, and of any password when the search of this very request
failed, since `search` takes an exception for an empty result. Only those blanks are excepted,
each exception is reached in the run, and a test asks clients to send protected parameters
again with each edit (`tests/test_rpc_server.cpp:31`). The property holds for a service whose tokens go
into one secret. With two password secrets it does not: the loop of `_verifyParams` compares no
key, and an edit that leaves one blank stores the other in its place and answers ok (`Role`
set to `password` for both keys shows it).
`OkMeansDone` holds as long as disks do: `FILE::write` reports success whatever
becomes of the stream, so a request may answer ok while its account file is missing, empty or
cut off. `NoOrphanSecrets`, `SubscriberInSync` and
`RemovalCompletes` hold only while the stores answer and the process does not end
in the middle of a request: nothing in the code finds orphans at the next start, and
an account whose plugin data went in a removal that was cut short can never be
removed again. `RegistrySpec` and `UniqueHome` hold only as long as no file is torn:
a truncated file has no id, and an edit of it goes to the first writable directory.
`StopStops` and `NeverTerminated` are about patient owners, because a `stop()` right after
`start()` finds `isRunning` still false and does nothing, and a second `start()` then
overwrites a joinable thread. `NeverTerminated` excludes unix sockets because of
`restart`. Two more that have no run of their own: after a crash between truncation and
flush an empty file is listed under the null id, and `get` cannot find it, so
`ListedIsGettable` is about whole files; and without an event socket a created account is
saved and then reported as an error, because `Instance()` throws before `emit` can go on
without events. Events may overtake one another, being spread over connections, and one
whose dial fails is dropped: `SentArrives` is about those for which `emit` answered true. `SubscriberInSync`, which has each
event heard at once and in order, says what the code does up to that.
`LoadedAsFound` needs names that are unique within a path, and `ProviderPrecedence` leaves
open what is loaded from a directory with a bad file, for there the order decides.
`MkpathReturns` is about absolute paths; for `a`, `mkpath` calls itself until the stack
is used up. When another process makes a directory between the look and the `mkdir`,
`mkpath` answers false though the directory is there, which the assertion in `main` turns
into the end of the process.

**Bounds.** Two account ids, one of which may be provisioned before the first
start in any directory: enough for one account to exceed a limit of one, for an
edit or a removal to meet another account's state, and for a directory mix-up.
Two services, one with a limit of one and a plugin that keeps
data, one unlimited and created at start-up: enough for "one service verified, the
next failed", and for an edit that adds, keeps and drops a service. One plugin id, so ids
run out and a `write` may also fail. One status besides `none` where statuses matter (`sound`,
`registry`). One directory of each kind, two writable ones in `registry`, which in
return has no plugin with data of its own: what it keeps is no part of the abstract state.
`freshIds` restricts a new uuid to one that has left no trace, and a start-up that has none left
counts as a failed creation; `freshPids` does the same for plugin ids. None of the
actions has a counter; the state spaces are finite and explored in full, 300 000 to
1.8 million states for `AccountManager`, 2481 for the server, with two clients: one request
can be answered while another is cut. `service` has one plain parameter, both halves of a
dual password and two values, so that a mix-up of halves or of old and new shows; its
570 000 states include every input a client can send. No symmetry is declared: with the one account that may be provisioned told
apart, nothing is left to permute.

In `parts`: four events over three connections with room for one message each, and an event
service that goes down twice, so that events overtake, sends wait, and descriptors run out;
one account with two services at the secret service, as a
request touches no other; two plugin paths with two files each, of two names that share a
python module, and every kind of plugin; three provider directories with two files each out
of two titles in two variants and a bad one; user directories of each kind of path (absolute,
two in one new directory, `~`, a blank, relative), an environment with `XDG_DATA_HOME` unset,
empty and set, both builds, and three sets of directories at first.
156 333 states.

**Fairness.** `FairSpec` asks that a handler that began keeps running
(one thread, no lock) and that the secret service answers every request, in
either way. The second is an assumption about another process:
`RPCClient::performRequest` joins its thread without a timeout, and without the
assumption `HandlerEnds` fails. No fairness is asked of clients, plugins' results,
restarts or faults. `ServerSpec` asks that both threads are scheduled. `ClientSpec`
drops the assumption on the secret service and puts the exception into the property:
`CallReturns` holds unless the service hangs. `SocketSpec` asks that the serving thread and
nng's threads run, that a service which went down is started again, and that one which
reads reads on; `reads` may be false for good, and `EmitEnds` holds even so. `StartupSpec`
asks that `main` runs; nothing is asked of the other processes.

## 4. Proofs

TLAPS proves for every value of the constants that satisfies the named assumptions
(`DataAssumption`, `PluginAssumption`, `DirAssumption`, `ServiceAssumption`,
`SocketAssumption`, `PathAssumption`, `StartupAssumption`,
`LoadingAssumption`, `ProviderAssumption`; the server and the logger have none), under all faults unless a
theorem says otherwise. Three of them ask for what is so by
nature: a directory holds finitely many files at first, a marker for a file that cannot be read
or for no plugin at all is no information file, and one for no provider is no provider.

- `TypeCorrect`: `Spec => []TypeOK`. `TypeOK` is inductive as it stands; the proof
  has a step per action, with lemmas for the ends of a handler (`EndTypes`), for
  `setStatus` and for what a cut-off file may hold (`CutOffFile`).
- `CommitsAreBacked`: `Spec => CommitIsBacked`, the property of the `storage` run.
  It needs the invariant `BackedInv`, which says what has been stored so far at each
  point of the verification: while the loop has met no failure, the token of every
  service it is past; in `write`, that of the service at hand; and at the flush, the tokens and the
  plugin data of all of them. No step between the loop and the flush removes a secret
  or plugin data, which is where the single thread matters.
- `FileHidesProtected`: `ServiceSpec => []NoProtectedInFile`, from `FlagsKept`: between
  verification and the file every protected parameter in memory is flagged, unless
  the plugin took the map over.
- `PasswordsKept`: `OneItem => (ServiceSpec => []KeepsPasswords)`. `OneItem`, that all
  tokens of the service share a secret, is exactly what loading needs: what is loaded for a
  key is then what is stored for it, or a blank because nothing is stored or
  the key is not `readable` (`LoadedIsStored`), and a search that lists nothing means that
  nothing readable is stored (`NothingStored`). `KeepsInv` follows each password from the
  request over what is loaded to what is stored, pending items included: at each point it is
  `Right`, the one wanted or an excused blank.
- `StopLeavesNoThread` and `NoCallTerminates`: `StopStops` and `NeverTerminated` for
  a patient owner, the second when the address is no unix socket, from the
  invariant `OwnerKnows`, which says what the owner's place in its program tells
  of the server thread (in particular, a thread that ended is being joined).
- `WaitsAreServed`: `ServerSpec => []NobodyWaitsInVain`, for hasty owners too: what `StopReturns`
  and `EveryRequestEnds` rest on besides fairness. `isRunning` is set only while a thread is in
  its loop (`FlagKnows`), so a stop that saw it set cannot clear it too early.
- `ReadonlyStays`: `Spec => ReadonlyUntouched`. `RoInv` says that the id a request
  writes to, or whose secrets it takes away, never lies in a read-only directory. It rests
  on `findParser`'s `onlyWritables`, on the id of a new account being new, and on the
  initial states, in which an account is provisioned in one directory.
- `OneHome`, `StatusHasAccount`, `ListedCanBeGot` and `ImplementsRegistry`: `UniqueHome`,
  `StatusOfExisting`, `ListedIsGettable` and the refinement `RegistrySpec`, each under
  `Untorn`, that files are neither torn nor fail to be written. All four follow from one
  inductive invariant, `HomeInv`: every file is whole (`WholeFiles`), apart from the one being
  written; an account has one home; a status belongs to an account; and at each step a
  request's record names the account and the directory its file is in (`HomeCall`). `Untorn`
  is needed: an edit of an empty file in the second directory goes to the first, and a
  removal of one erases the status of the null id. `StepKinds` sorts the steps by what they
  do to files and statuses, so that the refinement has one case per kind: all but the commits,
  the unlink, the status changes and the restarts stutter.
- `OkIsDone`: `Spec => OkMeansDone`, under `Untorn` alone: it needs neither the secret service
  nor the plugins nor the events to work. `Answered` says that from the write to the answer
  the file holds the account that was verified, and that from the unlink on no directory
  has the one removed, which is where `UniqueHome` is needed.
- `SubscribersInSync`: `[]SubscriberInSync` under `Heard`: `Untorn`, no crash, an event socket,
  no event lost. `SyncInv` says by how much the subscribers are behind at each step: by the
  account just written, or just unlinked, until its event.
- `SecretsHaveOwners`: `[]NoOrphanSecrets` under `Unfailing`: `Untorn`, no crash, an event
  socket, and plugins and a secret service that do not fail (though a verification may say
  no). `SecretsOwned` says which services' secrets the request still has to give an
  account, or to take away: those of the account being verified, then also those it had,
  and at last those it no longer has.
- `RemovalsComplete`: `Spec => RemovalCompletes` under `Completing`: `Untorn`, no crash, an
  event socket, plugins that do not throw. `HeldInv` says that plugins hold what the
  files refer to and that no two services share it, so that removing one account's data
  leaves every other account removable.
- `CreationsWithinLimit` and `AutoInitsOnce`: `Spec => CreationWithinLimit` and
  `Spec => AutoInitOnce`, under all faults. The limits are looked up when a request arrives, and the
  list of accounts is taken once per start-up, but the file is written many steps later.
  `LimitInv` carries what was found there to the flush: `RoomLeft`, that each limited
  service of the account still has room, and `NoneYet`, that neither the service at hand nor one
  that start-up has yet to visit has an account. Between the two no step adds a file, which is
  where one thread for all requests matters; the flush adds one account at most
  (`FlushAddsOne`), also when it is cut off. The counting needs that there are finitely many files
  (`Stored`), so that is part of the invariant.
- `HandlersProgress`: `Spec => HandlerProgress`, under all faults, the part of `HandlerEnds` that
  is not about fairness. Every step of a handler or of start-up lowers the measure `Closer`
  compares: the phase of start-up, the services it has yet to visit, the stage of the request,
  the services its loop has not reached, the part of one service. With finitely many
  services it cannot fall for ever; that each step is taken is what fairness adds.
- `CallIsOneStep`: `ClientSpec => ImplementsRequest`, assuming that the fault `secret` is
  among those admitted, as `SecretManager` needs it for a request to fail at all;
  `ThreadEndsWithCall`: `[]ThreadWithinCall`. The invariant ties the thread's place to what
  became of the message and to what the store holds since the call began.
- `NoDuplicates`: `SocketSpec => []AtMostOnce`, from: an event is on at most one
  connection, none that has been received is on any, and one that is neither sent nor being
  sent is nowhere.
- `SendsHaveRoom` and `NothingLost`: `[]SendHasRoom` and `[]NoneLost`, what `EmitEnds` and
  `SentArrives` rest on besides fairness. `LastEmpty` says that the connection dialled just
  before a send is still empty, and `Standing` that none breaks before the service first goes down.
- `FiltersAlike`: `[]FiltersAgree`. The logger's target is always its engine's, and while that
  is syslog, syslog is open with the mask of the level.
- `MkpathMakesAll`, `PlainDirsAreMade`: `MkpathMakes` and `PlainDirsMade`, for any paths and
  any directories at first. The existing directories stay closed under prefixes,
  `cur` stays on the way to `goal`, and every plain path that is no longer waiting for its
  parser exists or is the one being made.
- `ProvidersArePreceded`: `ProviderSpec => []ProviderPrecedence`, for any files and any order in
  which they are listed. `KnownIfListed` follows each provider of a directory without bad files
  from the moment its file is listed, and `KnownWasFound` says that what is known was found in
  a directory that has been entered, so that an earlier one never replaces a later one.
- `LoadedByContents`: `LoadingSpec => []LoadedAsFound`, for any plugins and paths. While the
  paths are read, `KeptIsLast` says that of each name the last path's file is kept. In
  `initPlugins`, `InOrder` says that names are visited in order, `ImportedIsFirst` that under
  each module name the first plugin that brings it was imported, and `LoadedIsLast` that a
  title is served by the last name that runs as a plugin with that title, its own code or
  that of the module's first (`RunsAs`). `SourceRuns` then turns this into what the files say.
- Each of these modules has its type theorem (`ServerTypeCorrect`, `ServiceTypeCorrect`,
  `SocketTypeCorrect`, `RequestTypeCorrect`, `LoggerTypeCorrect`, `StartupTypeCorrect`,
  `LoadingTypeCorrect`, `ProviderTypeCorrect`).

Only model-checked: liveness (`HandlerEnds`, `StopReturns`, `EveryRequestEnds`, `EmitEnds`,
`SentArrives`, `CallReturns`, `MkpathReturns`), which the prover does not do, as it knows nothing
of `ENABLED`. Every other property of a passing run is proved.

## 5. Not modelled

- What plugins do inside (`src/python-test-plugin`, C++ examples): they are the
  environment. In `AccountManager` they accept, refuse or throw in verify and authenticate,
  store data or not, and throw from `write` after they stored or before. In `AccountService`,
  where values matter, they pass on the parameters they are given; a plugin that makes up
  other values, or returns tokens for some of its protected parameters only, is left out.
- Generated code, the RPC and YAML libraries, and the text of files, messages and log lines.
  Titles, settings and the `services` parameter of events are text.
- The parsing of the command line, which CLI11 does; its results are inputs of `Startup`.
- The function-static map of level names in `Logger::log` (`Logger.h:152`), which every thread
  rewrites without a lock on each message.
- What `exit(0)` in the SIGINT handler still runs: the static destructors, which delete the
  logger's engine and the event socket under a server thread that has not ended. `Exit` ends
  the process at once.
- The effect of descriptors that run out on anything but events.
- `ErrorReporter` and the string helpers of `AccountUtils` and `Utils`, which no state
  depends on; `RPCHandler::ACT2RPC`, which copies the account as it is in memory into the
  answers of `add` and `edit` and changes nothing; `SecretManager`'s queries for schemas and
  attributes have no callers, but are in `RPCClient` all the same.
