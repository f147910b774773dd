# KafkaUI in TLA+

KafkaUI is one Go process with an HTTP API and an embedded React frontend. It keeps little state of its
own, and what it keeps is changed by HTTP handlers that run concurrently, take several locks or none, and
can be cut off by a crash between any two steps. The frontend keeps caches, forms and requests under way, and hears of
what it asked for late, in any order, or for a page that is gone. This directory holds TLA+ models of that state, TLC runs
that check them on small instances, and TLAPS proofs for every size.

Source references are relative to the repository's root. `PROJECT.json` maps every definition that models
code to the lines it models, lists the runs, and names for every property a mutant of the model (a
plausible bug) under which TLC finds the property violated.

## 1. Inventory

| Component | State | Operations | Interacts with |
|---|---|---|---|
| Cluster administration (`handlers/admin.go`) | the set of static names, `serdeChains` (a plain map shared with live tail) | AddCluster, UpdateCluster, DeleteCluster, TestConnection, list | dynamic configuration, registry, one lock each |
| Dynamic configuration (`config/dynamic.go`) | `dynamic.yaml`, replaced by rename, under a mutex | Load, Add, Update, Remove | start of the server |
| Registry (`kafka/registry.go`) | `order`, `clients`, `configs`, under a RWMutex | New, Add, Update, Remove, Get, List, Count | every handler that talks to Kafka |
| Start (`cmd/kafkaui/main.go`) | none | load, merge, build clients, chains, serve, or exit(1) | all of the above |
| User store (`auth/store.go`) | SQLite: `users`, `role_assignments` (foreign key, cascade), one connection | UpsertUser, GetUser, AssignRole, SetRoles, DeleteUser, UserCount | login, user administration, role middleware |
| Login (`handlers/auth.go`) | cookies of the browser: session; state and nonce during a provider's login | LoginBasic, LoginProvider, Callback, Logout, Me, Permissions, Status | user store, limiter, providers, role resolution |
| User administration (`handlers/admin_users.go`) | none | list, get, SetRoles, Delete | user store, `RequireRole` |
| Login rate limiter (`auth/ratelimit.go`) | count and window start per key, a sweep counter, under a mutex | Allow | login |
| Permissions (`auth/rbac.go`, `auto_assignment.go`, `role_resolver.go`, `middleware/rbac.go`) | rules, expanded at start | NewRBAC, ResolveRoles, IsAllowed, AutoAssign, RequireAction | every guarded route; the buttons of the pages |
| Reading a topic (`handlers/message.go`, `kafka/client.go`) | a consumer per request | Browse, ConsumeMessages | brokers, masking, CEL |
| Live tail (`api/ws/livetail.go`, `hooks/useWebSocket.ts`) | a socket, a consumer, a reader goroutine; the hook's reference to its socket | connect, stop, close, message, ping | registry, serde chains, CEL |
| Metrics (`internal/metrics`, `handlers/metrics.go`) | series and latest snapshot per cluster, 24 h, under a RWMutex | Append, evict, GetLatest, QueryMetric; a collector with a round of scrapes every 30 s | metrics endpoints; clusters that have a metrics URL at start |
| The rest of the Kafka client (`kafka/client.go`, `acl.go`, `users.go`) | none | produce, topics, groups, offset reset, ACLs, SCRAM users | brokers |
| Schema client and serde (`internal/schema`, `internal/serde`) | cache of schemas by id | GetSchemaByID, the chain's detection order | reading, live tail |
| Kafka Connect, ksqlDB (`internal/connect`, `internal/ksql`) | none | HTTP requests; a connector is looked up in several Connect clusters | handlers |
| Health, dashboard (`handlers/health.go`, `dashboard.go`) | none | fan-out over registered clusters, with a timeout | registry |
| Masking, CEL (`internal/masking`, `internal/cel`) | compiled rules | pure functions on messages | reading, live tail |
| Cluster settings page and wizard (`SettingsClustersPage.tsx`, `components/wizard`) | the wizard's reducer, the query `admin-clusters`, the delete dialog, requests under way | open, enter, step, test, save, delete | admin API, also that of other admins |
| Fifteen resource pages (`frontend/src/pages`) | a query in the cache, a form, a confirmation, mutations under way | open, enter, submit, delete, press, leave, come back | the API; everybody else's changes |
| Message browser (`TopicMessagesPage.tsx`) | parameters of the last press, a counter in the key, cached answers; filter, verdict, validations under way | fetch, tail, validate | reading, live tail, CEL |
| Metrics page (`MetricsPage.tsx`) | preset, custom range, start of live mode, cached answers | choose, refetch, retry | metrics |
| Browser session (`AuthProvider.tsx`, `LoginPage.tsx`, `RequireAuth` in `App.tsx`, `usePermissions.ts`, `lib/api.ts`) | who is signed in as the tab has it, permissions in the cache | start, log in, log out, a 401 that loads the page anew | login, permissions |
| UI components, theme, routing table, configuration, deployment | — | — | — |

**What is hard.** Handlers change the file, the registry and the chains one after the other, and answer
success or failure for the whole. A crash leaves what was saved and nothing else. Logins insert, count,
promote, seed and set a cookie as separate statements while an admin deletes the user. The limiter reads
the clock twice and uses `>` in one place and `>=` in the other. The tabs of a browser share one pair of cookies for logins
that overlap. Role groups list each other. A read of a topic computes where to begin from two lists that are taken one after the other while records come and go.
A tail has two ends that close independently, and
the hook hears of sockets it no longer refers to. A request for metrics reads the store several times while snapshots
are stored and time passes. A page's answers come after it was left, after the form was changed, under another label, or
before a change that was announced to it; its caches outlive it. `PROJECT.json`, under `hazards`, lists
each of these at its line with the properties that are about it.

**What makes each part correct.**

* *Cluster administration*: the registry's parts agree; clusters of `config.yaml` are never touched; the
  file has no name twice and can be loaded again; a success means saved, served and decodable; a crash
  loses nothing that was saved.
* *User store and login*: role assignments belong to users; one account, one user; promotion reaches the
  oldest account or none; nobody edits their own roles; an admin's choice is not overwritten by logins.
* *Limiter*: at most the documented attempts per window; nobody is refused early; forgetting old windows
  cannot be noticed.
* *Logins with a provider*: only the last login of a browser gets through, and what becomes of those before it does not keep it from that, one order
  excepted (section 6); a state is never accepted with another login's nonce.
* *Permissions*: a rule permits what its groups stand for, no more and no less, circles included; what the button
  of an action asks for is allowed, and of the administration's buttons those that an admin is shown.
* *Reading a topic*: an answer has no gaps and nothing twice, and a read of the latest reaches the latest.
* *Live tail*: the page knows whether it has a stream and can stop it; it shows every record once and in
  order and leaves none out; the server gets rid of a tail nobody listens to.
* *Metrics*: a range query returns exactly the points of the range; an answer's history contains its current
  value; points live for a day, no longer and no shorter; no endpoint stops the scraping of another.
* *Settings page and wizard*: only checked forms are sent; what fields show is what is sent; sections nobody
  touched survive an edit; a test result is about the settings next to it unless they were edited during the test; at rest the list is the server's,
  but for other admins' changes and requests that were refused after they had changed the file.
* *Resource pages*: at rest a page shows what the server has, but for others' changes, requests that changed something and were answered with an error, and
  announcements that joined a fetch; what was typed stays until just that is accepted, if it was not typed during an earlier submission.
* *Message browser*: fetched messages are an answer to the last press, read after it; the mark beside a filter is about that filter, and so is the text of an
  error when no validation runs.
* *Metrics page*: metrics were asked for under the label above them and are as long as it says; live does not reach behind its start. Where a custom range
  lies is lost on the way (section 6).
* *Browser session*: a tab that knows of logins believes the session its cookie has, and its buttons go by its own account's permissions, as long as nothing outside
  the tab changes the session; a tab without a session comes to the login page, if its requests do not go on failing.

## 2. Modules

| Module | What it is |
|---|---|
| `ClusterAdmin` | handlers, file, registry, chains, starts and crashes |
| `ClusterCatalog` | what cluster administration promises; `ClusterAdmin` implements it for admins who work on different clusters |
| `ClusterAdminProofs` | the inductive invariant of `ClusterAdmin` and what follows |
| `UserAccess`, `UserAccessProofs` | user store, logins, role middleware, user administration, crashes |
| `LoginRateLimiter` | `Allow` with lazy windows and sweeps |
| `FixedWindow` | a limiter whose windows close by themselves; `LoginRateLimiter` implements it |
| `ProviderLogin` | overlapping logins of one browser with identity providers |
| `RolePermissions` | expansion of rules, resolution of roles, middleware and Permissions endpoint |
| `Consume` | a read of a topic |
| `HandlersProofs` | proofs about `LoginRateLimiter`, `ProviderLogin`, `RolePermissions` and `Consume`, and about `MCHandlers`, where they run side by side |
| `LiveTail`, `LiveTailProofs` | page, hook, sockets and the handler's two goroutines per socket |
| `MetricsStore`, `MetricsStoreProofs` | collector, store and the handler that reads it, under a moving clock |
| `ClusterWizard`, `ClusterWizardProofs` | the settings page, its wizard, and the endpoints as far as it sees them |
| `ResourcePages` | the fifteen pages that share one pattern |
| `TopicMessages`, `CelValidation` | the message browser; the validation of its filter |
| `PagesProofs` | proofs about these three, and about `MCPages` |
| `Session`, `MetricsPage`, `BrowserTabProofs` | what a tab knows of its session; the metrics page; proofs about both and `MCBrowserTab` |
| `MCClusterAdmin`, `MCUserAccess`, `MCLiveTail`, `MCMetricsStore`, `MCClusterWizard` | constants for TLC |
| `MCHandlers`, `MCPages`, `MCBrowserTab` | constants for TLC, and several parts side by side: a behaviour is about one of them, which a variable tells, and the others stay as they begin. They share a run and nothing else |

The parts of the server meet only through HTTP: user administration decides who may call the cluster handlers,
the limiter who gets as far as a login, and a live tail takes settings and chain of a registered cluster. Each is
modelled with the others reduced to nondeterminism; so are the pages, whose server may accept, refuse or fail.

### ClusterAdmin

| State | In the code |
|---|---|
| `file` | the `clusters:` list of `dynamic.yaml` |
| `order`, `clients`, `configs` | `Registry.order`, `.clients`, `.configs`; a client is its settings and the settings its serde chain was built for |
| `chains` | the map `serdeChains` that `main.go` creates and the admin and live tail handlers share |
| `server` | down, up, or refused (exit status 1 because a client could not be built) |
| `job[p]` | the handler of request `p`: where it is, what it was asked, how it answered last |

| Action | In the code |
|---|---|
| `Start` | `main`: merge, `NewRegistry`, one chain per cluster; an unreadable `dynamic.yaml` is logged only |
| `Supervise`, `Crash` | external: the process is started again, or killed |
| `BeginAdd`, `BeginUpdate`, `BeginDelete` | each handler up to its first call that changes something, with every early return |
| `TestConnection` | `testConnection`, without `?validate=false` |
| `Save` | `DynamicConfig.Add`, `Update`, `Remove`: load to rename under its mutex, or an error |
| `Apply` | `Registry.AddCluster`, `UpdateCluster`, `RemoveCluster` under its mutex, or an error |
| `StoreChain`, `AttachChain` | `buildSerDeChain`: the write to the map; `Get` and `SetSerDe` |

`Registry.UpdateCluster` builds the new client under the registry's lock and closes the old one after it;
connections themselves are not modelled. Settings are `conn` (everything but the serde section; some
values cannot be built into a client) and `serde` (a request never has one, so an update erases it, as
`requestToClusterConfig` does). `ReadFaults` and `WriteFaults` say whether reading `dynamic.yaml` at a start and writing it
may fail; after a read fault dynamic clusters are not served until the next start. `ValidateChoices` says for each admin which values
of `?validate` its requests may have: an untested addition whose client cannot be built leaves an entry in the file and answers 500,
so `FileBuildable` and `SavedIsServed` are about clusters whose requests are always tested (`Tested`).
`FilesAssumption` says that the two hand-written files have no name twice:
the code does not check that, and the registry would list such a name twice.

### UserAccess

`rows` and `assigned` are the two tables, `lastId` stands for fresh UUIDs, `cookie[b]` is the session cookie of browser
`b`, `task[b]` the handler serving it. Each SQL statement (or transaction) is one step because the store
opens SQLite with one connection. A login is `UpsertUser` (with `ON CONFLICT`), `LoadUser`, `CountUsers`
and `Promote` if the row is new, `SeedCheck`, `Seed` once per role, `CreateSession`. An admin request is
`Identify` (session and user), `Authorize` (`ResolveRoles`, then the handler's checks), then `FindTarget`
and `SetRoles`, or `DeleteUser`. `InsertRole` models `INSERT OR IGNORE` under the foreign key: for a user that
is gone it fails, which the callers only log. `override` is history, for the properties about an admin's choice.
Automatic roles and the default role are constants (`AutoRoles`, `DefaultRoles`). A bound, `MaxBusy`, says how many requests are under way at once (`Room`).

### LoginRateLimiter

`attempts` is the map, `calls` the sweep counter, `inside` the caller that holds the mutex. `Enter` is
`Allow` up to and including the sweep, `LetThrough` and `Refuse` the rest: the clock (`Tick`) may move
between them, as `time.Now` is read twice. The limiter's answer precedes the check of the credentials, whose
outcome only the history `log` knows. `TrustProxy` decides between address and port
(`r.RemoteAddr`) and the address from the header.

### ProviderLogin

The n-th login begun has a state, a nonce and a code of its own, all called `n`. `cookies` are the browser's `oauth_state`, `oauth_nonce`
and session, by the login they belong to; `redeemed` are the codes the provider has taken; `callbacks[i]` is a request of the
callback with the cookies of the moment it was sent, the verdict, and whether its answer is under way. The server keeps nothing. `LoginProvider` sets both
cookies, `Expire` is their five minutes, `ComeBack` (external) is a tab that the provider sends back or that is loaded again. `Refused` and
`Exchanged` are `Callback` with `Exchange`; `Arrive` is its answer, which clears the cookies only once the state was right, and `Lose` an answer that never comes. `owned` is
history: the last login begun has the cookies to itself, since no callback that may clear them (`MayClear`) was unanswered when it began, no answer to its own has cleared them, and they have not expired.
A callback notes whether it is of the last login (`last`), and whether that login had the cookies to itself (`fresh`).

### RolePermissions

`NewRBAC` takes one rule after the other; `seen`, `todo` and `result` are those of `expandActions`, whose recursion into a group is
the group's items put before the rest of the list. One item is one step, so that a type-correct invariant can speak of the work half done. Conditions of an auto-assignment rule are met or not (`Facts`); the
external id is a fact of its own (`HasId`), because the middleware knows it of everybody and `Permissions` of nobody. In front of the administration's routes stands not
`RequireAction` but `RequireRole("admin")`, while their buttons go by actions (`AdminActions`): `MayDo` says which of the two decides. `Reach`, the least
set that is closed under opening groups, is the reference the expansion is compared with.

### Consume

| State | In the code |
|---|---|
| `stored` | external: for each partition the first offset, the end, and the offsets that have a record |
| `request` | where from, partitions, limit asked for and read with (`LimitFor`), filter |
| `phase`, `ends`, `next`, `records` | the calls of `ConsumeMessages` so far; end offsets listed; the consumer's position; what was collected |
| `begin` | history: the first offset the read is about |

`ListNothing`, `ListOffsetsAfterMilli`, `ListEndOffsets` and `ListStartOffsets` (two requests, between which the topic changes), `ListFails`; `Fetch` takes the next few records of one
partition, as many as the limit has room for, `Reset` is the consumer's start at the oldest record when its position is out of range, `End` the four ways the loop ends. Its ending because nothing more is there
(*exhausted*) and because the brokers were slow (*cut*) look the same to the code; the model keeps them apart so that the property can say what each answer is worth. `Produce`, `Retain` and `Compact` change
the topic meanwhile.

### LiveTail

| State | In the code |
|---|---|
| `mounted`, `ref`, `state`, `messages` | the page; `wsRef.current`, `state` and `messages` of `useWebSocket` |
| `ws[s]` | `readyState` of socket `s` in the browser |
| `wire[s]`, `gone` | records sent and not delivered yet; connections that died without a close |
| `tail[s]` | the handler of `s`: `main` the loop, `reader` the goroutine, `cancelled` the context, `pos` the consumer's position, `batch` what is left of the last fetch |
| `log` | how many records the topic's partition has; a record is its offset |

`connect`, `disconnect`, `unmount`, `clear`, `onopen`, `onmessage`, `onclose` are the hook's callbacks and the two
buttons (`onerror` closes a socket that is closing already, so it is part of `onclose`). `Upgrade`, `StartTail`,
`PollFetches`, `EachRecord`, `Return`, `ReaderEnds` are `Handle`. The hook's handlers are closures over one
socket, but `onclose` clears the reference and the state for all: `ForgetSocket`. `EachRecord` goes on with a batch
after a failed write, as the code does; `Return` waits for the end of it. A record that does not match, or that the
filter fails on, is passed over (`Matching`). A clean close reaches the other end after what was sent before it; a
connection in `gone` reaches neither, and only a ping or a write can fail on it.

### MetricsStore

| State | In the code |
|---|---|
| `clock` | `time.Now`, which carries a monotonic reading |
| `due`, `job[c]` | a tick in the ticker's channel (one at most); the goroutine of `collect` for cluster `c` |
| `writer` | the cluster whose `Append` holds the lock |
| `series`, `latest` | the two maps of `Store`; a point is its time and the scrape it came from |
| `request[r]` | a call of `Metrics`: its duration, snapshot, the metrics still to query, `lo`, `hi` and `cutoff` of a `QueryMetric` under way, what was found |
| `when` | history: when each snapshot was stored |

`StartRound` is `collect` up to its goroutines, and `RoundOver` its `wg.Wait`. A goroutine fails (`ScrapeFails`) or gets a
snapshot (`Answer`), then takes the lock: `AppendPoints` is `Append` up to `evict`, `Evict` the rest, and the clock
is read in both. `names` are the metrics with a sample. A request is `Ask` (`HasData`, `parseDuration`), `GetLatest`, then per metric `QueryMetric`,
`Search` once per iteration of the loop, and `Found` (the copy), and `Reply`. While a request is
searching it holds the read lock, which keeps `AppendPoints` out (`Unread`). The order of metrics is that of a Go map:
any.

### ClusterWizard

| State | In the code |
|---|---|
| `stored` | the server's clusters, as the list endpoint would give them |
| `listed`, `fetch`, `snap` | the query `admin-clusters`: its data, its request, what the server read for it |
| `wizard` | the reducer's state: mode, step, form, test result, test and save under way, error |
| `save`, `stray` | the save request of the open wizard, and of one that was closed while saving |
| `removal` | the delete dialog and its request |
| `unseen` | history: names changed since `listed` was read and not announced here |

Every request is handled by the server in one step and heard of in a later one. A form keeps two things apart: what the steps and the review read from a section
(`shown`) and what the server reads from it (`sent`). They differ in edit mode, because the list endpoint spells the fields of its sections with
capitals: the page does not read those, the server's decoder accepts them. What it makes of them is `Legible`: the number of Connect clusters, a row without a mechanism for the login (`Empty`),
nothing for the rest. The list is read from the file, which is changed before the registry: `SaveHandled`, `StrayHandled` and `DeleteHandled` may change `stored` and answer with an error. `touched`, `base`, `tested`, `testOf` and `hasty` are history.

### ResourcePages

The fifteen pages differ in a few ways, which are the fields of `page`: the kind of form (create, edit, a component of its own, a choice, a command), what a deletion does to the
confirmation and to the place, whether the button is disabled meanwhile, whether there are buttons to press, whether the page polls and whether it has a query. `server` is
what there is, `cache` the query, `place` where the user is, `form` and `confirm` the dialogs, `jobs` the mutations under way, `unseen` (history) what
was changed without the page being told. A mutation belongs to a component: `held` says that this is still mounted and knows that it is pending, `mine` that the page is, whose form a success closes. They
differ for the roles dialog, which is a component of its own and forgets its mutation when it is closed (`DialogGone`). `Handled` may change the server and answer with an error, as creating or changing a
connector does when the request that reads it back fails. `@tanstack/react-query` 5 is modelled by what it does (the comment of the module lists it).

### TopicMessages, CelValidation

`browse` and `nonce` make the key of the answers, `answers` is the cache, which outlives the page's state (`here`); `topic` counts how often the topic
has grown, so that an answer has an age, and `pressed` (history) is what it was at the last press. In `CelValidation` `timer` is the 400 ms, `checks` are the validations under way,
`live` those whose effect has not been cleaned up. `Mark` and `ErrorText` are what is shown: the wheel hides the mark and not the text.

### Session

`cookie` is whose session the browser has, `start` the two requests at load, `status` and `user` the state of `AuthProvider`, `login`, `logouts` and `request` requests under
way, `perms` the permissions query for each key: the email, which a login by form does not know. `past` is history: who was signed in since the load, and whether something disturbed the tab from outside.
`Unauthorized` is the part of `request()` that loads the page anew; `RequestFails` is an answer that does not come, or is not a 401: the query is sent once more, and then not until somebody asks again.
`Granted` is `useHasAction`: without a status, as after a failed start, every action is allowed (`Everything`).

### MetricsPage

`preset`, `range` and `liveStart` are what was chosen, `metrics` the cache by key, `now` the clock that browser and server share. `ParseDuration` is the server's: whatever range
was asked for, it becomes a duration before the present.

## 3. Runs

| Run | Shows | Instance |
|---|---|---|
| `ca_together` | `OverlapsAgree`: the registry agrees with itself, the file has no name twice, no client is left without a chain, handlers never come near a static name; `StaticServed` | two admins on the same two names (one static), read and write faults, crashes, a first file that hides a static name |
| `ca_apart` | `ImplementsCatalog`, `OkMeansDone`, `FileBuildable`, and `SavedIsServed`: saved and served differ only for a while | two admins, different names, one unbuildable setting, one admin who always tests, write faults, crashes |
| `ca_overlap` | counterexample, see 6 | two admins, two dynamic clusters |
| `ua_store` | `StoreSound` (roles have users, one account is one user), `PromotedIsOldest`, `NoSelfService`, `CalmOverrideStands` | three browsers, two of them of the account that has seeded roles, one of an account with a rule for admin; three user ids, so that a deleted account returns while another browser has a session of the old row; two requests under way at once; faults, crashes. 2.5 million states |
| `ua_first` | counterexample | two people |
| `handlers` | limiter: `SpanCap`, `ImplementsFixedWindow`; `LastLoginComesThrough` (unless an earlier login is just being answered when it begins); `GrantsAreMeant` (rules as meant; shown buttons let through, the administration's for admins); `AnswerIsRun` | limiter: two keys, limit 2, window 2 ticks, a sweep every third call, 5 ticks, 7 calls. Logins: two, with three callbacks. Permissions: 1872 configurations of two groups that list each other, themselves, an action or everything, two rules, two conditions, with and without default; one of the two actions is the administration's, one of the two roles the admin's. Reading: two partitions with offsets 0 to 3, wants of 1 and 2, limit 3, twice the want with a filter |
| `lt_waits` | `TableIsTrue` (newest first, once each, none lost), `HookKnowsSocket` (the indicator is true, the button works), `TailEnds` | two sockets, four records of which the second does not match, a page that keeps two, connections that may vanish; nobody presses Live Tail while a socket closes |
| `ms_day` | `AnswerExact` (the search is exact, the history has the current value), `AgeBound`, `KeptForMaxAge`, `KeepsScraping` | two clusters, one metric that comes and goes, one request at a time with a range as long as the day or twice that, a day of one tick, three snapshots at times 0 to 2 |
| `cw_page` | `ResultIsForData` (of settings not edited during the test), `SaveIsMeant` (checked, as shown, untouched sections kept), `RestShowsServer` (but for changes of others and those behind a refusal) | two names, a cluster with every section or with login only, one edited section, one save, deletion or change of another admin's, and one more save while an orphaned one is under way; the server may refuse before or after it changed the file |
| `cw_review` | counterexample | the same |
| `fe_tab` | `TabAgrees`, `StartLeadsToLogin`; `LabelIsOfMetrics` (asked for under the label, as long as it says, live not before its start) | session: two accounts, two logout presses, another tab. Metrics: presets of 2 and 3, three instants, custom ranges in either order, a longest look back of 3, two cached keys |
| `fe_pages` | `PageShowsServer`, `TypedStays`; `TableIsOfLastPress`; `VerdictIsForFilter` | each page with one thing that has one of two values, two requests (its own or others'); two presses per visit, a topic that grows once, any number of visits; two filters, one valid |

**Bounds and why they are enough.** In `ClusterAdmin` nothing is counted: files and registries are lists
without repeated names (which `OverlapsAgree` shows) over two or three names, so the
state space is finite without a bound. Two admins give every overlap of two requests; a third would only be
needed if a hazard took three handlers, and the proved properties hold for any number. In `UserAccess`
`MaxUsers` bounds the rows ever created and `MaxBusy` the requests under way: two overlap in any way, and the third browser is there to hold a session, of the same account as the second (with which it is exchanged by the symmetry). The proofs have any number of both. In `LoginRateLimiter` `MaxClock` and `MaxCalls` stop the run;
5 ticks hold two whole windows and 7 calls two sweeps, so windows end before,
at and after a sweep. In `ProviderLogin` two logins give one that is overtaken and one that overtakes, at any moment of the first one's callback, and three callbacks one
for each and a repetition. In `RolePermissions` two groups make every circle (one group with itself, two with each other). In `Consume` the oldest offset and the end move
past every position a read may begin at, and the limit of 3 lies between a want and its filtered
multiple, so that it caps some reads and not others. Each of the four parts stops when it is done or at its bound, hence no deadlock check in `handlers`.
In `LiveTail` two sockets give one successor to a closing socket, four records one
more than fit the page twice over a filter gap, so that `slice` drops some while others are in flight; sockets and
records run out, and a page may be closed for good, hence no deadlock check there. In `MetricsStore` three snapshots
give series of up to three points, with equal and different times, and a clock that goes to 2 with a day of 1 makes points that are younger
than the day, exactly a day old, and older; `MaxScrapes` makes later answers failures, so that rounds go on.
In `ClusterWizard` `MaxChanges` counts changes of anybody's, and the exception for one more save gives two saves under way at once, the orphaned and the new one; opening, closing, steps, lists and
tests are unbounded. In `ResourcePages` two requests are two of a page's own that overlap, or one and somebody else's; visits and fetches are unbounded. In `TopicMessages` a visit has two presses, so that
a number of the key comes back with the next visit. In `MetricsPage` the cache forgets a key before it takes a third (`MaxKeys`), which is one more forgetting than
five minutes would do, and time is three instants, so that live mode has a past shorter and longer than the longest look back.

**Fairness.** `ca_apart`: weak fairness of `Start` and `Supervise` (a supervisor such as
Docker's restart policy or Kubernetes starts the process again) and of each handler's own steps, because a goroutine that
can run is scheduled. No request and no crash is fair. The run has no read faults: nothing in the
code retries reading `dynamic.yaml`, so without that assumption the property is not claimed. `lt_waits`: weak
fairness, per socket, of the handler's loop, its reading goroutine, and the browser's event loop as long as there is
something to dispatch. Users and producers are not fair, and a browser need never notice a connection that vanished.
That a write or ping on a closed or vanished connection fails in the end is assumed (TCP gives up), and is what the
30-second ticker relies on. `ms_day`: weak fairness of the ticker, of the rounds, of a failing
scrape (the HTTP client's timeout of 10 s ends every attempt), of `Evict`, and of a reader's search, which is a loop in memory; strong fairness of
`AppendPoints`, because a Go RWMutex lets no new reader in while a writer waits. Endpoints need not answer and requests need not come.
`fe_tab`: strong fairness of `StartArrives`, because a network that is not down for ever answers the start of some load, and weak fairness of `PageRequests`: the sidebar asks when it is shown, its request is answered or
fails, what fails is sent once more, and a 401 is followed by the reload. A third request is not assumed: where both fail the application stays, which `StartLeadsToLogin` allows (stage *failed*). Nothing the user does is fair. The other runs have no liveness and no fairness.

## 4. Proofs

All hold for any sets of names, settings, admins, browsers, accounts, configurations, queries, filters, ranges, any window, limit and sweep interval,
under the named assumptions of the modules: `ConfigAssumption`, `FilesAssumption`, `AccessAssumption`, `LimiterAssumption`, `ProviderAssumption`,
`PermissionsAssumption`, `TailAssumption`, `MetricsAssumption`, `WizardAssumption`, `SessionAssumption`, `MetricsPageAssumption`,
`PagesAssumption`, `CelAssumption`, `MessagesAssumption`, `ConsumeAssumption`. Some results need more, which is part of their statement:

| Assumed | Says | For |
|---|---|---|
| `Apart` | no two admins work on the same cluster; without it the results are false, see `ca_overlap` | `OkMeansDoneAlways`, `HandlersImplementCatalog`, `ChangesAlwaysCome`, `PersistedWhenApart` |
| `~ReadFaults` | reading `dynamic.yaml` at a start does not fail; the code goes on without the file, and nothing retries | `ChangesAlwaysCome`, `PersistedWhenApart` |
| `Works(n)` for dynamic names | requests about `n` are tested, or all settings can be built | `PersistedWhenApart` |
| `FilesWork` | in the file the server is given, a cluster that is always tested works already; nothing tests what was written by hand | `FileStaysBuildable` |
| `[]OneDeletion` | no two deletions of clusters overlap | `LastClusterAlwaysStays` |
| `~StoreFaults`, `~MayCrash`, `[]OneAtATime`, `[]NobodyLeaves`, `SeedsKeepAdmins` | the store does not fail, no handler is cut off, none overlaps another, nobody deletes the own account; who is admin by rules has admin among the seeded roles, if any | `AdminWhenAlone` |
| `Patient` | nobody presses Live Tail while a socket closes | `PatientPageKnows`, `HookAlwaysKnows`, `TableAlwaysTrue` |
| `IsFiniteSet(Names)` | actions and groups are finitely many, as in any configuration file | `ExpansionAlwaysShrinks` |


* `ClusterAdminProofs`. The invariant adds to the type invariant the agreement of the registry's parts,
  distinct names in the file, that handlers under way are not about static names, and that the static
  clusters are served while the server is up. They need each other: that static clusters stay served
  follows from no handler being about one, which for AddCluster (it looks into the registry, not into
  `staticNames`) follows from the static clusters being served. `TypeCorrect`, `RegistryAgrees`, `StaticClustersServed`,
  `FileNamesDistinct`, `StaticNamesAvoided` are its parts, and `StaticEntriesKept` is an action property. `ClientsGetChains`
  needs that a client without a chain has a handler that is about to set it; `OverlapsAgreeAlways` joins them.
  `FileStaysBuildable` adds that a handler past the connection test carries settings that work (`Proven`), for entries reach the file only from such handlers.
  `OkMeansDoneAlways` and `HandlersImplementCatalog` rest on one invariant, `TrackInv`. For each admin it says where the settings of the cluster a request is about are at each stage: unchanged
  before the save; in the file and not in the registry between save and apply; in both after; in the chain and then the client at the end (`Tracks`). Nobody else can disturb them,
  which is where `Apart` is used. While the server is down nothing is served and no answer stands (`Silent`), since a crash ends every request. With that, each
  action is a step of `ClusterCatalog` or none: a save a save, an apply what makes it visible, the rest invisible.
  `ChangesAlwaysCome` is the safety half of `SavedIsServed`: wherever a running server does not serve what the file says of a cluster whose changes work, a handler is about to apply just
  that and cannot be refused (`Pending`). It needs `Tracks` for what the handler carries and `Proven` for its being applicable. With nothing in flight no handler is about to do anything, hence
  `PersistedWhenApart`. `LastClusterAlwaysStays` carries from the count of clusters to the removal that there is more than one (`SparesOne`): additions and updates do not take one away,
  a second deletion would.
* `UserAccessProofs`. `NobodyServesThemselves` needs that ids are never reused and that the account behind
  an id is fixed as long as the row exists; `RolesHaveUsers` that every write checks the row.
  `AccountsAreUsers` rests on the upsert being one step; both make `StoreIsSound`. `OldestIsPromoted` needs that whoever is about to be promoted
  was the only row when it was counted (`FirstIsOldest`), and that every later row has a later id (`Origins`).
  `CalmOverridesStand` needs that no login which could still write is about a user whose roles were given in a calm moment: one under way then would have made it no calm moment, and one that
  begins later finds roles there and neither seeds nor promotes (`Harmless`).
  `AdminWhenAlone` says where the promise of a first admin is kept. *Somebody is an admin* is false in the middle of a first login, so the invariant (`AloneInv`) has instead: there is an admin, or the one
  handler that runs will make one, because it counted or will count a single user, or has yet to seed the role (`Promised`); and a handler that was authorized is still an admin's (`Own`).
* `HandlersProofs`. `LimiterImplementsFixedWindow` maps a key's window to *closed* once it is over or
  swept. A sweep may drop a window only if it is over, `> window` against `>= window`, and no call starts
  in the future (`start <= clock`); these are the invariant. So the choice of sweep interval, and the boundary
  between the two comparisons, cannot be noticed. `LastLoginGetsThrough` rests on `CookiesTogether` (both cookies belong to the last login begun, or are gone) and
  `OwnClear`: while the last login has them to itself (`owned`), only callbacks of its own that are unanswered may clear them, so that they are there (`OwnerHasCookies`). `SpansAreCapped` counts the calls let through in each key's present window, no more than `count`, and knows of a span that reaches into
  it that it has fewer than the limit from before (`Worn`), since it misses the call that opened the window of that time. `LimiterForgets` bounds the map: what is in it was let through in one of the last
  `SweepEvery` calls or shortly before them. `Swept` counts calls since the last sweep as the counter does, which is what makes it inductive; with one call fewer TLC finds it false. `GrantsAlwaysMeant` has `AtWork`: what was seen and what is still to do together contain the rule's items, lie within `Reach`, and what was seen is
  closed under opening its groups; when nothing is to do, seen is the least such set, circles or not. The half about buttons follows from `AutoAssign` giving more to whom more is known, for `RequireAction` through the actions and for `RequireRole` through the role itself.
  `ExpansionAlwaysShrinks` is why the server does not hang on such a circle: each step leaves fewer rules, or fewer items it has not met, or a shorter list.
  `AnswersAreRuns` has two parts. `ReadInv`: while there is room, all there still is between where a partition's read began and the consumer's position was collected; what was collected lies there,
  too. Retention and compaction only take records away, and producers add at the end, which the position has not passed unless the consumer was out of range from the start. So a reset, which would break
  this, comes only to a read that has nothing of that partition. `LatestInv`: a read of the latest begins far enough before the end it was told, and the latest records lie behind its beginning. That a read of one partition which
  stopped at its limit has them is a matter of counting: the limit's number of different records older than one of the latest would not fit between (`NoRoom`). That the first so many matches
  include every match, if there were fewer, is proved by the least one left out (`AllThatPass`). `AnswersAlwaysFit` is about the end of it: an answer has no more than was asked for, and lacks nothing that was read and passes if it has less.
  `HandlersAreTheFour` and `HandlersAreCorrect` take all this to the composition that the run checks, its type invariant included: each of its steps is a step of one part and a stutter of the others.
* `LiveTailProofs`. `ButtonAlwaysWorks` needs only that each handler clears reference and state together, so it
  holds for hasty users too. `PatientPageKnows` does not: its invariant `LiveAlone` says that while a socket is open
  or connecting, no socket is closing, which `connect` preserves only when the user waits. `HookAlwaysKnows` joins the two.
  `TableAlwaysTrue` follows every record from the handler's batch over the wire into the table: each stretch is in order, without a gap, and joins the next (`OfTheLog`, `Faithful`), and a new socket
  begins with an empty table or with nobody else writing.
* `MetricsStoreProofs`. `SearchIsExact` needs that series are sorted, which holds because the clock never goes back and eviction
  only takes a prefix, and that everything below `lo` is too old and everything from `hi` on is not (`Excluded`), while no writer is
  inside. `AgeIsBounded` follows from sortedness, since `evict` stops at the first young point, and excepts the cluster that is being appended to.
  `HistoryHasCurrent` is the long one: the value read as *current* is in its series when it is stored (`LatestKept`), stays there for the request
  that remembers it unless its day ends (`RequestKept`), cannot leave while the search runs whatever the clock does (`SearchKept`),
  and is therefore copied. Time bounds appear in it because each read of the store looks at the clock again. `AnswersAreExact` joins both.
  `LockComesBack` is the safety half of `KeepsScraping`: whoever holds the store's lock is about to give it back, and a reader that holds it has a shorter stretch to search with every step.
* `ClusterWizardProofs`. A wizard is saving exactly while its request is under way, and a form past the first step was checked: every way there goes through `CanNext`, and only the first
  step changes what it looks at (`OnlyValidIsSent`). `UntouchedKeptAlways` and `SeenIsSentAlways` follow the form from `FormOf` through each field. Together they are `SavesAreMeant`.
  `ResultIsForDataAlways` needs that a test under way either is about the form or was marked hasty. `RestAlwaysShows` needs `ListInv`: what was read for the list is what the server
  has but for what is noted as unseen, and an announcement leaves the list asked for, or keeps noted what the read it joins may have missed. A request that is refused leaves noted what it changed.
* `BrowserTabProofs`. `TabKnowsSessionAlways` follows each request with the cookie it carries and the one it leaves; its invariant says for every stage of login, logout and
  start what the tab will believe once it is answered. `PermissionsAreMineAlways` needs that whoever's permissions are cached was signed in since the load; a tab whose start failed has no status, and is excepted. `ShownIsChosenAlways` needs that every cached entry is
  about the choice that is its key, whatever is chosen when its answer comes (`EntryOK`); `LiveSinceStartAlways` that live's duration is never longer than the time since its start; `SpanIsChosenAlways` that an entry's span is that of its choice. `LabelsAreOfMetrics` joins the three.
  `TabIsTheTwo` and `TabIsCorrect` are about the two side by side.
* `PagesProofs`. For the resource pages, `PageAlwaysShows` needs the same as `RestAlwaysShows`, for data, snapshot and places a user goes to (`Current`). `TypedAlwaysStays` needs `Submitted`: next to a submission whose success will close
  the form, a form that is not marked hasty holds what was submitted or what it began with. Two submissions of one page do overlap, where a roles dialog is closed while saving and opened again; the second is
  then hasty. That nothing mounted has two submissions pending is part of `PagesTypeCorrect`; for deletions it
  holds where the button that asks is disabled (`Guarded`), since the confirmation closes before the answer. `VerdictCorrect` rests on a validation that was not cancelled being the only one and about the
  filter that is there (`CelTypeCorrect`). `ShownIsFreshAlways` needs that nothing is in the cache under a number that this visit has not used, or the press is excused: it joined a fetch of an
  earlier visit. `TableOfLastPress` joins the three of the message browser; `BrowserIsTheThree` and `BrowserIsCorrect` all of them.

Only model-checked: the four liveness properties `SavedIsServed`, `TailEnds`, `KeepsScraping` and `StartLeadsToLogin`, since liveness under fairness is out of the prover's reach. Of the first and the third the
safety half is proved: what is waited for is under way, or the one who is waited for is nearly done. That a measure such as that of `ExpansionAlwaysShrinks` or the width of a search cannot shrink for ever is
induction over data, and not proved either. Every safety property that a passing run checks is a theorem. Of the three properties of section 6, which are false, `PersistedAtRest` and
`SomeoneIsAdmin` are proved under the conditions in the table; `ReviewTrue` has none worth stating.

## 5. Not modelled

What the models of a part leave out is said with the part. Besides that:

* *Broker connections and their closing, the contents of HTTP requests, field validation*: a request the
  handlers reject for its form changes nothing. Data races on
  `serdeChains` and `SetSerDe` beyond their order: a racing map write may end the process, which is `Crash`. The reply that `http.TimeoutHandler` sends after 30 s while the handler goes on: no
  handler looks at it, so to the state it is a slow answer.
* *LDAP and basic credential checks*: a directory search and a comparison of hashes, one call each, no state. *What a token says of a person*, and
  GitHub's exchange, which has no nonce to compare.
* *Produce, topic administration, offset reset, ACLs, SCRAM users, ksqlDB*: a translation of names and one or two requests to brokers or to a service, which keep the state. What
  a page makes of their answers is in `ResourcePages`.
* *Schema registry and serde chain, Kafka Connect, health fan-out, masking*: planned, see 7. Decoding itself and the evaluation of CEL are libraries' work.
* *Configuration, routing table, header checks, logging, static files*: done once before anything runs, or without any state between requests.
* *In the pages*: the produce dialog (its request changes nothing the page shows by itself), downloads, expanded rows, search and sorting of tables, what single fields check, formatting, parsing of
  texts into times, charts. *UI components and theme*: components copied in from a library, layout, a colour.
* *Deployment and mock data*: charts, scripts and a generator of demo numbers.

## 6. Where code and words differ

* `ca_overlap` (`PersistedAtRest`): two overlapping updates of one cluster, both answered with success,
  leave the file with one and the registry with the other, until a restart changes what is served. Where no two admins work on one cluster, it holds (`PersistedWhenApart`).
* `ua_first` (`SomeoneIsAdmin`): two overlapping first logins both count two users, so neither is
  promoted, and no later login will be. One after the other it holds (`AdminWhenAlone`), with two exceptions that need no overlap: the only admin may delete the own account; and somebody who is admin by
  an automatic rule, while the configuration file seeds lesser roles for the account, gets those at the next basic login after the assignments were cleared, and is none any more.
* `cw_review` (`ReviewTrue`): the review of an edited cluster has no row for its TLS, schema registry and KSQL settings, an empty one for its login, and of its Connect clusters the number
  (`docs/superpowers/specs/2026-03-21-tier2-features-design.md:314`: "Step 7 shows a summary card with all configured values"), though the save sends them again.

Seen while modelling, without a run of their own. On the server:

* two overlapping deletes both count two clusters and remove both (`admin.go:211-212`); deletes that do not overlap leave one (`LastClusterAlwaysStays`);
* `buildSerDeChain` looks the client up again and may give a later update's client an earlier update's chain;
* roles that an admin sets during a first login are mixed with the seeded ones;
* without `trust-proxy` the limiter's key contains the port; it counts every attempt, while `docs/authentication/basic-auth.md:120` speaks of the "Number of
  failed attempts allowed in the window", so somebody who only logged in successfully is refused;
* clusters added while the server runs are not scraped before its next start;
* `Permissions` builds its identity without the external id (`auth.go:447`): rules by `authenticated` give no buttons though the routes are allowed, and the default role may stand in (`DefaultStandsIn`);
* the routes under `/admin` ask for the role *admin* (`router.go:112-123`), the links and buttons to them for the actions `manage_users` and `manage_clusters`, which is what `docs/authentication/roles-and-permissions.md`
  tells of (lines 104-105; line 214: "Admins (users with the `manage_users` action)"): a role of another name with these actions, or with `*` as *superadmin* there (396-398), is shown them and gets 403;
* an earlier login whose callback is past the state but not yet answered when the last login begins takes the last one's cookies away (`auth.go:293-311`): login 1 begins and comes back, login 2 begins, the code of 1 is
  exchanged and its answer arrives, login 2 comes back without cookies and is refused. `LastLoginComesThrough` excepts logins that begin while such a callback is unanswered, and no other;
* a cluster's request may be answered with 500 after the file was changed (`admin.go:142-149`, `187-194`, `216-223`), and so may a connector's after it was created or changed (`connect/client.go:161-177`); the page
  that asked shows the error and the old list;
* the cookie `redirect_uri` is read and never set; the answer of an earlier login that arrives last puts its session back;
* a filtered read wants five times its limit but no more than 500 records, so with a limit above 100 it may answer less than there is; a filtered read of the
  latest answers the earliest matches of what it read; one over several partitions fills its limit from whichever partition answers first.

In the browser:

* a press of Live Tail while the stopped socket closes leaves a page that says it has no stream while one goes on (`useWebSocket.ts:37`);
* a custom metrics range is answered as a duration before the present, whatever its end (`MetricsPage.tsx:485-497`, `metrics.go:94-127`);
* a new name entered in edit mode updates the cluster of that name (`ClusterWizard.tsx:94`);
* the success of a save whose wizard was closed closes whichever wizard is open (`SettingsClustersPage.tsx:38`);
* the result of a connection test is shown whatever was edited during the test (`ClusterWizard.tsx:81`); those are `hasty` to `ResultIsForData`;
* the text of an error stays under the filter while the next one is validated (`TopicMessagesPage.tsx:287-289`);
* a roles dialog that is closed while saving and opened again may save a second time, and the first success closes it with what was ticked since (`AdminUsersPage.tsx:40`, `274-276`);
* when one request of the start fails, the tab shows the application with every button (`AuthProvider.tsx:25-28`, `usePermissions.ts:19-20`), and stays so if the sidebar's request fails twice, too;
* logins by form share one key of the permissions cache, so a second account sees the first one's buttons until its own permissions come (`usePermissions.ts:8`); Logout pressed twice may sign out whoever
  logged in between (`AuthProvider.tsx:39`).

## 7. Plan

Done: `ClusterAdmin`/`ClusterCatalog`, `UserAccess`, `LoginRateLimiter`/`FixedWindow`, `ProviderLogin`, `RolePermissions`, `Consume`, `LiveTail`, `MetricsStore`, `ClusterWizard`,
`ResourcePages`, `TopicMessages`, `CelValidation`, `Session`, `MetricsPage`, with the proofs above.

Next, in this order:

1. `SchemaCache`: concurrent lookups of one schema share a flight (`schema/client.go:204-224`): one request per id at a time, and an error is everybody's but not remembered.
2. `HealthFanOut`: names listed first, clients looked up later, while clusters come and go.
3. `ConnectLookup`: `findConnector` passes over a Connect cluster that does not answer, so an operation may reach another cluster's connector of the name than the page showed.
4. `Masking` as a pure operator against a reference; offset reset of a group.

Proofs to come: those of the modules above, and of every safety property they add. Of the present ones only the liveness properties have no theorem; a prover that can instantiate the
library's induction theorems would bring the ends of the search and of the expansion first.
