# TLA+ models of LuCI

LuCI is the web interface of OpenWrt.  Since version 19 most of it runs in the
browser: JavaScript classes under `modules/luci-base/htdocs/luci-static/resources`
load a configuration from the router over JSON-RPC, edit a local copy of it,
send the edits back and apply them.  This directory holds TLA+ models of the
parts of that machinery that have state, their model-checking runs, and
machine-checked proofs about them.  Paths below are relative to the repository;
`res/` is short for `modules/luci-base/htdocs/luci-static/resources/`.

Run from this directory, for example

    tlc -workers 2 -config UciSave.cfg UciSave.tla
    tlapm UciCacheProofs.tla

Names of variables and operators follow the source.  In each module an
operator whose comment starts with "Mutant of" is a faulty variant of the
definition after it.  No specification uses it; substituting it for that
definition must make one of the properties fail, which shows that the property
depends on that line of the code.

## 1. Inventory

| component | state | operations | interacts with | hard because | what makes it correct |
|---|---|---|---|---|---|
| `uci.js`, edit layers | per configuration `values`, `creates`, `changes`, `deletes`, `reorder`; `newidx` | `add`, `remove`, `set`, `unset`, `get`, `sections`, `move` | called by forms and views; `save()` reads the layers | three layers over one map, `get(conf, sid)` and `move()` write to the cached map, indexes from three sources | one plain buffer of sections and options; one total order; `save()` submits what is shown |
| `uci.js`, save and load | `loaded`, the layers, names of new sections | `load`, `unload`, `save`, `reorderSections` | `rpc.js`, rpcd | a chain of round trips with partial failure, overlapping callers, replies matched by position | the server gets what was shown, the client shows what the server has |
| `LuCI.poll` (`luci.js`) | queue, ready flags, timer, tick | `add`, `remove`, `start`, `stop`, `step` | every view; promises that settle at any time | old runs of re-registered functions, functions that throw, timer and tick disagreeing | no overlapping runs, no starvation, the timer runs when wanted |
| `LuCI.require` (`luci.js`) | `classes[name]`: promise or instance | `require`, `compileClass` | HTTP, all pages | concurrent loads of a graph, circles, failures | dependencies first; errors only for real circles; no hanging |
| `LuCI.request`, `rpc.js` batching | queue of RPC posts, animation frames, requests on their way, the dialog of the expired session | `request`, `flushRequestQueue`, `parseCallReply`, interceptors | uhttpd, rpcd, the session | replies matched by position, failing batches, a denied call that waits for a second one | every caller gets its own reply, once, and none is forgotten |
| apply with rollback (`ui.js` changes, `admin/uci.uc`, `dispatcher.uc`, `footer.ut`) | page dialog and deadline; session token with expiry; rpcd timer | apply, confirm, rollback, reload | page, controller, session store, rpcd, network that the changes may cut | three clocks, lost and late confirmations, page reloads | unconfirmed settings never stay, confirmed ones do, the page says what happened |
| `form.js` | per option the widget, the cached value and that of the edit layers; which options are active | `checkDepends`, `parse`, `save`, `reset`, `handleAdd`, `handleRemove` | widgets, uci | dependencies are computed by passes in place, saves fail half way | exactly the options whose dependencies are met are visible; a save submits what is shown |
| `ui.js` dropdown | items, marks, hidden inputs | `toggleItem`, `createItems`, `setValue`, `clearChoices`, `addChoices` | forms | three representations of one value, four kinds of dropdown | `getValue()` is what was asked for last |
| `ui.js`, other widgets and dialogs | DOM, `was_polling` | `showModal`, `awaitReconnect` | poll | presentation | - |
| `network.js`, cached state | `_state`, `_init` | `initNetworkState`, `flushCache` | rpc, every page | loads overlap, as the shared promise is given up before the load ends | nobody is given an older state than was known when he asked |
| `network.js`, `firewall.js` and their views | interfaces, zones, and references by name in four configurations | add, delete, rename, join, edit | uci | no key is checked; dialogs are dismissed after part of them was written | what is referred to exists |
| opkg view | two lists of packages, plan, errors | `parseList`, `renderDependencies`, `pkgStatus` | opkg | circles, providers, versions | a plan without errors meets every requirement |
| `dispatcher.uc` | menu tree, session, rights | `resolve_page`, `resolve_firstchild`, `dispatch` | uhttpd, ubus | fallbacks to first children, a session that ends meanwhile | the page that was asked for, and only if all nodes above it allow it |
| `rpcd-mod-rrdns` | outstanding queries, the list of addresses | `lookup`, responses, timeout | uloop, DNS servers | datagrams lost, late and twice; the list lies in a buffer that is reused | a name belongs to its address, early answers are complete, the limit holds |
| `luci-bwc` | ring databases in mapped files, pid file | daemon, readers, signals | status views | files without locks, processes that start and end at any time | a reader sees ordered samples |
| `LuCI.Class`, `dom`, `view`, `session` | none of their own | `extend`, `handleSave` | forms | - | - |
| `validation.js` | none | data types, combinators | form | checks of strings | - |
| `fs.js`, `cbi.js`, `tools/*`, `protocol/*` | none | wrappers of one call each, declarative forms | rpc, form | - | - |
| `http.uc`, `runtime.uc`, `sys.uc`, `uhttpd.uc`, `admin/index.uc` | one request | parse, render | uhttpd | incremental parsing of a stream | - |
| rpcd backend, `rpcd-mod-luci`, `rad2-enc` | none | reads of system state | ubus | - | - |
| `luci-base/src` (lmo, po2lmo, jsmin, plural forms) | mapped catalogue | lookup | ucode | - | - |
| Lua libraries, `luci-compat`, `luci-lua-runtime` | - | the former server side | - | kept for compatibility | - |
| other views, applications, themes | - | forms over the libraries | - | - | - |
| rpcd, netifd, uhttpd, DNS servers, the browser | - | external | - | - | modelled only as the code uses them |

The pages build on the libraries: a view requires its classes (`LuCI.require`),
loads configurations (`uci.load`) through batched calls (`rpc.js` over
`LuCI.request`), shows them in a form of widgets, polls the state of the router
(`LuCI.poll`, `network.flushCache`), saves the form into the edit layers and the
edit layers to rpcd, and applies.  On the router the dispatcher decides which
page a request gets; rpcd executes the calls; small C programs collect data.

## 2. Modules

| module | models | refines, or is composed of |
|---|---|---|
| `UciCache` | the edit layers of one loaded configuration | refines `UciBuffer`, `UciSequence` |
| `UciBuffer` | what the edit operations promise: a map of sections and options | |
| `UciSequence` | what add, remove and move promise about order: a sequence | |
| `MCUciCache` | `UciCache` with its mapping to `UciSequence` | |
| `UciSave` | `save()`, `load()` and the server, with failing and overlapping calls | |
| `Poll` | `LuCI.poll` | |
| `ClassLoader` | `LuCI.require()` | |
| `RequestBatch` | RPC calls, the requests that carry them, denials and the end of the session | |
| `FormMap` | a form between its widgets, the cached values, the edit layers and the router | |
| `Dropdown` | the value of a dropdown | |
| `NetworkState` | the cached state of the networks and its loads | |
| `PackageDeps` | what an installation needs | |
| `MCPage` | six parts of a page, one moving at a time | `ClassLoader`, `RequestBatch`, `FormMap`, `Dropdown`, `NetworkState`, `PackageDeps` |
| `NetworkConfig` | interfaces, zones and what refers to them | |
| `RrDns` | one reverse lookup with its queries | |
| `Bandwidth` | readers and daemons around one database of luci-bwc | |
| `Dispatch` | one request at the dispatcher | |
| `MCRouter` | four parts of the router, one moving at a time | `RrDns`, `NetworkConfig`, `Bandwidth`, `Dispatch` |
| `ApplyRollback` | the page, controller, rpcd and network of one apply | |
| `UciCacheProofs`, `UciSaveProofs`, `PollProofs`, `RequestBatchProofs`, `ApplyRollbackProofs` | proofs about the module they are named for | |
| `PageProofs`, `RouterProofs` | proofs about the parts of `MCPage` and `MCRouter` | `PageProofs` uses `RequestBatchProofs` |
| `InductionLemmas` | least numbers, recursive definitions over an interval of them, parts of a sequence | |

`MCPage` and `MCRouter` check components that share no state in one run.  They
choose the component that moves in the initial state; the others rest in one of
their initial states.  The states of the components therefore add up instead of
multiplying, every behaviour of the run is a behaviour of one component, and
every behaviour of each component occurs.  Components that do interact are in
one module: the page, controller and rpcd in `ApplyRollback`, client and server
in `UciSave`, three kinds of form value in `FormMap`, four configurations in
`NetworkConfig`, processes and their files in `Bandwidth`.

### UciCache (res/uci.js)

`values[conf]`, `creates[conf]`, `changes[conf]`, `deletes[conf]` are total
functions on section ids; `known`, `created` and `removed` say which entries
exist, because an entry with no options and a missing entry behave differently.
`base` is history: the option values as the server sent them, which `values`
stops to be once `get(conf, sid)` (line 499 on) or `move()` writes pending edits
into it.  `vindex` and `nindex` are `.index` of loaded and created sections.
One action per operation and branch: `Add`, `RemoveCreated`/`RemoveExisting`,
`SetCreated`/`SetExisting`/`UnsetExisting`, `ReadSection` (`get(conf, sid)`),
`MoveLast` and `MoveBeside`.  `Submitted` is what the calls of `save()` make of
a section, `Get` what the getters show.  Left out: section types, values that
are lists, `@type[n]` references.  Callers do not add a section that is shown.

### UciSave (res/uci.js, res/rpc.js, rpcd)

Above the layers, `UciSave` keeps only what they stand for: `base` (as loaded)
and `cur` (as shown), from which the delete, add and set calls follow; that
this is what the layers submit is `SubmitsAllWithoutFold` below.  `Save` builds
the batch; `ServeDelete` ... `ServeLoad` execute one call each, in the order of
the batch; `ServeFailing` fails one, and `Reply` loses the reply of an executed
one.  `CallsDone` is the `then` that takes over the names and calls
`reorderSections()`, `OrderDone` the one that unloads and loads, `LoadDone` the
end, `Rejected` the rejection of the whole promise.  Sections the client
invents have negative ids; `of` on the server remembers which one a section was
added for.  The edits happen while no save is under way (the dialogs cover the
page), one configuration is edited, and a client timeout for the whole batch
while the server goes on executing it is not modelled.

### Poll (res/luci.js 1051-1200)

`queue` holds functions, `gen` the registration an entry belongs to, so that
`finally()` of an old run (`Settle`) sets the flag of its own entry only.
`Pass` is one run of `step()`: JavaScript runs it to the end, so it is one
action.  A function of `Throwers` may throw, which ends the pass, keeps the
tick and leaves the entry not ready.  `Modulus` is 2^32.  An interval of 0 is
what `0.5 >>> 0` gives.

### ClassLoader (res/luci.js 2213-2544)

`deps` is any graph.  `phase[c]` is what `classes[c]` holds; `from[c]` the chain
`require()` passes along.  Fetching, compiling, instantiating and failing are
separate actions, because HTTP replies and promise callbacks come in any order.

### ApplyRollback (res/ui.js 4512-4740, admin/uci.uc, dispatcher.uc, footer.ut)

`ui` is the phase of the page, `deadline` and `auth` those of `confirm()`;
`session` is the `rollback` object of the session store; `timer` is rpcd's.
`uci_apply()` makes two calls, so `ApplyChecked` and `StoreToken` are two
actions.  A request the page has given up on (timeout or reload) may still be
handled later (`stale`, `HandleStale`).  rpcd, the network and the clock are
external.  Changes are staged at the start, by a rollback, or by a later save
(`Stage`), when the settings in force become the old ones that a rollback of the
next apply restores; edits staged while rpcd's timer runs are not modelled.

### RequestBatch (res/luci.js 554-832 and 2661-2718, res/rpc.js)

`queue` is `requestQueue`, `frames` the callbacks of `requestAnimationFrame()`
still to run, `sent` the requests on their way.  `Frame` is
`flushRequestQueue()`.  A message is a call, or the `session.access` call that
the RPC interceptor makes for a denied one and that the denied call waits for.
`Reply` delivers any reply, also one with too few elements, `Fail` stands for a
timeout, an HTTP error and a reply that is no array; `LoginRequired` is the
interceptor that shows the dialog of the expired session and throws where
nothing catches it.  Each call is made once; its reply is named by the call, so
a mix-up shows.

### FormMap (res/form.js)

An option has the value of its widget (`form.shown`), the cached one (`cfg`,
from `load()`), the one in the edit layers (`layer`) and the one on the router
(`staged`).  `CheckDepends` is the map's `checkDepends()`: two passes (`Pass`) over
the options in the order they are declared.  `LateAssumption` says of a form that
no option needs more than two in a row that are declared after it, which is what
two passes settle.  `Submit` is `save()` up to the calls:
all options are parsed and keep what they wrote even if another is rejected.
`SaveDone` and `SaveFails` end it.  `AddSection` and `RemoveSection` save
silently.  `failed` and `reverted` are history.

### Dropdown (res/ui.js 1022-1972)

`box` holds the items, the marked ones and the hidden inputs that `getValue()`
reads; `kind` is one of the eight combinations of multiple, optional and create.
`asked` is history: what the sequence of clicks, entries and calls asked for.

### NetworkState (res/network.js 350-535, 756-759)

`init` is `_init`, `cached` is `_state`.  A load is `Read` by the router, its
replies arrive (`Fetched`, where `_init` is reset), and after the state of the
access points has been read it replaces the cached state (`Done`).  A version
stands for what the router would answer at that moment.

### PackageDeps (applications/luci-app-opkg, view/opkg.js)

The recursion of `renderDependencies()` is a stack `todo` of requirements;
`seen`, `planned` and `errors` are the fields of `info`.  Versions are numbers:
`compareVersion()` is a total order.  `DepsAssumption` says of the lists that a
package occurs once in each, and that a package that provides the name of
another provides all that the other provides.  `Closure` in the property is a
reference definition, the least set of requirements closed under dependencies.

### NetworkConfig (res/network.js, res/firewall.js, the views)

`ifaces`, `uses`, `zones` and `links` are the references by name in the
configurations `network`, `wireless`, `dhcp` and `firewall`.  The actions are
what the interface, wireless, route and zone pages do; each is one step of the
edit layers.  A dialog may be dismissed after a failed save of it has written
part of its options: `adding` is the section of the dialog, `orphans` the kinds
and names of those that were removed.

### RrDns (libs/rpcd-mod-rrdns/src/rrdns.c)

`ctx` is the `rrdns_context` with the set of queries on the network, which stay
there, so that a response may come late or twice.  `OtherMessage` overwrites the
list of addresses, which lies in the buffer of the ubus message.  A `recv()`
that fails reads an uninitialized id: `ReceiveError` takes any.

### Bandwidth (modules/luci-mod-status/src/luci-bwc.c)

Every reader may fork a daemon, which is named after it.  A daemon works in
single steps (`stat()`, `open()`, fill, read the time, compare, copy one entry,
store, sleep), as the kernel may switch between any two of them, and so do
readers.  The time is any: it may be set back.  `twoLived` is history: two
daemons at once.

### Dispatch (modules/luci-base/ucode/dispatcher.uc)

The tree is a constant, with the rights, authentication and satisfied
dependencies of its nodes chosen at the start.  `Resolve` is `resolve_page()`
with the search of `resolve_firstchild()` (`FirstChild`); `Answer` is the rest of
`dispatch()`; `SessionLost` may come between.

## 3. Runs

| run | expected | shows | bounds |
|---|---|---|---|
| `edits` | pass | `LayersConsistent`, `LossOnlyByFold`, `EditsTakeEffect`, refinement of `UciBuffer` | one section the server may have, one new, two options, one value and the empty string, two adds: an option can go through every combination of base value, change, deletion and fold, and a name can be removed and added again |
| `order` | pass | refinement of `UciSequence` | three server sections in any order and a new one, three adds, no options |
| `save` | pass | `SaveExact`, `SaveLands`, `Resync`, `SaveSettles` | two sections on the server and a new one, two values, two saves, any call failing, before or after execution |
| `save_names` | violation of `OrderKept` | see findings | one save, no failures |
| `poll` | pass | `RunsIffWanted`, `ReadyMeansIdle`, `BusyMeansRunning`, `CalledAgain` | two functions, one of them throwing, intervals 0, 1 and 3 with a tick that wraps at 4, two registrations each |
| `page_parts` | pass | `NoneReadyOnCycle`, `ErrorMeansCycle`, `AcyclicSettles`, `OwnReplyOnce`, `CallsSettle`, `VisibleIffSatisfied`, `SubmitsWhatIsShown`, `ValueIsAsked`, `NeverOlder`, `PlanMeetsRequirements` | see below |
| `router_parts` | pass | `ReferencesResolve`, `AnswersAreOwn`, `EarlyMeansAll`, `ReadersSeeOrder`, `PageIsAllowed`, `AllowedIsServed` | see below |
| `classes_deadlock` | violation of `CycleIsReported` | see findings | two classes |
| `form_reset` | violation of `ResetReverts` | see findings | three options, one failed save |
| `apply` | pass | `TimerGuardsNew`, `KeptStays`, `NewIsDecided`, `ApplyEnds` | rollback option below the minimum, slow and lost replies, unstored token, two losses, two applies |
| `apply_final` | pass | `AppliedIsFinal` | rollback option at the minimum, prompt apply reply, stored token, two losses, three applies: the token of a rolled back apply can confirm the next, and a third be staged after it |
| `apply_short_rollback` | violation of `AppliedIsFinal` | see findings | one apply |

Bounds of `page_parts`:

* classes: all 512 graphs on three classes, with failures; a circle needs at
  most three to be reached from outside through another class.
* calls: three, so that a batch can lose its last reply, a check can share a
  request with a denied call, and a call can travel alone beside a batch.
* form: three options, each needing the next, which is the longest chain that
  two passes settle; one with a default, one required; two further sections.
* dropdown: three choices, all eight kinds, any choices and values at the start.
* network: two callers, two loads at once and three versions, enough for an
  older load to end last.
* packages: three names, one package standing in for another and two providing
  a third, five requirements, circles of up to three.

Bounds of `router_parts`:

* network: one interface, two zones, one rule; a rename, a zone that takes the
  name of another, forwardings in both directions.
* lookup: up to three addresses (two distinct or malformed), a limit of up to
  two, three ids: queries wait, follow, repeat and collide.
* graph: two readers with a daemon each, two slots, three times, patience 0, so
  that a daemon ends after each sample and the next starts.
* request: four nodes in three levels with two pages, one wildcard and two nodes
  that may ask for a session, all rights and conditions.

Deadlock is not checked where the system may rest: counters bounded by
`MaxNew`, `MaxSaves`, `MaxApplies`, `MaxTime`, `MaxVersion` run out, all classes
settle, all calls are answered, a lookup or a request ends.  `poll` checks it,
as the timer or `start()` always goes on.

`MaxNew`, `MaxSaves`, `MaxAdds`, `MaxLosses`, `MaxApplies`, `MaxTime`,
`MaxExtra`, `MaxVersion`, `MaxZones`, `MaxRules`, `MaxAddrs` and `ApplyBy` bound
what the code does not.  Where there are proofs, they hold for every value of
them.  In `ApplyRollback` an assumption keeps `MaxTime` beyond the last possible
rollback, so the end of time hides none, and `Tick` stops while an apply request
or its reply is later than `ApplyBy` and `ReplyDelay` allow.

### Exceptions in the properties

Some properties name the case in which the code does not keep them; the notes
below say what happens then.

* `LossOnlyByFold`: a deletion that a whole-section read folded into the cache.
* `CallsSettle`: the page has told the user to log in.
* `SubmitsWhatIsShown`: an earlier save failed.
* `ReferencesResolve`: what could not be loaded, and names a dismissed dialog
  left behind.
* `ValueIsAsked`: one further choice in a mandatory multiple dropdown, and any
  value after choices were reset without a placeholder to fall back to.
* `PlanMeetsRequirements`: a name required in two versions.
* `AnswersAreOwn`: two queries with one id.  `EarlyMeansAll`: an address that
  was dropped, or a list that was overwritten.
* `ReadersSeeOrder`: two daemons at once.
* `AppliedIsFinal`: changes staged while the token has not expired.
* `AllowedIsServed`: a node that offers a login, which stands for its first page.

### Fairness

* `Poll`: `setInterval` keeps firing (`Step`), and every promise settles
  (`Settle`): the functions of the repository await RPC calls, which time out.
  Nothing is assumed of users (`Start`, `Stop`, `Add`, `RemoveEntry`).
  `CalledAgain` covers finitely many registrations; a page that registered a
  throwing function without end could delay the others.
* `ClassLoader` (in `page_parts`): HTTP requests end and promise callbacks run
  (`Load`).
* `RequestBatch` (in `page_parts`): animation frames come while the page is
  visible (`Frame`), and every request is answered or times out (`Receive`).
* `UciSave`: a call is answered or times out (`Serve`), callbacks run
  (`Continue`).
* `ApplyRollback`: the callbacks and `setTimeout`s of the page run, the
  controller answers what reaches it, rpcd's timer fires, the clock goes on.
  Nothing is assumed of losses, reloads or the user, and nothing of the handling
  of a request the page has given up.  The page keeps asking in `confirm()` and
  `rollback()`, and losses are finite.

In `page_parts` the fairness of two components is a conjunct of one
specification; where neither moves, it constrains nothing.

### Findings

Behaviours of the code that a run demonstrates:

1. `save_names`: after the batch, `responses` holds the replies of all calls,
   deletes first, but is indexed by the position in `snew` (uci.js 880).  With a
   deletion in the batch the new section's name is wrong, and the order call
   that follows does not place it.
2. `classes_deadlock`: two classes that require each other, each requested by
   the page before either file has arrived, wait for each other without the
   documented `DependencyError`: the chain only grows on the path that fetches.
3. `form_reset`: a save whose calls fail, or whose options are rejected, has
   written options to the edit layers; `reset()`, which "will revert all unsaved
   user inputs to their initial form state", renders the cached values and
   leaves the layers (form.js 628), so the next save submits what is no longer
   on the screen.
4. `apply_short_rollback`: the token expires after the configured timeout
   (uci.uc 65), rpcd and the page use at least 90 s.  A confirmation in between
   is answered with 204, which `confirm()` takes for success; the page says
   "applied", and rpcd rolls back.

Noted while modelling; the models show them when the corresponding constant is
changed or when the property is read without its exception, and no run is kept:

* Unset an option, read its section as a whole, set the option and unset it
  again: the whole read deleted it from `state.values` (uci.js 505, 517), so the
  second unset finds nothing to delete and `save()` leaves the old value on the
  server (`SubmitsAllChanges`, true only without whole reads).
* Two callers of `save()` both submit the same new section, and `load()` keeps
  whichever reply arrives last (`Resync` with two `Savers`).
* With `ReplyDelay > 0` or `StoreMayFail = TRUE`, `AppliedIsFinal` fails in the
  same way as in 4: the page counts its deadline from the reply, and the result
  of storing the token is not looked at.
* A token outlives the rollback of its apply by the rest of a second (uci.uc 96
  compares with `<`).  A late confirmation with it that falls between the next
  apply and the storing of the new token confirms that apply; the new token then
  stays until it expires, and a page reloaded meanwhile, with further changes
  staged, resumes confirming and says "applied" of what was applied before.
* A confirmation that succeeds while its reply misses the deadline makes the
  page report a rollback (ui.js 4554) of settings that stay, since 204 only says
  that none is pending.
* A lost apply request or reply leaves the dialog open (`ui = "hung"`): the
  promise has no rejection handler (ui.js 4711).
* `poll.add()` does not start polling before `start()` or after `stop()`
  (luci.js 1094), unlike its comment (1057); `awaitReconnect()` relies on it.
* In a created section `set(..., '')` stores the empty string (uci.js 560), in a
  loaded one it removes the option, as documented at 543.
* `reorderSections()` clears `reorder` before the calls have succeeded, so a
  save retried after a failed order call orders nothing (uci.js 190).
* The interceptor of a 403 that asks for a login throws (luci.js 2718), and the
  promises of all calls of that request stay pending.
* `checkDepends()` makes two passes at most (form.js 730): a chain of three
  dependencies on options declared later stays half updated.
* `clearChoices(true)` leaves the hidden inputs of a dropdown without a
  placeholder, though ui.js 1669-1671 says the values are deselected; no caller
  passes it.  `setValue()` on a mandatory multiple choice keeps the old item if
  it comes before the new ones.
* The cached network state steps back when an older load ends last.
* A zone that is renamed and given other networks in one save keeps its old
  networks (zones.js 183): they are looked up by the old name.  Deleting a zone
  without a name deletes every rule, redirect and forwarding that lacks a source
  or a destination (firewall.js 162).
* The package page follows the dependencies of the installed package, not of the
  version that replaces it, looks only at the first of several requirements on
  one name, and plans a package twice that provides two required names.
* Two daemons of luci-bwc may start at once, as the pid file is read and written
  without a lock; the second empties a file the first has just created, and both
  shift it.
* Two queries of a lookup with one id: the answer to one is recorded for the
  other, and the lookup ends without the rest.  The addresses not yet asked for
  lie in a buffer that the next ubus message overwrites.
* Below a node that offers a login the dispatcher's first child is the first
  page, whether the session may see it or not.

## 4. Proofs

All theorems hold for every value of the constants that satisfies the named
assumptions: finite sets of ids with `Named` and `TempIds` disjoint and no more
than `NewBase` ids in all (`IdsAssumption`, `BaseAssumption`), `None` no value
(`NoneAssumption`), natural numbers as bounds; for `ApplyRollback` positive
timeouts and enough time.  Without `Cardinality(Sids) <= NewBase` the order
theorems fail: a server with 1000 sections would share indexes with new ones.
The components of `MCPage` and `MCRouter` state their assumptions as definitions,
which the composing modules assume together (`MCAssumption`) and TLC evaluates:

* `CallsAssumption`: the names of calls are no outcomes.
* `FormAssumption`, `LateAssumption`: the options are distinct, `None` and `Bad`
  are no values, and no option needs more than two in a row that come after it.
  Without the last `VisibleIffSatisfied` is false, as the code stops after two
  passes.
* `DropdownAssumption`: the choices are distinct, and the placeholder is none.
* `StateAssumption`: the versions are numbers, and no load is called `NoLoad`.
* `DepsAssumption`: a list names a package once, what is only available is not
  ready, and who provides the name of a package provides what that provides.
* `NetworkAssumption`: the names of zones are no markers, and the bounds numbers.
* `DnsAssumption`, `BandwidthAssumption`: the bounds are numbers, the malformed
  address is none, the pid file's special contents are no processes.
* `TreeAssumption`: every node of the menu comes after its parent.

* `UciCacheProofs`: `TypeCorrect`, `LayersAreConsistent`,
  `OnlyFoldedDeletionsAreLost`, `SubmitsAllWithoutFold`, `ImplementsBuffer`,
  `NoEditIsLost`, `ImplementsSequence`.
  The inductive invariant `LayersInv` adds to the types and `LayersConsistent`
  that `values` differs from `base` only where a fold put a change or took an
  option (`BaseAgrees`), and never if there are no whole reads (`NeverFolded`).
  Without `LayersConsistent` a section removed and added again under its name
  could show old edits; without `BaseAgrees` nothing ties what `save()` submits,
  which is relative to the server, to what is shown.  `ImplementsBuffer` maps
  every step to one of `UciBuffer` or to a stutter; `NoEditIsLost` adds that it
  is the step the caller asked for (its steps `<1>1` to `<1>3` say so also of an
  edit that leaves all layers as they are).
  `OneOrder` and `OneSectionMoves` are about places.  `OrderInv` adds that the
  indexes of created sections lie below `NewBase + newidx`, where the next one
  is added, and those of loaded ones below `NewBase`; the step of `move()` rests
  on lemmas that ranks are ordered as indexes are and that taking a section out
  and putting it in keeps the order of the others.
  `ImplementsSequence` is the refinement of `UciSequence`.  `ShownOrder` gives
  place `i` to the section that `i - 1` others lie below.  `RankOnto` shows that
  there is one for every `i`, so `ShownOrder` lists the sections shown in the
  order of their indexes (`ShownSorted`), and `SortedSame` that there is one such
  list.  What `UciSequence` makes of the list is then the new order as soon as it
  lists the sections shown afterwards in the order of their new indexes:
  `AppendSorted`, `RemoveSorted` and `InsertSorted` say when appending, taking
  out and putting in keep a list sorted, and one lemma for each operation
  (`AddSequence` to `BesideSequence`) that the indexes it leaves are so.
* `UciSaveProofs`: `TypeCorrect`, for any number of callers; `SaveLandsAll`,
  `ShownIsTheServer`, `SaveExactly`, for one caller at a time (`OneSaver`),
  whatever calls fail and however often it tries again.  With two the second is
  false, see above.
  `TypeInv` adds that every section added has a call, so that the names taken
  from the replies by position are there (`AddsFit`).  `SyncInv` adds that a
  configuration without edits is shown as loaded (`Untouched`) and that a save
  which does not reload has nothing to send (`Quiet`).  `LandInv` says why no
  call undoes another: what is left of a batch deletes only sections no longer
  shown and adds and sets only those shown (`BatchFits`); a section left over
  from an earlier save that failed is not one of those loaded (`Apart`), so that
  deleting a loaded one leaves it; a loaded one is as shown unless it is in
  `changes` (`Kept`); every section shown is on the server or in a call that is
  left, unless a call has failed (`Landing`).  The names replied are new
  (`RepliesAreNew`), so no section is named twice in an order, and none is lost
  or repeated by it.  `ExactInv` gives each section of the server the section
  shown that it stands for (`Key`) and each of those its place, as loaded or in
  the order added (`Place`): shown sections are in their places unless one was
  moved (`InPlace`); while the calls of a batch that follows no failure are
  served, what the server has is in its place, before all that is still to be
  added, and is shown or has a call that deletes it (`Tidy`).  Served, it has
  what is shown and no more, counting the places.  The replies belong to the new
  sections in their order only if nothing is deleted (`RepliesInOrder`), which is
  why `SaveExact` leaves out the order of a save that deletes, adds and moves
  (`OrderKept` fails there).
* `PollProofs`: `TypeCorrect`, `TimerRunsIffWanted`, `RunsDoNotOverlap`,
  `NobodyIsLockedOut`.
  `PollInv` adds what the tick says of a timer that does not run, and that no
  run in flight belongs to a registration still to come.
* `ApplyRollbackProofs`: `TypeCorrect`, `TimerGuardsUnconfirmed`,
  `ConfirmedStays`, `SaysAppliedTruly`.  `ApplyInv` adds that changes are staged
  only while the old settings are in force; otherwise an unchecked apply could
  keep settings whose timer still runs.  `SaysAppliedTruly` proves
  `AppliedIsFinal` for a rollback option that is not too small, a prompt reply
  and a stored token (`Prompt`).  `FinalInv` ties the page's deadline and token
  to the stored token (`OwnTimer`) and that to rpcd's timer (`TokenIsTimer`);
  without the first a 204 could mean that the page's own apply was rolled back.
* `RequestBatchProofs`: `RepliesAreOwn`, `NoneIsForgotten`.  `CallInv` adds that
  a call has one message, in one place (`Apart`), and waits as long as it has
  (`Waits`); without the first a call could be settled by two requests.
  Positions matter only through lemmas on what a sequence of messages carries.
* `RouterProofs` is about the specification of `MCRouter`, one invariant per part.
  * `ReferencesAlwaysResolve`: `NetworkInv` says of each kind of reference what it
    may name (`UsesResolve`, `NetsResolve`, `LinksResolve`) and that a zone being
    added is there (`AddingIsThere`), so that dismissing the dialog removes that.
  * `ReadersPrintInOrder`, `DatabaseStaysOrdered`: as long as one daemon lives at
    a time, no step of it makes an entry older (`InOrder`), it fills only a file
    nobody has read (`Alone`), and what a reader has printed is not younger than
    what it has not reached (`Behind`).
  * `OnlyAllowedPagesRun`, `AllowedPagesRun`: `RequestInv` says that the resolved
    path is followed from the root and that the session `resolve_page()` saw is
    the cookie's or none; `ServeInv` that the path is one that gets an answer as
    long as a page below the request is visible.  `FirstChild`
    recurs from a node to its children: the lemmas on it take the greatest node
    for which they would fail.
  * `NamesAreOwn`, `EarlyEndMeansAll`, `LimitHolds`: `LookupInv` says that the
    outstanding queries are on the network, where an id names one of them
    (`Known`), and that outstanding queries and those the first loop has yet to
    make are within the limit together (`Outstanding`).
  * `RouterTypeCorrect`: the types of all four parts.
* `PageProofs` is about the specification of `MCPage` (the first two theorems about
  `ClassLoader`'s).
  * `NoInstanceOnCycle`, `DependencyErrorIsSound`: `LoaderInv` adds that every
    class of a request chain but the last requires another one of it, so that a
    class requiring a member closes a circle.
  * `StateIsNeverOlder`: `StateInv` adds that no load knows a version ahead of the
    router's (`NotAhead`), one load at most is still reading (`OneReads`), what it
    has read is not older than what is cached or may be cached first (`ReadsLast`),
    and who waits for a load is not ahead of it (`WaitersFollow`).  Without them a caller could
    join a load that has read before.
  * `PlansMeetRequirements`: `DepsInv` adds that what is needed by the wanted and
    the visited requirements is visited or still to visit (`AllCovered`), that
    nothing else is (`OnlyNeeded`), and that a visited one without an error is
    met by what is installed or planned.
  * `VisibleOptionsAreSatisfied`, `SavesSubmitTheScreen`: the invariant `FormInv`
    is `VisibleIffSatisfied`, and that the layers are those cached as long as no
    save has failed.  The hard part is a lemma (`TwoPassesSuffice`): after the
    first pass an option is right if it needs none that comes later (`late` is at
    most 1), after the second if those are right.
  * `ValueIsWhatWasAsked`: `DropInv` adds that a list holds an item once and marks
    only items of it, that the inputs are the marked items (`SavedIn`), and that
    they are what was asked for but for one item of a mandatory choice
    (`AskedFits`).  `setValue()` is one toggle per item; `SetToSelects` says what
    they leave selected.
  * `PageRepliesAreOwn` carries over `RequestBatchProofs`, as above (`SameCalls`).
  * `PageTypeCorrect`: the types of all six parts.
* `InductionLemmas`: a set of numbers has a least one, a set that goes from each
  number to the next has all of them (`StepByStep`), and a recursive function on an
  interval takes the values its equation says (`Recursion`).  What recursive
  definitions compute (`FirstChild`, `Pass`, `SetTo`, `AllCreated`, `Only`,
  `PathTo`, the flattening of sequences) is proved from these: an induction is
  about the set of numbers for which a statement holds.  `SelectionKeeps` and
  `SelectionEmbeds` say what is left of a sequence of which some elements are taken.

Three flaws of the models came to light in the proofs, which the runs had not
shown: two `CASE`s whose arms overlapped, and so left it to the checker which to
take (`Reached` of `Dispatch` and `Parsed` of `FormMap`); `AllowedIsServed` spoke
of pages below a hidden node that follows a wildcard; and in `NetworkConfig` an interface
left over by a dialog excused a zone of the same name.  They are corrected.

Only model-checked: everything temporal beyond `[]` (`CalledAgain`,
`AcyclicSettles`, `CallsSettle`, `NewIsDecided`, `ApplyEnds`, `SaveSettles`:
liveness is out of the prover's reach), and saves of several callers beyond their
types.

## 5. Not modelled

* Checks, parsing and formatting of strings: `validation.js`, `cbi.js`,
  `http.uc`, `lmo.c`, the parser of plural forms, `luci-lib-ip`.  They are pure
  functions of their input, character by character; a model would repeat them.
* Presentation: the other widgets, tables, tabs, dialogs, indicators, themes.
* Declarative forms: `protocol/*`, `tools/*`, most views and applications name
  options and data types; what they do with state goes through `form.js`,
  `uci.js`, `network.js` and `firewall.js`.
* Wrappers of single calls: `fs.js`, `session`, the rpcd backend, `rpcd-mod-luci`.
* The Lua side (`luci-compat`, `luci-lua-runtime`, the Lua libraries), which the
  pages above have replaced, and C bindings for it.
* Within modelled components: section types, value lists and `@type[n]` in
  `UciCache`; several configurations in one `save()`, and a client timeout in the
  middle of a batch, in `UciSave`; `uci.apply()`, which no page calls with a
  check; edits staged while rpcd's timer runs in `ApplyRollback`; tables, grids
  and nested sections in `FormMap`; aliases, rewrites, tokens and the building of
  the tree in `Dispatch`.
