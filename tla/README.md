# zycdp in TLA+

zycdp (a fork of chromiumoxide) drives a Chromium browser over the DevTools
protocol. One task polls the `Handler` stream; callers hold `Browser` and
`Page` handles and talk to it over channels; the browser answers over one
websocket. This directory models that core, checks it with TLC on small
instances, and proves what matters most with TLAPS for every instance.

Paths below are relative to the repository.

## 1. The system

### Parts, their state and their operations

| Part | Code | State | Operations |
|---|---|---|---|
| Handler loop | `src/handler/mod.rs` | `pending_commands`, `navigations`, `targets`, `target_ids`, `sessions`, `from_browser`, `closing` | `poll_next`: messages of the `Browser` handle, every target, the websocket, eviction; `on_response`, `on_event`, `submit_*` |
| Target | `src/handler/target.rs` | `init_state`, `session_id`, `page`, `queued_events`, `initiator`, `wait_for_frame_navigation` | `poll`, `on_event`, `on_response`, `on_initialization_failed` |
| CommandChain | `src/cmd.rs` | commands left, the one waited for and its deadline | `poll`, `received_response` |
| FrameManager | `src/handler/frame.rs` | frames, main frame, watched navigation, pending navigations, isolated worlds | `goto`, `poll`, `on_frame_*`, `on_page_lifecycle_event` |
| NetworkManager | `src/handler/network.rs` | requests, interception ids, credentials, switches | `on_request_*`, `on_fetch_*`, `authenticate` |
| EventListeners | `src/listeners.rs` | per method a `Vec` of listeners, each with a queue and a channel | `add_listener`, `start_send`, `try_send_custom`, `poll`; `EventStream::poll_next` |
| CommandFuture | `src/handler/commandfuture.rs` | message to send, oneshot, delay | `poll` |
| Connection | `src/conn.rs` | queued commands, pending flush, `next_id` | `submit_command`, `poll_next` |
| Browser handle, process | `src/browser/` | child process, context id | `launch`, `new_page`, `fetch_targets`, `close`, `kill`, incognito switch |
| Page API, Chaser | `src/page.rs`, `src/element.rs`, `src/chaser.rs` | handles only; Chaser spawns listener tasks | one command each; `wait_for_*`, interception, key combos |
| SOCKS5 bridge | `src/socks5_bridge.rs` | one connection | handshake, relay |
| Fetcher | `chromiumoxide_fetcher/` | files of an installation | find, download, unzip |
| Data and build time | `profiles.rs`, `stealth.rs`, `keys.rs`, `layout.rs`, `chromiumoxide_pdl`, `chromiumoxide_cdp`, `chromiumoxide_types` | tables, generated code | pure functions |

### How they interact

A caller's `CommandFuture` puts one message into the page channel and waits on
a oneshot, with its own delay. `Target::poll` drains the channel into
`queued_events`; the Handler turns those into commands on the `Connection` and
remembers them in `pending_commands`. Responses are matched by id, events by
session. Everything the Handler owns is touched by one task only, so the
interleavings that matter are between that task's loop (targets, then
websocket, then eviction), the callers and readers on the other ends of the
channels, the browser, and the clock.

### What is hard

* The response to `Page.navigate` and the end of the load come in either order,
  each with its own deadline, and other navigations run in between.
* A oneshot sender moves through four containers; dropping or forgetting it in
  any of them cancels or hangs a caller.
* Targets are replaced, destroyed and detached from while callers, commands and
  chains refer to them by id.
* `target_ids` and the listener `Vec`s are rotated by `swap_remove` and `push`
  while they are walked backwards.
* A reader's task is polled only when woken, so a missing waker is a hang.
* Deadlines are looked at only when something wakes the loop, and the Handler's
  own clock wakes it once: a `Delay` that is over is reset and not polled again
  (`src/handler/job.rs:20`).
* A step that fails is often only logged, or its error is dropped: a dialog stays
  open, a half written file stays where an installation is looked for.

`PROJECT.json` lists each hazard at its line with the properties that cover it.

### What makes each part correct

* Navigation: every `goto` resolves while the Handler is polled; nobody is stranded
  in a table; the gotos leave in the order they were made, one in flight at a time;
  success means the document has loaded.
* Event listeners: what a stream yields is a gapless, ordered run of the events
  since its registration; dropped listeners are forgotten at the next poll; streams
  end.
* Targets: every `new_page` resolves, unless the browser leaves its target alone
  where the code has no deadline; every tracked target is polled; sessions and
  targets agree; an initialized target is set up, and handed over when loaded.
* Frame tree: parents and children agree, the main frame is tracked (else the
  code panics), the tree ends as the page's, contexts are those that live.
* Network manager: each hop of a request is tracked with its own interception, its
  end is reported once and nothing of it stays, unless it was cancelled before its
  pause; nobody waits in vain.
* Connection and command table: commands leave in order, each once; each
  response reaches the sender of its command; every call ends while the Handler is
  polled.
* Page and Chaser methods: what a call presses or overrides is undone when it
  succeeds, and the modifiers of a key combination when it fails, too; scripts run in
  the frame and world asked for; a wait returns what it is for; no dialog is
  forgotten unless its answer failed.
* Browser handle: a failed launch leaves no process; pages carry the label of
  the context they live in. Command line: no switch contradicts another.
* Fetcher: what is taken for an installation is whole. Bridge: a client is told
  200 only with the upstream in hand.

## 2. The modules

| Module | Models |
|---|---|
| `NavigationQueue` | abstract: what a page promises of its gotos |
| `Navigation` | `Page::goto` from the caller's future to the browser and back |
| `NavigationProofs` | theorems about `Navigation`, its refinement of `NavigationQueue` |
| `EventLog` | abstract: what an event subscription promises |
| `Vecs` | a `Vec` as a sequence: membership, `swap_remove` |
| `EventListeners` | `EventListeners` of one target and one method, and its `EventStream`s |
| `EventListenersProofs` | theorems about `EventListeners`, its refinement of `EventLog` |
| `Targets` | targets, sessions and the initialization of a new page |
| `TargetsProofs` | theorems about `Targets` |
| `Fifo` | abstract: what the connection promises |
| `Connection` | `Connection`: queue, flush state, the socket's sink |
| `Commands` | `Browser::execute` and `close` over the Handler's table and its `Connection` |
| `HandlerTask` | when the Handler's task runs: `Commands` under wake-ups and the `PeriodicJob` |
| `CommandsProofs` | theorems about `Commands` and `Connection`, their refinement of `Fifo`, and about `HandlerTask` |
| `FrameTree` | `FrameManager`: frames, worlds, contexts, waiters, against the page's own tree |
| `FrameTreeProofs` | theorems about `FrameTree` |
| `Network` | `NetworkManager`, and who else drives the Fetch domain of the page |
| `NetworkProofs` | theorems about `Network` |
| `PageOps` | methods of `Page`, `Element`, `PageInner`, `ChaserPage` as scripts of commands |
| `Waits` | `ChaserPage::wait_for_*` and `on_dialog` |
| `PageProofs` | theorems about `PageOps` and `Waits` |
| `BrowserProcess` | `Browser::launch`, `connect`, `wait`, `kill`, `close`, drop; incognito contexts |
| `LaunchArgs` | `BrowserConfigBuilder`, `ArgsBuilder`, detection of the executable |
| `Fetcher` | `BrowserFetcher::fetch` over a shared cache |
| `Socks5Bridge` | accept loop, connections and tunnels of the bridge |
| `LaunchProofs` | theorems about `BrowserProcess`, `LaunchArgs`, `Fetcher`, `Socks5Bridge`, and about `MCParts` |
| `MCParts` | eight modules in one run: `FrameTree`, `Network`, `PageOps`, `Waits`, `BrowserProcess`, `LaunchArgs`, `Fetcher`, `Socks5Bridge` |
| `MC*` | otherwise: constants and symmetry for TLC |

### NavigationQueue and Navigation

`NavigationQueue` knows of the callers, the line they stand in, the document that
is loading, those whose load has ended without a response, and the documents the
browser has yet to see. `Navigation` has no line: `Line` puts it together from the
four places where a goto waits (requests among `queued_events`,
`pending_navigations`, commands among `queued_events`, `page_rx`, nearest to the
socket first), `Loading` is what is watched or has its result queued, `Loaded` the
entries that were navigated.

In `Navigation`, `pc` is the place `Handler::poll_next` has reached: `events`
(`HandleTargetEvent`, then `DrainPageChannel`), `frames` (`PollWatched`,
`StartNext`, `NothingToReport`), `conn` (`ReadMessage`, `EvictTimedOut`).
`page_rx`, `queued_events`, `pending_navigations`, `navigation`, `navigations`
and `pending_commands` are the fields of those names; a `NavigationId` is the
call it stands for, since ids are never given out twice. `main_frame` keeps
what the FrameManager compares: id, loader, whether "load" was seen. The
browser is external: it may respond before or after it commits, load, navigate
by itself, push history, swap the main frame or destroy the target. `settled`
and `solo` are history variables: the calls whose own document has loaded, and
the calls nothing else disturbed.

An invariant about living targets is needed because of a leak the code has:
when a target is destroyed, entries of its navigations stay in
`Handler.navigations`, and only the caller's own delay resolves those calls.

### EventLog and EventListeners

`listeners` is the `Vec` of one `(TargetId, method)` with its rotation, `queued`
the listener's queue, `channel` the unbounded channel to the `EventStream`,
`waker` whether the stream left its waker there and `woken` whether its task is
scheduled. An event is its position in `log`; its conversion is the type that
`try_send_custom` or `start_send` chose. The channel's contract (a send, or the
drop of the last sender, wakes the receiver that registered) is external, as is
the reader, who is polled only when woken. The Handler's own listeners use the
same type and the same poll, but it sits inside the loop over targets: with no
target their events wait in the queues (`src/handler/mod.rs:631`). A stream of
another event type than the one that arrives swallows it, returns `Pending`
without leaving a waker and may sleep on its own next event
(`src/listeners.rs:201`); the run `listeners` keeps to streams of the event's type.
Dropping a stream wakes nobody: its listener goes when the Handler is polled for
another reason.

### Targets

`phase` is the place in the loop: `top` (messages of the Browser handle: `NewPage`,
`FetchTargets`, `GetPage`), `targets` (the loop over `target_ids` with its index
`cursor`: `Attach`, `SendNext`, `Advance`, `ChainTimesOut`, `HandOver`,
`NextTarget`), `conn` (`ReadMessage` until nothing has arrived, then `EndPass` with
the eviction). A target is the record of the fields of `Target` that matter here:
`init_state`, its `CommandChain` (`cmds`, `waiting`), `session_id`, the session of
its `page`, the `initiator`, and how far the main frame is. The chains are cut to
one or two commands; the first keeps `getFrameTree` and `setLifecycleEventsEnabled`,
on which the hand-over depends. The browser opens, attaches, runs, lists, detaches,
closes and destroys in any order it likes, reports a tab before it answers
`createTarget`, refuses commands for what is gone and may refuse any attach, which
nothing on the Handler's side handles (`src/handler/target.rs:344`); a document need
not end to load. Tabs open before the connection are taken not to be reported until
`fetch_targets`, as the doc of that function says.

Not in the module: targets that are not pages (never polled), sessions that
auto-attach creates under a page, browser contexts, and everything `Target::poll`
does after initialization, which is `Navigation`'s.

### Fifo, Connection, Commands and HandlerTask

`Connection` has the steps of one turn of `Connection::poll_next`: `Flush` and
`StartSend` (`start_send_next`), `SinkReady` (`poll_ready`, after which a flush
is needed), `SendFails` and `ReadFails`. `sink` is the websocket's buffer,
`wire` and `submitted` are histories. `Commands` extends it with the loop of the
Handler (`phase`: `mail`, `conn`, `yielded` an error to its user, `over` after
the answer to `Browser.close`, `ended` when dropped), its table (`pending`,
`late`) and the callers, who have no delay of their own: only an answer, the
eviction or the drop of the Handler ends their wait. The socket may close or
break at any time; commands that were queued then are lost one by one
(`SendFails`) or stay behind a flush that never succeeds, so `Fifo` speaks of
order and not of arrival. Ids do not wrap around in the model.

`HandlerTask` puts the same steps under the task that polls the Handler: `asleep`,
`running`, or `woken` while it ran and due once more. A turn of the loop begins only
when something has woken the task: a message, the socket, or the `Delay` of the
`PeriodicJob`, which hands out its waker once (`armed`) and, when it is over (`due`),
is reset by the next turn without being polled. Only a turn that finds it not yet
over arms it again. `done` is the flag that ends a turn in which nothing was read.

### FrameTree

`frames`, `main_frame`, `context_ids`, `isolated_worlds` are the FrameManager's;
`page` and `contexts` are what the browser really has. The page attaches,
navigates, detaches and replaces frames and makes and destroys contexts; its
events arrive in order, with the answer to `Page.getFrameTree` somewhere among
them, so the manager meets frames it knows and events of frames it has not been
told of. `remove_frames_recursively` is the set below a frame; the `expect`s of
the code are what `TreeIsWellFormed` shows to hold. Watched loaders and `goto`
are in `Navigation`.

### Network

`requests`, `will_be_sent`, `interceptions`, `attempted` are the four maps. The
browser sends a request with its redirects; with the Fetch domain on, each hop waits
at a gate until somebody continues it, and `requestPaused` and `requestWillBeSent`
of a hop are reported in either order. A hop may be cancelled at any time after its
announcement, before its pause, too: then the manager keeps the announcement and
reports nothing of that hop (`src/handler/network.rs:201`). `mode` is the user:
`Page::authenticate`, `HandlerConfig.request_intercept`, or `ChaserPage`'s
interception and proxy authentication, which do not go through the manager.

### PageOps

A method is a script (`Script`): a sequence of commands, each sent after the
answer to the one before, and what the method does about an error. The browser
side keeps only keys and buttons that are down, overrides, a cookie and the
number of each frame's document. The page may navigate, a frame may go, an
answer may be a failure or may never come, and the caller may drop the call.
A context is looked up at the Target, which may not know of it, at each place the
code asks: `evaluate` calls an expression that turned out to be a function after
a second lookup (`src/page.rs:1203`), and `set_content` runs in the main world when no
utility world is known (`src/page.rs:1379`).
A method that sends one command and returns the answer is a call of `Commands`
and not repeated here. Coordinates, delays and curves are left out.

### Waits

One wait with its two subscriptions, or up to two `on_dialog` handlers. An item
(request, download, lifecycle event, new page, dialog) fits or not, begins and
ends at any time; streams have queues of their own, and recorder task, finish
task, caller and deadline interleave. `missed` counts the items that fit, ended and
did not end the wait; `MayBePassedOver` names those the code loses: an item that
began before the wait, one whose end was read before the recorder had recorded it,
one whose body was refused (`excused`), and one that began and ended between the two
subscriptions (`unheard`, `src/chaser.rs:639`). The command that answers a dialog may
fail, which is only logged (`src/chaser.rs:1563`): the dialog stays open,
`unanswered`.

### BrowserProcess, LaunchArgs

`BrowserProcess` follows a `Browser` from `launch` (its stderr, its deadline, the
exit of the process, the cleanup) or `connect` to its drop, and beside it the
incognito contexts, whose ids the handle, the Handler's set and the browser each
keep. The contexts that a `HandlerConfig` names (`FromConfig`) are known after
`connect`; a launch names none. `LaunchArgs` calls builder methods in any order,
builds, and merges default arguments, the user's and the configuration's.

### Fetcher, Socks5Bridge

`Fetcher` resolves a version to a build, looks for it, downloads and unpacks it, by
two fetches over one cache, each of which may fail or be killed anywhere. A chunk of
the download may be written in part (`write`, not `write_all`,
`chromiumoxide_fetcher/src/runtime/mod.rs:69`): an archive with such a gap may fail
to open or to unpack. `disturbed` are the folders in which an unpacking stopped once
it had created the executable. The network host is external. `Socks5Bridge` has the
accept loop with its `Notify`, a task for every connection and every tunnel, and the
owner of the handle; the SOCKS5 handshake itself is tokio_socks'.

### MCParts

These eight share no state, so their composition adds no behaviour. `MCParts`
extends all of them (their definitions have distinct names: `FrameInit`,
`NetworkNext`, `WaitsTypeOK`), so that the run checks the very definitions the
theorems are about; the variable `part` chooses one that moves while the others
keep an initial state. One run thus explores the sum of their state spaces, not
the product.

## 3. What is checked

| Run | Question | Properties |
|---|---|---|
| `nav_safety` | two gotos, a page that navigates by itself, death, deadlines | `TypeOK`, `EntriesAreServed`, `CallersAreHeld`, `UndisturbedGotoLoadsItsDocument` |
| `nav_liveness` | two gotos, one caller impatient, a main frame that may be swapped: what a page promises, and an end to every goto of a Handler that goes on being polled | `ImplementsNavigationQueue`, `EveryGotoResolves` |
| `nav_stale_watcher` | finding | `GotoResolvesAfterLoad` |
| `listeners` | two streams that register, lag, drop and lose their target, with tasks that are polled only when woken | `TypeOK`, `EachPolledOnce`, `ImplementsEventLog`, `OwnEventsArrive`, `DroppedAreForgotten`, `StreamsEndWithTarget` |
| `listeners_first_type` | finding | `FirstRegisteredConverts` |
| `targets_new_page` | one page through every stage: refusals (of the attach, too), deadlines, a load that need not end, a tab closed, a session lost | `TypeOK`, `NewPageResolves` |
| `targets_fetch` | `fetch_targets` at any point of a new page: the target is replaced, listed twice, attached to three times | `TrackedAreServed`, `InitializedIsSetUp`, `PagesAreReady`, `NewPageResolves` |
| `targets_detach` | finding | `DetachedSessionOnly` |
| `commands` | an execute and a close, a socket that ends, a Handler that is dropped, a task that sleeps between wake-ups | `TypeOK`, `OwnResponseOnly`, `CallersAreHeld`, `ImplementsFifo`, `EveryCallResolves` |
| `commands_sleep` | finding | `TimedOutCallsEnd` |
| `parts` | eight machines, one at a time | `PartsTypeOK` and the sixteen properties below |
| `proxy_auth` | finding | `ProxyAuthLetsRequestsPass` |

Properties of `parts`, by machine:

| Machine | Property | Says |
|---|---|---|
| FrameTree | `TreeIsWellFormed` | parents and children agree, the main frame is the tracked root |
| | `TreeMirrorsPage` | when all events are read, the manager's tree is the page's |
| | `ContextsAreLive` | when all events are read, the contexts it uses exist, each in its frame and world |
| Network | `PairedWithOwnHop` | a hop is tracked with its own interception, in either order of the events |
| | `EveryRequestIsReportedOnce` | the end of a request is reported once and no map keeps an entry of it; a hop cancelled before its pause is the exception: its announcement stays, and nothing is reported of it |
| | `NothingIsLeftUndone` | at rest nobody waits for the manager, credentials were offered at most once, the cache is on or off as the configuration has it, and interception does not change that |
| PageOps | `NothingStaysBehind` | after calls that succeeded keys, buttons and overrides are as before; after a failure at least no modifier is down, unless an answer was lost |
| | `HandlesAgree` | an element's three handles are of one node |
| | `ScriptsRunWhereAsked` | a script runs in the frame and the world it was meant for, `set_content` in the main world when the Target knew no utility world |
| Waits | `WaitsReturnTheirOwn` | a wait returns what it is for, with its own body, in time, and passes over nothing but what `MayBePassedOver` names |
| | `DialogsAreAnswered` | when the handlers are done no dialog blocks the page but one whose answer failed; a lone handler's answer meets its own dialog |
| BrowserProcess | `LaunchCleansUp` | a failed launch leaves neither process nor zombie; a browser connected to is never killed |
| | `TargetsKnowTheirContext` | a page in a living context is labelled with it |
| LaunchArgs | `SwitchesGoTogether` | nothing said of a switch is lost and nothing is there that nobody said; port, data directory and extensions are there as often as they should |
| Fetcher | `InstallationIsWhole` | what `fetch` returns is the whole of the build asked for, but for the exceptions below |
| Socks5Bridge | `ClientsAreToldTheTruth` | 200 is said with the upstream in hand, no upstream outlives its client, only the handle's drop ends the loop |

Each property of a passing run has a mutant in `PROJECT.json`: a plausible slip
in the mapped code that breaks it.

### Findings

* `nav_stale_watcher`: a queued `goto` compares with the loader that was current
  when it was queued, so a second `goto` is told it has loaded when the first
  one's document has (`src/handler/frame.rs:343`).
* `listeners_first_type`: `EventListeners::poll` permutes the listeners, so "the
  first registered event listener" alternates (`src/listeners.rs:84`).
* `targets_detach`: the detach of one of several sessions takes the session the
  target uses (`src/handler/mod.rs:484`).
* `proxy_auth`: `enable_proxy_auth` makes the browser pause every request and
  answers only the challenges; the paused requests are continued by nobody
  (`src/chaser.rs:1602`).
* `commands_sleep`: `PeriodicJob` is "a background job run periodically"
  (`src/handler/job.rs:10`) and the Handler "evicts timed out requests periodically"
  (`src/handler/mod.rs:79`), but a `Delay` that is over is reset without being polled
  and so has no waker (`src/handler/job.rs:21`): with a silent browser the task
  sleeps, and a command that is late by then is never evicted.

Seen while reading, and modelled as they are; the property that comes near
excepts them by name:

* An unpacking that failed or was killed once it had created the executable, empty
  or half written, leaves a folder that the next `fetch` takes for an installation
  (`chromiumoxide_fetcher/src/fetcher/mod.rs:56`; its doc, line 35, advises to wipe
  the folder after a failure). Builds that differ in their last part share one
  archive path (line 69). Both are excepted in `InstallationIsWhole`.
* `set_content` falls back to the main world when no utility world is known
  (`src/page.rs:1379`); `docs/HANDOVER.md:95` speaks of the secondary context only.
* A response that begins and ends between the two subscriptions of
  `wait_for_response` is lost (`src/chaser.rs:639`). A `handleJavaScriptDialog` that
  fails is logged, and its dialog stays open (`src/chaser.rs:1563`).
* A request that is cancelled between its announcement and its pause stays in
  `requests_will_be_sent` and is reported to nobody (`src/handler/network.rs:201`).
* The command that turns the cache off is computed from the old interception flag
  (`src/handler/network.rs:116`): interception does not turn it off.
* An attach that is refused, and a load that does not end, leave `new_page` waiting:
  neither has a deadline (`src/handler/target.rs:344`, `src/handler/target.rs:401`).
* `create_browser_context` and `create_incognito_context_with_proxy` send no
  `InsertContext` (`src/browser/mod.rs:457`): pages of their contexts lie outside
  `TargetsKnowTheirContext`.
* `quit_incognito_context` forgets the context's id before it asks to dispose it;
  a second `start_incognito_context` does not dispose the first.
* `set_cookie` deletes before it sets; a full page screenshot clears the
  emulation that was on before; `reload` may be answered by the old document;
  `wait_for_popup` starts its timeout anew with every event.
* A shutdown notice that reaches the bridge while its loop is not selecting is
  lost, and so is that of a drop.
* Outside the models: `Element::screenshot` adds the viewport's offset twice
  (`src/element.rs:429`) and `find_xpath` indexes an empty answer
  (`src/page.rs:575`).

### Bounds and why they are enough

* Two gotos are what it takes for a queue behind a watched navigation; one
  document by the page itself, one push and one swap of the main frame each
  happen at every point. `MaxInbox` only bounds how far the browser runs ahead.
  Both may wait in the line before the first is sent, so that their order shows.
* Two streams and three events show order, a listener that goes while the other is
  polled, and a stream that lags behind; `listeners_first_type` takes the two types it
  needs. What a pass over more listeners does is proved for any number
  (`PollVisitsEachOnce`).
* In `nav_liveness` one of the callers gives up, the main frame is swapped once, and
  the target lives; `nav_safety` has the rest.
* One tab, with `fetch_targets` allowed once, already gives a replaced target, a
  `target_ids` with the tab twice, three sessions and stale responses; deadlines,
  detaches and the end of the tab are left out there, which would take the run
  beyond ten million states. One tab with one session goes through every stage,
  refusal and deadline, and is closed or detached from at any point. Two pages at
  once are not checked in this version (section 6); callers share only
  `pending_commands` and the loop.
* One execute, one close and the Handler's own first command give three ids in
  flight, enough for answers out of order, an answer after an eviction, and a
  command waiting behind an unflushed one. The theorems cover any number.
  `commands` does not check deadlock: a Handler that was dropped is at its end.
  `commands_sleep` has one call and a socket that stays open, and there the system does stop.
* `parts`: one main frame and one that replaces it, two sub-frames (a nested one and
  a sibling), two contexts, five steps of the page with two events in flight: a
  replacement with a detach and an attach around the answer to `getFrameTree`. Two
  requests, one of a `data:` url, two hops (one redirect), two challenges (the
  second is refused), a cancellation at any point. Two calls of `PageOps`, one after
  the other, over any method, so that a second one meets what the first left. Two
  items for a wait. Three browser contexts, one of them configured, and two pages.
  Three calls of the builder. Two fetches over an archive of three entries. Two
  clients of the bridge with two requests. Each machine stops at its bounds, so
  `parts` and `proxy_auth` do not check deadlock.

### Fairness

* What the Handler's task owes. A turn of its loop that has begun is gone through to
  the end (`WF` of its steps), and a message that has arrived is read. Whether another
  turn begins is a different matter: the task is woken by messages and by the
  socket, and its `PeriodicJob` wakes it once (`src/handler/job.rs:20-25`,
  `src/handler/mod.rs:667-674`). `HandlerTask` models this, and the finding
  `commands_sleep` shows that a silent browser leaves the task asleep. Nothing
  else in the code makes it run, so no module takes it for granted.
* That something keeps waking the task is therefore an assumption, `PolledOn`, which
  the properties that need it name as their antecedent: `EveryGotoResolves`,
  `NewPageResolves`, `DroppedAreForgotten` and `EveryCallResolves`. It says `[]<>` of
  the step that ends a pass (`EvictTimedOut`, `EndPass`), of the one that begins a
  poll (`BeginPoll`), or of a task that is not asleep (`HandlerTask`). It holds
  where the browser keeps sending events, as a page that is alive does; without it a
  caller has only a delay of its own, which `Browser::execute` has not.
* `OwnEventsArrive` and `StreamsEndWithTarget` do without: an event that is read or a
  request in the channel has woken the task (`Woken`), and in `EventListeners` the
  Handler's `WF` is of such turns only.
* A reader's task is polled only when woken (`WF` of a `PollStream` whose guard asks
  for `woken`): the code guarantees no more.
* Deadlines: a navigation's deadline and a chain's are looked at only when the loop
  passes that point, so `DeadlinePasses` and `ChainTimesOut` are enabled now and then
  and get `SF`: of infinitely many passes, one sees a deadline in the past. If there
  are only finitely many, the assumption above is false and nothing is claimed.
* In `HandlerTask` a task that is awake is polled (`WF`); the stream is polled again
  after an error, and dropped at its end; the `Delay` fires; commands grow
  old; a socket that was full takes data again. When a pass finds the job due and a
  late command, it evicts it: no fairness of the eviction itself is assumed.
* The socket and the browser owe nothing in `Navigation`, `EventListeners` and
  `HandlerTask`. In `Targets` the browser serves the commands it is sent, by an answer
  or a refusal, and finishes what it closes; it may refuse an attach, and a load need
  not end. The code has no deadline for these two, and `NewPageResolves` says which
  callers wait for good: those whose target stays `LeftByBrowser`, without a
  session and none to come, or initialized with a document whose load is not
  reported.
* `parts` checks safety only and assumes no fairness; "at rest" properties speak of
  states in which nothing is on its way.

## 4. What is proved

All theorems hold for every value of the constants that satisfies the named
assumptions. TLC evaluates each assumption in the runs of its module.

* Bounds are numbers, switches are Booleans, null values are not members of the
  sets they stand beside: `BoundsAssumption`, `NullAssumption`, `CallsAssumption`,
  `TypesAssumption`, `EventsAssumption`, `NetworkBounds`, `ItemsAreNamed`,
  `CallsAreBounded`, `SettersAreBounded`.
* `Targets!BoundsAssumption` asks besides for enough sessions: each tab may be
  attached once by itself and twice for each `fetch_targets`.
* `FrameAssumption`: ids of main frames and of sub-frames are disjoint, which the
  browser promises. `MethodsHaveScripts`: the methods are the 37 that have one.
* `FetcherConstants`: a release has a version, an archive has its executable.
  `UserArgsAssumption`: an argument is a key and a sequence of values.
  `ConfiguredContexts`: a configuration names contexts of the browser.

### Theorems

| Theorem | States | Argument |
|---|---|---|
| `NavigationProofs!TypeInvariance` | `TypeOK` | inductive as it stands |
| `NavigationProofs!NoEntryStranded` | `EntriesAreServed` | inductive with `TypeOK`: every step that takes a navigation or a response out of one container puts it into the next one (`HasAppend`, `HasTail`, `PendingAppend`, `PendingTail` say what the containers keep) |
| `NavigationProofs!NoCallerLost` | `CallersAreHeld` | inductive with `TypeOK`: `Deliver` is the only way an entry goes, and it ends the wait |
| `NavigationProofs!OneNavigationAtATime` | `OneNavigationInFlight` | `OrderInv`, below; the guard of `Send` in `NavigationQueue` is its counterpart, and no run checks it apart |
| `NavigationProofs!UndisturbedGotoLoads` | `UndisturbedGotoLoadsItsDocument` | `OrderInv` and `SoloInv`, below |
| `NavigationProofs!PipelineImplementsQueue` | `ImplementsNavigationQueue` | `LineInv`, below |
| `EventListenersProofs!TypeInvariance` | `TypeOK` | inductive as it stands |
| `EventListenersProofs!PollVisitsEachOnce` | `EachPolledOnce` | needs `OneSender`: no stream occurs twice among requests and listeners; `RotateFacts` and `SwapRemoveFacts` describe one turn of the walk |
| `EventListenersProofs!Refinement` | `ImplementsEventLog` | needs `InOrder`: what was seen, then the channel, then the queue of a stream is the run of the log from its registration on (`RunFacts`); every step maps to `Publish`, `Join`, `Take` or a stutter |
| `CommandsProofs!TypeCorrect` | `TypeOK` | unique ids in the table follow from `KnownAreReal` |
| `CommandsProofs!ResponsesFindTheirCaller` | `OwnResponseOnly` | needs `KnownAreReal`: whatever the table, the browser and the inbox hold is the command that was submitted under its id (`StaysReal`), so an answer and a table entry with the same id are the same command |
| `CommandsProofs!NoCallerIsLost` | `CallersAreHeld` | `RemovalStep`: commands leave the table only with their callers told |
| `CommandsProofs!OneCommandInSink` | `OneInSink` | part of `ConnInv`; checked by no run |
| `CommandsProofs!ConnectionImplementsFifo` | `ImplementsFifo` | needs `InPlace`: while the socket is open, wire, sink and queue together are what was submitted; a flush maps to `Deliver`, a submission to `Submit`, the rest to a stutter |
| `CommandsProofs!TaskTakesItsSteps` | `TaskSpec` implies the `Spec` of `Commands` | every step of the task is one of `Commands` or leaves its variables alone, so all of the above hold in the run `commands` |
| `TargetsProofs!TypeCorrect` | `TypeOK` | needs the channels' types and `AnswersMatch`: a `createTarget` that succeeds is answered with a tab |
| `TargetsProofs!SessionsStayKnown` | `SessionsAgree`, part of `TrackedAreServed` | needs `SessionsAreNew`, below |
| `TargetsProofs!NoCallerIsLost` | `CallersAreHeld`, part of `TrackedAreServed` | needs `OnePlace` and `TabsAreNew`, below |
| `TargetsProofs!ReplacedAreServed` | `TrackedAreServed` | the two above and `TrackedArePolled`; `SwapRemoveHolds`: one turn of the loop takes nobody else off the list |
| `TargetsProofs!InitializedMeansSetUp` | `InitializedIsSetUp` | `SInv`, below |
| `TargetsProofs!PagesAreHandedOverReady` | `PagesAreReady` | `LoadInv`, below |
| `FrameTreeProofs!TypeCorrect` | `FrameTypeOK` | part of `IInv` |
| `FrameTreeProofs!TreeStaysWellFormed` | `TreeIsWellFormed` | `IInv`, below |
| `FrameTreeProofs!HistoryIsKept` | `HInv` | the moments between the events on their way exist in every run |
| `FrameTreeProofs!TheTreeIsThePages` | `TreeMirrorsPage` | `HInv`, below |
| `FrameTreeProofs!WorldsShowLiveContexts` | `ContextsAreLive` | `HInv`, below |
| `NetworkProofs!NetworkTypes` | `NetworkTypeOK` | part of `NetInv` |
| `NetworkProofs!HopsArePaired` | `PairedWithOwnHop` | `NetInv`, below |
| `NetworkProofs!RequestsAreReported` | `EveryRequestIsReportedOnce` | `NetInv`, below |
| `NetworkProofs!NothingRemains` | `NothingIsLeftUndone` | `NetInv`, below |
| `PageProofs!OpsAreTyped` | `OpsTypeOK` | `OpsTypes`, part of `OpsInv`: what a script may still send takes the arguments it should |
| `PageProofs!NothingIsLeftBehind` | `NothingStaysBehind` | `OpsInv`, below |
| `PageProofs!HandlesAreOneNode` | `HandlesAgree` | `OpsInv` |
| `PageProofs!ScriptsStayWhereAsked` | `ScriptsRunWhereAsked` | `OpsInv` |
| `PageProofs!WaitsAreTyped` | `WaitsTypeOK` | inductive with the types of the queues |
| `PageProofs!WaitsFindTheirOwn` | `WaitsReturnTheirOwn` | `WaitInv`, below |
| `PageProofs!DialogsFindTheirAnswer` | `DialogsAreAnswered` | `DialogInv`, below |
| `LaunchProofs!FailedLaunchCleansUp` | `LaunchCleansUp` | needs that until there is a handle nobody kills the process, and that no error precedes a failure |
| `LaunchProofs!ProcessIsTyped` | `ProcessTypeOK` | needs `ContextInv` and that nobody makes a context before there is a handle (`NoneMade`) |
| `LaunchProofs!PagesKeepTheirContext` | `TargetsKnowTheirContext` | `ContextInv`, below |
| `LaunchProofs!ArgsAreTyped` | `ArgsTypeOK` | part of `ArgsInv` |
| `LaunchProofs!ArgsGoTogether` | `SwitchesGoTogether` | `ArgsInv`, below |
| `LaunchProofs!FetchesAreTyped` | `FetchTypeOK` | part of `FetchInv` |
| `LaunchProofs!FetchedIsWhole` | `InstallationIsWhole` | `FetchInv`, below |
| `LaunchProofs!BridgeTypes` | `BridgeTypeOK` | part of `BridgeInv` |
| `LaunchProofs!TruthIsTold` | `ClientsAreToldTheTruth` | inductive with `BridgeTypeOK` and: whoever is notified has no handle left |
| `LaunchProofs!PartsAreIndependent` | `PartsSpec` implies the eight specifications | `AStepOfOne`, below |
| `LaunchProofs!PartsKeepTheirTypes` | `PartsTypeOK` | the eight theorems of types, by `PartsAreIndependent` |

### Navigation

`OrderInv` adds to `TypeOK` and `EntriesAreServed` that a call is in one place
only (`OnePlace`), that what is not sent yet has neither entry nor answer
(`NotSentYet`), and in which order `queued_events` holds requests and results
(`InOrder`): a result comes after the request of its call, the request of the next
call after that result, and what is watched now was asked for after all results.
So the request of a second call is handled only after the result of the first,
which ends its flight. `SoloInv` follows a call that nothing disturbs until its
document has loaded: it has not been answered (`NotAnswered`), the target has no
other navigation and compares with the document before it (`AloneInTarget`), and
the browser starts and loads its document only (`AloneInBrowser`).

The pipeline implements `NavigationQueue` under `LineInv`, which adds to `OrderInv`
and `CallersAreHeld` what is queued and what is left (`QueueInv`). A load whose
request is queued has begun, and a load that ends after a queued request was
requested with it or behind it (`RequestedFirst`): so when a `Page.navigate` is
written, the load before has been reported, and nobody is overtaken. When the socket
is read no event is left, and a target that is gone holds nothing (`NothingLeft`): so
an eviction finds documents that were asked for, never a caller in the line. A step
that moves a goto from one of the four places to the next leaves `Line` as it is; the
step that writes the command maps to `Send`, the one that hands the result to the
Handler to `End`, the answer of the browser to `Respond`, an eviction to `Expire`.

### Targets

What `TargetsProofs` adds to the properties is about what is on its way. A session
is announced once, and unknown to the Handler before (`SessionsAreNew`): were it
announced twice, the second announcement could give a session in use to another
target. A tab is the answer to one `createTarget`, and until that answer is read
its target owes nobody a page (`TabsAreNew`): were it the answer to two, the second
caller's sender would overwrite the first one's. An id answers the kind of command
it was given to (`AnswersMatch`), since the Handler takes the kind from its table
and not from the answer. `OnePlace` is `CallersAreHeld` for all callers, waiting or
not, with its converse: a caller whose sender is held waits. Each kind of step
has one lemma per part (`PlaceMoves`, `PlaceTold`, `PlaceCanceled`,
`PlaceEvicted`), which says what it does to the senders.

An answer is matched to a chain by its method only, so a target that replaced
another counts answers to its predecessor's commands, and the stages may be split
over two sessions of the tab. `InitializedIsSetUp` says that every command was run in
one of them all the same, unless the tab lost a session (`severed`). It needs to know
where answers come from: `SInv` says of a tab that is not closing and lost no session
(`Quiet`) that the sessions the Handler knows for it are its own (`OwnSessions`), that
every command of a chain on its way for it was sent to one of them and every answer
on its way was run in one (`RunThere`), and that what its state says has been run has
been (`Prepared`).

`PagesAreReady` is about the moment of the hand-over: of every tab it says that the
document has loaded, and of one that is neither closing nor severed that it is set up.
`LoadInv` adds to `SInv` that a session is announced for the tab it is attached to and
never moves to another, so that a report of a load speaks of that tab, whichever
target the Handler keeps for it by then (`LoadsReported`).

### Frame tree

`FrameTreeProofs` sees a tree as the map from frames to parents, the manager's
and the page's alike. `IsTree` says that every frame is reached from the root:
without that a removed subtree could contain its own ancestor, and the answer to
`getFrameTree` could meet frames of an older document. `IInv` says that both maps
are trees, that the manager's children are the inverse of its parents, and that
an event on its way speaks of a tree or of frames that could be the page's, so
that it is safe in whatever order it meets the manager's tree. `FrameAssumption`
(ids of main frames and of sub-frames are disjoint) is what the browser promises.

That the manager mirrors the page once the events are handled is not inductive:
with events on their way it is behind. `HInv` says by how much. The page went
through one moment for each event on its way (`History`), a moment being its tree
and its live contexts; neighbouring moments differ by what the event between them
says (`Follows`); the manager mirrors the first. A handler moves it on to the next
moment, a step of the page adds one at the end, and when no event is left the
first moment is now.

### Network

`NetInv` has a part for each kind of fact. `EventInv`: no event is ahead of its
request, and those of one request come in the order of its hops. `SwitchInv`: who
has switched interception on, and that the manager's settings and the browser agree
once the commands between them have arrived. `MapInv`: what the maps hold is of the
hop that was announced or paused last, and later events are of later hops.
`PairInv`: pause and announcement of a hop are both to come, or one is in its map
waiting for the other, or both have met. A hop that was cancelled before its gate
has only its announcement and its failure (`PastTheGate`) and is not paired any
more. `ReportInv`: the end of a request is to come or has been told once
(`ToldOnce`), or the request was cancelled in its first hop before its pause and is
never tracked (`NeverTracked`, `NotYetTracked`). `AnswerInv`: whoever waits at a
gate has an event or an answer on its way. `CredentialInv` and `ProvidedLater`: an
interception that was given credentials is remembered as long as it can be
challenged again. `CacheInv`: the cache is as the configuration has it, or the
command for it is on its way.

### Page methods and waits

A script is a sequence, so the first half of `PageProofs` is about sequences put
together from pieces: a piece is a `ClosedScript` if each command in it that presses or sets
something is followed by the one that undoes it, and pieces that are closed make
closed scripts (`MethodsBehave` for all 37). `OpsInv` then says of a call under way
that its script is what is left of the method's (`ScriptInv`); that without a mishap
whatever is pressed or set is given back by what is left (`OwedInv`), and modifiers
even with one, unless an answer was lost (`HeldInv`); that urls are validated before
the first cookie is touched (`CookieInv`); that a context in the registers is one the
next script may run in, or a fitting one is made first (`WorldInv`); and how far a
lookup has brought each handle after so many commands (`HandleInv`).

`WaitInv`: what fits and has begun has been seen by the recorder, or waits in its
queue, or is excused (`NothingSlipsBy`), so that what is missed beyond that ended
between the subscriptions (`StillMissed`); what is in the queue of ends has ended
(`OverWhereItEnds`); what was recorded fits (`Recorded`). `DialogInv`: an open dialog
is on its way to the first handler, being asked about, or one whose answer failed
(`Reaches`), and a handler
that is alone has that dialog and no other (`OneAtATime`).

### Launch

`ContextInv` reads the channel between the handle and the
Handler as the Handler will: `KnownAfter(c, k)` says that it knows context `c` once
it has read `k` messages, or that the context is gone. A page is asked for in a
context that is known after the messages before it (`ChannelInv`), a page that is
open has one that is known now (`PagesInv`), and a context is taken back only when
the browser has disposed of it. Sending adds at the end and reading moves every
`k` down by one, which is `SendKeeps` and `ReadKeeps`.

The command line is a fold over a list of arguments of any length. The library's
theorems of induction cannot be used here, but `WFMin` can: a set of numbers that
has 0 and with each number the next has them all (`SetInduction`), else the least
one outside would have a predecessor inside. With it `AddArgsAddsUp` says that the
fold exists, `AddInTwo` that a list can be merged in two pieces, `NothingIsLost`,
`NothingIsInvented`, `OthersStay`, `OnlyOneAdds` and `EachAddsOne` what a list does
to a switch that occurs in it anyhow, never, once, or always. `ArgsInv` says that
the command line is the fold over the defaults, the user's arguments and the parts
of the configuration, of which only the first three name a counted switch
(`FirstParts`).

`FetchInv` is about folders that are not `disturbed`, in which no two fetches met
and no unpacking stopped once it had created the executable. Two fetches that have
an archive at one path have disturbed their folders (`Apart`), because the second to
make it meets the first. One that is alone finds its own chunks or gaps in the
archive, its own entries up to where it is, and from the executable on nothing that
is not its own (`GotSoFar`): else it would fail at a link, or leave an old file. So
whenever an executable is in the cache, the installation is whole or somebody is
unpacking it (`FolderInv`), and what a fetch has found or unpacked stays whole since
nobody unpacks there any more (`DoneInv`). That two kinds, platforms or builds never
share a file is `SamePlace`.

### Composition

A step of `PartsSpec` is a step of one machine and leaves the variables of the others
alone (`AStepOfOne`), so the composition is each of the eight machines at once
(`PartsAreIndependent`), and every theorem above about `FrameSpec`, `NetworkSpec`,
`OpsSpec`, `WaitsSpec`, `ProcessSpec`, `ArgsSpec`, `FetchSpec` or `BridgeSpec` holds of
the specification that the run `parts` checks.

### Only model-checked

* Liveness (`EveryGotoResolves`, `OwnEventsArrive`, `DroppedAreForgotten`,
  `StreamsEndWithTarget`, `NewPageResolves`, `EveryCallResolves`): temporal proofs
  under fairness are out of the prover's reach. `HandlerTask` adds to that only when
  the steps of `Commands` are taken. Every other property of a passing
  run is a theorem.
* The five findings: a counterexample is a run.

## 5. Not modelled, and why

* Fingerprint, profile, stealth and key tables, layout arithmetic, mouse curves
  and typing errors: data and random numbers that keep no state.
* Protocol types, the PDL compiler and the protocol it generates: functions of
  their input at build time.
* Commands that only ask or set one thing (version, permissions, window bounds):
  a call of `Commands` each.
* Targets that are not pages (tracked, never polled), sessions that auto-attach
  creates under a page, frames that move to another process.
* Urls, names, headers and the text of messages.

One hazard has no property: the Handler's own listeners are polled only while there
is a target (`src/handler/mod.rs:631`), which is outside `EventListeners`. Taken
from the browser as external contract: the answer to `createTarget` does not
overtake `targetCreated` (else `src/handler/mod.rs:214` panics). Call ids do not
wrap around.

## 6. What is left

1. A run of `Targets` with two pages at once; the theorems cover any number.
2. Liveness of the waits and of the network manager under the Handler's fairness.
