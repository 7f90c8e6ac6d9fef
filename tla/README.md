# commy in TLA+

commy gives a coding agent a seat in a chat realm. A *seat* is one process: an
MCP server (`packages/mcp`) on one side, a chat substrate on the other, in
practice a Zulip realm (`packages/zulip`). Tool calls of the agent become HTTP
calls under a bot of the seat's own; what happens in the realm comes back over
a long-polled event queue and is pushed to the agent as channel notifications.

This directory models how a seat reads its environment, finds or mints its bot,
subscribes, listens, loses and recovers its event queue, tells its agent what
came in and what it missed, writes, and starts and restarts; it also models the
two substrates the repository tests against, the in-memory one and the
in-process realm. The models are written from the code; line numbers in
`PROJECT.json` (`map`, `hazards`) refer to it. Paths below are relative to
`src/packages` unless they say otherwise.

## 1. Inventory

### The system, as a set of parts

| Part | Code | State | Operations | Modelled by |
|---|---|---|---|---|
| Events producer | `zulip/events.ts` | the unfold's carried `ProducerState` (queue, cursor, registration last seen), the watermark store, the reply caches | register, poll, map, emit, adopt, recover (register + replay the gap), retry, idle while unbound, report the resume verdict | `EventProducer`; the mapping of one event: `Publishing` |
| Queue-state persistence | `mcp/queue-state-hooks.ts`, `mcp/queue-state-store.ts` | one file per session: queue id and last event id | `resumeQueue`, `onQueueRegister`, `onQueueAdvance`, `onResumeOutcome` | `EventProducer` |
| Resume verdict, session id | `mcp/resume-outcome.ts`, `mcp/session-id.ts` | two write-once Deferreds | complete, await | `EventProducer`, `SeatBoot` |
| Identity cache and bind seam | `mcp/identity-cache.ts`, `mcp/ensure-bound.ts`, `mcp/session-binder.ts` | one slot holding an `EnsureBound` (idle, pending, acquired), a link to the one it displaced | `ensureBoundFor`, `acquire`, `current`, the post-acquire hook, transitions that release | `IdentityBinding`, with names `Bootstrap` |
| Adapter: identity | `zulip/adapter.ts` | `boundRef`, `credentialRejectedRef` | `acquire` (find, mint, reactivate, regenerate, attach), `release`, `recordRejection` | `IdentityBinding` (the binding), `BotIdentity` (the bot) |
| Adapter: inbox | `zulip/adapter.ts` | `inboxRef`: held narrows, new-topics channels, seen topics, registration | `subscribe`, `unsubscribe`, `subscriptions`, `events`, `replay`, `ensureQueueRegistered`, the delivery filter | `Subscriptions`, `EventProducer`, `Delivery` |
| Adapter: publishing, threads, history | `zulip/adapter.ts` | the known-channel, directory and body-limit caches | `post`, `edit`, `setChannelDescription`, `resolveThread`, `unresolveThread`, mention checks, reading a thread or channel | `Publishing` |
| History paging | `zulip/history-paging.ts` | none | read a window of history page by page | `Publishing` |
| HTTP client | `zulip/http.ts` | none | retry a request answered 429 within a budget; classify errors | `Publishing` (the budget); elsewhere a request is answered, fails, or is answered and the answer lost |
| Narrow set | `mcp/narrow-set.ts` | intents, pending deltas, seen topics | `add`, `remove`, `beginBuffering`, `load`, `matches` | `Subscriptions`, `Delivery` (`matches`) |
| Topic record and rebuild | `mcp/subscription-store.ts`, `mcp/subscription-restore.ts` | one file per seat | persist, read, combine with the realm's rows, apply | `Subscriptions` |
| Event pump | `mcp/event-pump.ts` | the dedup log | match, drop self-echo, advance the mention cursor, dedup, notify, park on a fatal failure | `Delivery` |
| Catch-up | `mcp/mentions-catch-up.ts`, `mcp/channels-catch-up.ts`, `mcp/cursor-store.ts` | a monotone cursor per identity | read history since the cursor or over a window, surface, advance | `Delivery` |
| Tools | `mcp/tools.ts` | the cache of message references | every MCP tool; post and react subscribe to the thread they took part in | `Tools`; `subscribe` and `unsubscribe` also in `Subscriptions` |
| Boot and wiring | `mcp/server.ts`, `mcp/mcp-server.ts` | the fibers of boot, pump and rebuild, the shutdown scope | report nothing-to-resume, bind for `COMMY_SUBSCRIBE`, sign in, connect, serve, post-acquire hook, release at exit | `SeatBoot` (who waits for whom), `Delivery` (order of catch-up and pump), `Bootstrap` (sign-in, defaults, seeding) |
| Configuration and bootstrap | `mcp/bootstrap.ts`, `mcp/subscribe-parser.ts` | none; the environment | parse or refuse, name the project and the bot, parse tokens | `Bootstrap` |
| Core ports | `core/ports.ts` | none | contracts and shared helpers | `InboxStream`, mentions in `Delivery` and `Memory` |
| Memory adapter | `memory/adapter.ts` | a whole substrate: members, messages, threads, subscriptions, feeds | every port, synchronously | `Memory` |
| In-process realm | `zulip/in-process-realm.ts` | users, keys, channels, messages, event queues | one route each, the long poll in steps, fixtures of an administrator | `Realm`, with seats `BotIdentity` |
| Bot-to-bot DM guard, rendering, MCP entry, Hermes client, Claude Code hooks, contract tests, scripts, site | see `PROJECT.json` | none that the parts above share | parsing and formatting, transport, clients outside the seat | not modelled, section 7 |

### How the parts interact

```
 environment ──▶ bootstrap ──▶ names, tokens
                     │
 tool call ──feed──▶ session id ──▶ queue-state hooks ──▶ events producer ──▶ event pump ──▶ agent
     │                                    ▲                     │    ▲             ▲
     │                                    └── cursor, verdict ──┘    │ registration,
     ▼                                                               │ watermark   │
 narrow set ◀── rebuild ──▶ adapter inbox ──────────────────────────┘  catch-ups ──┘
     │             │             │                                          │
     ▼             ▼             ▼                                          ▼
 topic record   bind seam ──▶ adapter identity ──▶ realm ◀── publishing, history
```

* A tool call that writes goes through the bind seam. The first one acquires the
  bot and runs the **post-acquire hook**, which seeds subscriptions (passing the
  same seam again), waits for the **resume verdict**, and reads history if the
  verdict is "missed".
* The verdict is given by the producer: "replayed" when the queue the previous
  process left still answers, "missed" when it is gone, when there was none, or
  when a timer fires.
* A subscribe touches the narrow set, the adapter's listening state, the realm
  and, after the boot-time rebuild is over, the topic record. A post or reaction
  ends with such a subscribe for its thread.
* The producer and the seat share the adapter's registration and watermark, and
  the persisted queue state through the hooks.
* The pump and the mention catch-up share the mention cursor; both end in the
  same notifier.
* Seats that share a realm meet only there: bots found by name, keys rotated,
  channels and threads changed between two requests of a call.

### What is hard

* **Interleaving.** Calls of several conversations at once through one binding;
  a subscribe while the producer polls another queue; tool calls while the
  rebuild waits for the realm; two seats minting the same name; a thread
  resolved between the probe of a post and its send.
* **Waiting on each other.** Hook, verdict, producer, bind, rebuild and persist
  wait for one another in a ring that must never close.
* **Failure half way.** A poll answered and not mapped, a batch committed and
  not handed over, a POST done whose answer is lost, a hook that dies after its
  acquire, a mint nobody heard of, a timed-out request that lands later.
* **Crash and restart.** The realm's rows and queues, the topic record, the
  queue state and the cursor file survive; everything else is rebuilt from them.
* **Stale reads.** State taken from before an adoption, a decision taken under a
  lock and acted on outside it, a binding looked up after the check, a cached
  directory that lacks a member.
* **Limits.** A replay of history has a page budget; the dedup log, a walk and
  the retries of a request have theirs.
* **Two paths to one effect.** A message can come from the live queue, the gap
  replay, the mention catch-up and the channel catch-up.

### What makes each part correct

* Producer: no message between where the stream opened and its cursor is
  skipped, whatever expires or fails, as far as the pages of a replay reach; the watermark never runs ahead; a message
  the stream should carry is handed over in the end.
* Queue state: a resume from it misses nothing; boot does not overwrite it.
* Bind seam: one acquire per conversation at a time, nobody waits for ever, a
  write goes out under its own conversation's bot.
* Identity: a name has one bot, two seats never hold the same working key.
* Subscriptions: what a resolved subscribe asked for stays heard across crashes;
  no more than that is heard.
* Delivery: the cursor passes nothing but what was said, or admitted as lost, a mention is told in the
  end, the pump says a thing once.
* Boot: it ends; no call is left waiting; catch-up and native replay do not both
  claim the backlog; what an agent unsubscribed from stays so.
* Publishing: a retry never stores twice, a refusal is never due to a stale
  copy, a thread forks only in a race, a paged read leaves no hole.
* Tools: taking part in a thread is being subscribed to it; orientation tells
  where the session left off.
* Substrates: a queue keeps what its client has not seen; a feed holds nothing
  back; replay announces what live delivery announced.

`PROJECT.json` lists the hazards one by one, at the line where each bites, with
the properties that watch it.

## 2. Plan

| # | Module | What it is | State |
|---|---|---|---|
| 1 | `InboxStream` | what `inbox.events()` promises the pump (`core/ports.ts`) | done |
| 2 | `EventProducer` | the producer, the seat and realm around it; implements 1 | done; its four safety properties and the refinement of 1 proved |
| 3 | `IdentityBinding` | the bind seam of an ephemeral seat | done; safety proved |
| 4 | `Subscriptions` | rows, listening state, narrow set, record, rebuild | done; model-checked |
| 5 | `SeatBoot` | who waits for whom at boot; composes 2-4 seen from outside | done for ephemeral seats, safety proved |
| 6 | `Delivery` | pump, filters, both catch-ups, cursor; consumes 1 | done; its four safety properties proved |
| 7 | `Bootstrap` | environment, names, sign-in; extends 3 | done; the properties of its run proved |
| 8 | `Realm`, `BotIdentity` | the realm's routes; finding, minting and keying bots over it (extends `Realm`) | done, the properties of both proved |
| 9 | `Memory`, `Tools` | the in-memory substrate; the tools over it (extends `Memory`) | done, proved |
| 10 | `Publishing` | writes, threads, paged reads, the mapping of an event | done, proved |
| 11 | shutdown finalizers, notices of realm settings | extensions of `SeatBoot` and `Delivery` | open |
| 12 | Hermes connections | per-topic spawn, idle reap, respawn | open |
| 13 | torn disk writes | the three file stores | open |

Abstract specifications: `InboxStream` (done, and its implementation by the
producer proved). Every safety property of a run but those of `Subscriptions` is a
theorem (section 6). Theorems worth proving next, in order: the three of
`Subscriptions`, one channel at a time; `TwoViewsAgree` and
`NoticesTellTheStatus` of `Memory`; `PluginChangesNothing` and `NothingIsMasked` of
`Bootstrap`.

## 3. Modules and how they correspond to the code

Every `MC*` module EXTENDS its specification and adds the symmetry sets its runs
use. Definitions with an underscore in their name and the comment "Mistaken
variant" are not part of any specification: each is the definition that follows
it with a plausible bug, and shows that a property notices.

### `EventProducer`

The realm is the environment. It numbers the messages it accepts, issues queues,
and drops any queue at any moment (`Expire`). Event ids start over in each
queue, so message *m* is event *m - born[q] - 1* of queue *q*; a cursor is a
queue and an event id, and `Position` is the message it stands at.

A step of the producer is one iteration of `Stream.unfoldChunkEffect`, split
where something else can come in between: each HTTP call, the commit of the
cursor, and the hand-over to the pump.

| `pc` | Where `zulip/events.ts` stands |
|---|---|
| `boot` | `events()` has not been called |
| `top` | between two steps; `BeginStep` adopts a changed registration, or the seat is unbound and the step idles |
| `register` | `registerFreshQueue` of a producer with no queue |
| `poll` | the long poll |
| `mapping` | events came back, mapping them may fail |
| `emitting` | watermark and persisted cursor have moved, the chunk is about to be returned |
| `expired` | `BAD_EVENT_QUEUE_ID`, `handleBadQueue` is to register |
| `replaying` | the fresh queue is registered, the gap is read from history |

`state` is what the unfold carries, `observed` the step's working copy: the
difference matters, because a retry and the recovery both start from `state`.
`seen` is the registration last looked at. `StepAborts` stands for everything
that ends in `stepWithRetry`: a 429, a transient or decoding failure, a binding
lost on the way. A queue answers only the principal that registered it
(`owner`), so a change of bot looks like an expiry.

The seat around it is `FeedSession`, `Bind`, `Release`, and `SeatRegisters` (the
end of `inbox.subscribe`). The queue-state hooks are operators called by the
actions that call them in the code. `Restart` keeps the realm and the persisted
queue state, nothing else.

History variables no guard reads: `floor` (where the stream opened), `delivered`,
`excused` (a loss the code admits: an adoption displacing an undrained queue, a
recovery without a watermark, a failed gap replay), `beyond` (what a replay did
not reach), `buried` (queues found dead), `left` (the queue state this life began
with), `lives`.

A replay reads history from the newest page back and stops after
`HISTORY_MAX_PAGES` pages (`zulip/adapter.ts:464`, `zulip/history-paging.ts:115`)
without saying so. `ReplayReach` is what those pages hold: `ReplayGap` hands over
the newest `ReplayReach` messages at most (`Reached`) and notes the older part of
the gap in `beyond`. This is no loss the code admits, so it is not in `excused`:
the properties allow for it by name, and only as far as the reach of a whole
replay behind the newest message.

### `InboxStream`

Prefixes of the log, no holes, until the producer gives something up for a
reason it knows of; only a catch-up (`CatchUp`) may pass messages over, those
older than the newest `Reach` ones (`skipped`). `EventProducer` implements it with
`from <- floor`, `heard <- {m \in delivered : m > floor}`,
`skipped <- {m \in beyond : m > floor}`, `Reach <- ReplayReach`,
`lossy <- excused # {}`.

### `IdentityBinding`

Sessions share one cache slot and one adapter binding. Every `EnsureBound` the
cache mints is numbered, as calls may still hold one the slot has moved on from;
`prior` is the displaced one whose `current()` decides whether the next acquire
releases first. A call walks `bind`, then `await`, or `release`, `acquire`,
`hook`; the hook may pass the seam again (`HookReenters`, one level, `outer`
remembers where to return), and at the end `WriteOut` reads `boundRef` and
records under which bot the write went out. A failed acquire fails those who
await it; acquiring while another bot is bound is a defect (`AcquireDies`), and
a defect in a hook drops the binding it is part of (`HookDies`).

`crossed` is history: two calls were under way in two different EnsureBounds. Then
a call may read the binding after another session has taken it over, and the code
breaks what it says (section 5). The properties of the run hold until that
happens (`TruthUncrossed`, `OwnNameUncrossed`), with any number of calls under way
in one EnsureBound, waiting for it, woken, or failing with it.

### `Subscriptions`

The realm's rows, the adapter's listening state, the narrow set, the journal of
deltas and the topic record, and the calls between them. A call is a step per HTTP call:
`bind`, `post` or `delete`, `register`, `persist`. The rebuild is a process of
its own (`parked`, `asking`, `loading`, `declaring`, `done`) and declares what it
found through the same adapter actions, as the caller `Rebuilder`. `Faults` says what may
fail. The load of the rebuild folds the journal
of deltas over the record; `Replayed` says what that comes to: an intent is held
if the record has it or some delta adds it, and no later delta removes it. `Init`
lets a persistent seat start bound. `asked` is the history of resolved calls; `torn` says a call was
interrupted half way, after which hearing too much is no longer excluded; `met`
holds the channels in which a call met another one, or the rebuild with anything
but the subscribe of a whole channel. Calls may come at any time, to any channel,
during the rebuild too. In a channel where they meet, the code does not keep its
promises (section 5), so the properties are about the others: the record, the
narrow set, the journal and the gate of the rebuild are common to all channels,
and what goes on in one must not touch what was asked for in another.

The session id is taken to be known by the time the rebuild reads its record;
`SeatBoot` has the wait for it. Failing disk writes are not modelled: the stores
log and swallow them. The default subscriptions of a fresh session
(`seedIfFresh` in `mcp/server.ts`) pass through the same adapter calls as any
subscribe and are left to `Seed` in `SeatBoot`. After a refusal that
took back more than it gave, or that ended the rebuild half way
(`torn = "refused"`), or once calls have met in every channel, the three properties
promise nothing more, and the constraint `StillClaimed` lets the exploration stop
there; `RefusalTakesNothing` and `RemovalStands` are the statements without the
exceptions, which the code does not keep (section 5).

### `SeatBoot`

One conversation of an ephemeral seat: the boot fiber, the producer (seen from
outside: off, fresh, resuming, expired, live), the rebuild and a few tool calls,
all passing one bind seam (`ensure`). `at` says where each caller stands; `Seed`,
`AwaitVerdict` and `CatchUpEnds` are the hook of whichever caller acquired. A
queue that is registered before there is a verdict is stored unless one is on
record (`Registers`); a first call that comes between the announcement of the
tools and the start of the stream may thus make the seat resume the queue it has
just registered itself.
What the parts do inside is left to the other modules; what is kept is every
wait of one for another.

### `Delivery`

What one seat's agent is told. `Dispatch` is the whole way of one event, from
the adapter's filter (`ShouldDeliver`) through the narrow set (`NarrowMatches`),
the self-echo test, the mention cursor and the dedup log of `Capacity` entries
to the notifier, which may fail and park the pump for good. `boot` is the fiber
that binds, replays mentions since the cursor, skims the channels over the last
`Window` seconds and serves; `Modes` says in which order the pump and the
queue's registration come (`defaults`, `bare`, `lazy`: a pinned seat with
default narrows, one without, an ephemeral seat). The stream itself is what
`InboxStream` promises: every post since the queue was registered, in order,
and after `GapReplay` some of them again. `Crash` keeps the realm and the cursor
file. `excused` holds mentions given up after a failure the code reports, and those
a replay did not reach for want of pages (`Reach`, the messages its pages hold):
these are also in `beyond`, and `ToldHoweverFarBack` is the statement that does not
excuse them. A seat whose defaults could not be registered goes on without a queue
until the producer registers one (`RegisterFails`, `ProducerRegisters`); `narrow` is
what it then holds. A gap replay may fail, which gives the gap up.

Realm and host share one clock. An event carries its kind, so that a message
that is also a mention arrives twice, as in `InboundEvents`; without an identity
(an ephemeral seat) no mention event is made. Messages of one second may come in
any order: what a history read answers is one of the sequences of `InOrder`, and
a step takes any of them.

### `Realm` and `BotIdentity`

`Realm` is `zulip/in-process-realm.ts`, one action per route. A request is
authenticated in one step and handled in another; the long poll prunes, waits
and answers or beats in steps of its own, and an answer may be lost. `Fixture`
is what tests do as an administrator: add users and channels, deactivate, revoke
a key. A fixture does not ask whether a name is taken (`addUser`); the requests do,
and `RequestsMakeNoTwins` says what that comes to. Ids are dense per kind, where the
code has one serial for all.

`BotIdentity` EXTENDS it with seats that acquire, use and release a bot:
`find`, then `mint`, or `reactivate` and `regenerate`, or attach with a
configured key. A request stays on the `wire` when its seat has given it up: an
acquire runs under a timeout, and a timed-out regenerate may be handled after
the retry. `CallOut`, `CallHandled`, `CallAnswered` are a request of the bound
bot and what `recordRejection` learns of it. `Outside` is other people: they
deactivate, revoke, and make users. There the models assume what a Zulip realm
enforces and the fixture does not, that nobody is given a name in use or the e-mail
of a former user; `OneBotPerName` rests on that.

### `Memory` and `Tools`

`Memory` is `memory/adapter.ts`, whose operations run to their end without giving
way: one action each, over members, messages kept by id and by channel, reactions,
resolved threads, and per seat a binding, subscriptions and a feed. `slot` is the
one stream that has the emit hook, `waiting` what came while none had it.

`Tools` EXTENDS it with the calls of `mcp/tools.ts` on one seat. A call that posts
or reacts goes on, in steps of its own, to subscribe to the thread it took part in
(`engage`, `subscribing`) and to record that (`persist`); an unsubscribe takes the
narrow away, waits (`leaving`), and records. Whether the narrow was held is asked
before the wait (`held`), and a refusal takes it back by that answer
(`SubscribeRefused`). The record is the topic-level intents of the narrow set, those
of a channel held whole left out, and nothing is written while the session id is
not known (`known`, `FeedSession`). The reference cache lives across calls, and a
reference that is not cached is rebuilt from what the caller names.
`RecentThreads`, what `current_identity` answers, is the code's walk over the posts
of the bot, newest first, written as a recursive function. `engaged` is history: the
messages whose thread the seat took part in and has not left, `saved` those of them
a record was written after. A thread is left when it, or its channel, is
unsubscribed, and when a subscribe that covers it and was not held before is
refused; until then `EngagedIsHeard` has it subscribed, in the narrow set, and,
once saved, in what `CombineWithRealm` makes of the record and the rows.

### `Publishing`

Chains of requests of the adapter, one action per request: `Begin*` starts a
call, the stages are named for the request they wait for. A request may be
refused with 429 for a wait out of `Asked`, as long as the call's budget lasts;
may fail; or may be carried out and its answer lost. The realm changes in
between: topics are renamed by a resolve, the one member leaves, comes back or
is deactivated, messages arrive. A channel has one thread, which is `plain`,
`done`, or split over both, and messages outside any. Operations:

* `post` and `edit`: body limit, mention check against the directory copy and
  then afresh, channel check, probe for the resolved twin, send;
* `describe`: read and write if different;
* `resolve` (either way): find the newest message of the wrong form, rename;
* `read`: a paged walk over a thread or the channel, with the rows rendered
  page by page;
* `map`: what the producer asks of the realm for one event of its queue, the
  message a reaction is on (`FetchMessageRef`), the rendering of mentions and
  the author the cached list has lost. A message that is gone makes the event
  map to nothing and never fails the batch. Whether a reference is cached is an
  input of the event.

### `Bootstrap`

`ParseEnv` and its helpers are the parse of the environment; a raw value is
absent, empty, an unexpanded placeholder, or text. `Launch` starts a process in
a place or refuses. An ephemeral process continues as `IdentityBinding`, with the
bot's name (`called`, `acting`) composed from the session and from the project
of the directory each call comes from; git may answer or fail at every question.
A pinned process signs in, registers its defaults, seeds `COMMY_SUBSCRIBE` if it
has just minted the bot, and then the agent subscribes and unsubscribes. `Exit`
and the next `Launch` keep the realm's side: the bot and its channels.

## 4. Runs

Each takes from a few seconds to about three minutes with two workers.

| Run | Question | Bounds |
|---|---|---|
| `EventProducer_stream` | Is the producer an `InboxStream`? Is anything lost in silence that a replay could reach? Does a subscribe take effect? Does boot keep the queue left behind? | ephemeral seat, 1 bot, 3 messages, replays that reach back 1, 3 queues, 2 lives |
| `EventProducer_progress` | Does the verdict settle? Is every message handed over in the end? | the same, 1 life |
| `IdentityBinding_concurrent` | One acquire at a time? Own name and honest cache until calls cross? Does each call end? | 2 sessions, 2 calls, 4 EnsureBounds |
| `Bootstrap_processes` | Does a session keep its bot wherever its shell goes? Does an unsubscribe outlive restarts? | 16 environments, 3 places, 2 sessions, 1 call, 4 EnsureBounds, a name part of 2 characters |
| `Subscriptions_settled` | Is heard what was asked, and asked what is heard? Are the rows wanted? | 2 channels held whole or for their new topics, 2 calls at once (symmetric), 2 lives, every fault, 1 delta per call in the journal |
| `SeatBoot_waits` | Does boot end with nothing to resume? Does each call end? Is "missed" final once history was read? | 2 calls, `COMMY_SUBSCRIBE`, every stored state |
| `Delivery_seat` | Does the cursor pass a mention that was neither said nor given up? Does the pump repeat itself? Is only the first of a topic shown? Is every mention heard that a replay reaches? | boots "defaults" and "lazy", 2 posts of 3 kinds, replays that reach back 1, clock to 2, window 1, log of 1 entry, 2 faults (crashes, dead queues) |
| `Delivery_away` | Is a seat that was away told everything, however many pages that spans? It is not: expected to fail (section 5) | boot "defaults", no failing call, 2 posts, replays that reach back 1, 1 crash |
| `Realm_clients` | Does a queue keep the unread? Is a deactivated bot left in silence? | 2 requests in flight (symmetric), 3 users, 4 keys, 1 channel, 1 post, 1 edit, 1 queue of 2 events |
| `BotIdentity_seats` | One bot per name? Is one seat at most told its bot is new? Is a key ever shared? | 2 seats asking for one name, one of them persistent and attachable, 2 tries each, 4 users, 5 keys |
| `Tools_calls` | Is a thread taken part in heard, and does it come back from the record? | 2 calls (symmetric), 1 channel, 2 thread names kept as one, 1 member, 2 messages |
| `Publishing_calls` | Does a thread fork without a race? Is a post stored twice? Is a request retried for ever? Is a refusal due to a stale copy? Does a resolve mend? Does a walk leave a hole? Is every mention told? | 2 callers (symmetric), 2 calls, histories of up to 4 messages, pages of 1, 3 pages, a wait budget of 1, 5 kinds of event, 2 changes of the member |

Why the bounds are enough. Three messages and a reach of one make a gap of one
that is replayed whole, and longer ones of which the pages leave out one or two;
three queues are the left one, the seat's and the recovery's, or a recovery of the
recovery; two lives are needed for a resume. Two calls are the least that share an
acquire, race a transition, or let one resolve between the probe and the send of
the other. An intent narrower than its channel beside the whole channel tells what
the rows keep from what only the record does, and a second channel shows that what
is done in one leaves the other alone; two lives let a record written in the first
be read in the second. In `Delivery`, a log of one entry is full after the first
block, a reach of one leaves out the first of two posts, and a clock of two has a
second before, at and after a cursor or a window's edge. Four history rows in pages
of one overrun three pages. Waits of 0 and of more than the budget are the two ends
of what a 429 may ask. Two calls in one channel, with a thread in it, let a refused
subscribe of the channel meet an engagement of the thread; a thread name and one
that is cut to it are the least that tell what was asked from what was kept. Two
seats with one name, one of them with a key of its own, meet in every way two seats
can. What lies past a bound is simply not done; the one liveness property that
would need an endless supply of queues says so (`issued = MaxQueues`).

No run leaves out steps of the code to keep a property. Where the code does not
keep what a property says, the property names the case by a history variable, and
section 5 tells what happens in it: `beyond` (a replay ran out of pages), `crossed`
(calls of two sessions crossed in the bind seam), `met` (calls met in a channel),
`torn` (a subscribe was refused or interrupted half way), `excused` (a loss the code
reports), `raced` (a rename landed inside a post). With
`BootSubscribe = TRUE` a seat started without a session id passes boot as one
without `COMMY_SUBSCRIBE` does, so `SeatBoot_waits` meets every ring of waits of
both. `Delivery_seat` leaves out the boot "bare": the property about the cursor
is not claimed for it (there is a gap between the history read and the queue),
and the others follow the same path as "defaults".

Some statements are in the modules and hold under the same configurations but
belong to no run, because another property there says the same more sharply or a
single operator guarantees them: the type invariants of the modules not named
above, `Covered` (proved), `TwoViewsAgree` and `NoticesTellTheStatus`
(`Memory`), `NothingWaitsBehindAStream` and `ReplayMatchesLive` (`Memory`, both proved),
`OrientationIsTrue` (`Tools`, proved), `RequestsMakeNoTwins` (`Realm`, proved; with the
users of `Realm_clients` there is no second one of a name), `PluginChangesNothing`, `NothingIsMasked`, `NamesAreUsable` and
`AppliedReadsBack` (`Bootstrap`), `DescriptionIsSet` of `Publishing` (part of the
invariant of section 6), `WaitIsForSomething` of `SeatBoot` (proved), and `CallsEnd` of
`Subscriptions`, which wants one channel, one topic, two lives and every fault.

Deadlock is checked where the system goes on for ever: producer, bind seam,
bootstrap, subscriptions, publishing. In `SeatBoot` calls are made once and the
seat then rests; in `Delivery`, `Realm`, `BotIdentity`, `Memory` and `Tools` the
bounds on posts, users, keys and events end the exploration, and a parked pump
stops by design.

### Fairness

* `EventProducer`: weak fairness of the steps that only need the fiber to run
  and of the verdict timer, which the stream's scope keeps alive; strong
  fairness of the HTTP steps, because `stepWithRetry` repeats a failing step
  without end and a realm that answers again and again will be heard. Nothing is
  assumed of posts, expiries, subscribes, binds or restarts. `VerdictSettles`
  needs only the weak part.
* `IdentityBinding`: weak fairness per call. The Effect runtime runs fibers on,
  and an acquire ends within its timeout.
* `SeatBoot`: weak fairness of boot, stream start, timer, rebuild and each
  caller. A poll need not return. Nobody has to call.
* `Delivery`: weak fairness of the seat's own steps taken together. Nothing
  makes the realm post, a failure happen or a process start or die.
* `Subscriptions`, for `CallsEnd`: weak fairness per caller and of the rebuild:
  each HTTP call is answered or fails, and the rebuild is forked at boot.

The other modules claim safety only.

## 5. Where the code and what it says disagree

Found while modelling. Each property is stated in its module; the last column
says which constants, put into a configuration of the `MC` module, make TLC show
it violated. `Delivery_away` is kept as a run, expected to fail. The properties the
other runs check make an exception, by a history variable, of the cases listed here
(section 4).

| Property | What happens | Seen in |
|---|---|---|
| `StoredCursorHidesNothing` | one queue's id is stored beside another queue's event id; a resume skips messages (`mcp/queue-state-hooks.ts`) | `EventProducer`, 1 bot, 2 messages, 3 queues, 2 lives |
| `CrashHidesNothing` | the cursor is stored before the batch is handed over (`zulip/events.ts:1036`); a crash in between skips it | the same |
| `ReplayedMeansReplayed` | "replayed" is reported for a queue adopted in place of the surviving one, against `zulip/adapter.ts:2253` | the same |
| `NeverReadopts` | recovery forgets the adoption of its own step (`zulip/events.ts:1061`); the dead registration is adopted again, against `zulip/events.ts:959` | the same |
| `ToldHoweverFarBack` | the mention cursor is written past mentions older than the 20 pages a replay reads (`zulip/adapter.ts:2294`, `zulip/history-paging.ts:115`, `mcp/mentions-catch-up.ts:92`), against "however many pages that spans" (`zulip/adapter.ts:2286`) | the run `Delivery_away` |
| `HoweverManyPages` | the same budget in the replay of a gap: the oldest part is skipped, nothing is logged, and the watermark moves on | `EventProducer` as in `EventProducer_stream` |
| `OwnName`, `CacheTellsTruth` | a call in its hook writes under the bot of the conversation that took over | `IdentityBinding`, 2 sessions, 2 calls, 3 EnsureBounds |
| `TransitionReleases` | the displaced EnsureBound reads unbound while its bot is still bound (`mcp/identity-cache.ts:201`); the next acquire dies | `IdentityBinding`, 3 sessions, 1 call, 3 EnsureBounds |
| `RefusalTakesNothing` | after a failed POST the retry finds the channel listened to and resolves without a row, against `mcp/tools.ts:594` | `Subscriptions`, 1 channel, 1 topic, 1 call, `Faults = {"post"}`, 1 life, no constraint |
| `RefusalTakesNothing` | taking back a refused channel takes its topics too (`mcp/tools.ts:604`) | the same, `Faults = {"register"}`, 2 lives |
| `RefusalTakesNothing` | a topic left before the rebuild has declared deletes the row of a channel (`zulip/adapter.ts:2154`) that the record or the realm still has the seat in | 1 call, no fault, 2 lives |
| `RefusalTakesNothing` | a topic subscribed during the rebuild narrows the channel held whole (`mcp/subscription-restore.ts:197`), against `mcp/narrow-set.ts:66` | the same |
| `RefusalTakesNothing` | two calls decide under the lock and reach the realm in the other order (`zulip/adapter.ts:2162`) | 2 calls, no fault, 1 life |
| `RemovalStands` | the rebuild declares a topic unsubscribed meanwhile (`mcp/subscription-restore.ts:120`); the next start hears the channel, against `mcp/narrow-set.ts:67` | 1 call, no fault, 3 lives |
| `BootEnds` | with `COMMY_SUBSCRIBE` and a persisted queue state, boot waits for a producer it has not started | `SeatBoot` as in `SeatBoot_waits` |
| `SkimsRestored` | the catch-up takes its channels from a narrow set not yet restored (`mcp/server.ts:775`) | `SeatBoot`, `BootSubscribe = FALSE` |
| `NothingOfItsOwn` | the mention catch-up surfaces the bot's own wildcard posts; the pump drops them "so the inbound stream contains only events the bot didn't originate" (`mcp/event-pump.ts:154`) | `Delivery`, `WildKinds`, `WildIntents` |
| `WildcardsStayInTheirChannel` | a gap replay hands over wildcard posts of channels the bot is not in, against `zulip/adapter.ts:2277` | the same |
| `AckedIsSeen` | `last_event_id` prunes whatever it names, seen or not, where the comment says "Acknowledge what the client has seen" (`zulip/in-process-realm.ts:832`) | `Realm` as in `Realm_clients` |
| `RejectedIsOfTheBound` | an answer to the former credential marks the present one refused (`zulip/adapter.ts:617`), where the port says "since this adapter bound it" (`core/ports.ts:515`) | `BotIdentity` as in `BotIdentity_seats` |
| `LinksAreReal` | an edit or a reaction caches the rebuilt reference, and `message_link` answers with its stand-in, "never surfaced" (`mcp/tools.ts:353`) | `Tools` as in `Tools_calls` |
| `ReadBackDecides` | a channel held whole plus a topic reads back as the topic alone, "so 'will a post to X reach me?' has an answer" (`mcp/tools.ts:1036`) | the same |

Three more were read off the code and have no property of their own. A
`COMMY_PROJECT` that sanitises to nothing is dropped by `envConfig`
(`mcp/bootstrap.ts:446`), so the fallback is taken after all, against
`mcp/bootstrap.ts:581`. A crash, a refused token or a mint whose answer is lost
leaves a bot that `COMMY_SUBSCRIBE` never seeds, against "exactly once in its
life" (`mcp/server.ts:249`). And `alreadyHeld` is sampled before an `await` and used
after it (`mcp/tools.ts:599`): a subscribe that is refused takes back a narrow that
another call, or the rebuild, has added meanwhile, though its comment says "unless an
earlier subscribe already held it". `Tools` has the step, and `EngagedIsHeard` counts a
thread that went this way as left.

Smaller observations, kept here because the models made them visible: a mention
in a held channel is surfaced by both catch-ups, and a message matched by two
intents is fetched twice; an ephemeral stream never carries mention events; the
mention cursor moves past a failed catch-up as soon as the pump sees a later
mention; two names that sanitise to one short name can never both be minted
(`zulip/adapter.ts:271`); a regenerate that timed out and lands late kills the key
its retry obtained; the pump never fills the tools' reference cache, though the
comment there says so (`mcp/tools.ts:141`).

## 6. Proofs

Seven modules hold theorems: `EventProducer_proofs`, `Bootstrap_proofs` (also about
`IdentityBinding`), `SeatBoot_proofs`, `Delivery_proofs`, `Tools_proofs` (also about
`Memory`), `BotIdentity_proofs` (also about `Realm`) and `Publishing_proofs`. The
theorems hold for every value of the constants under the modules' own assumptions,
which TLC evaluates in every run:

* `Nobody` is no bot, sessions do not contain `NoSession`, calls do not contain the
  boot fiber and the rebuild; flags are Booleans and bounds natural numbers;
* every name has a short name, every thread a name it is kept under;
* an environment's `project` is one of the five forms a raw value has
  (`BootstrapAssumption`);
* the messages and intents of `Delivery` are of their kinds, a seat has finitely
  many intents, the dedup log holds at least one block, and the clock of an
  exploration can move (`DeliveryAssumption`);
* posts, reads and histories are of their types, waits, pages and limits are not
  zero, and a realm numbers its messages in the order they came in, so that a
  later number has no earlier time (`PublishingAssumption`).

The sets of bots, sessions, calls, callers, members, channels and threads may be
infinite; the seats of `BotIdentity` are finitely many, as its realm starts with a
bot for each attached one. No theorem restricts the calls, faults or lives.

**Producer.** `TypeCorrect`, `CoveredAlways`, `NothingIsLostSilently`,
`ProducerImplementsStream`, `SubscribeIsHonoured`, `CandidateIsKept`.

* `TypeOK` is not inductive: a cursor advanced by an event id stays in range only
  if the id belongs to a queue that was born in time. `WellFormed` adds that
  (`QueuesIssued`: every queue named anywhere was issued, and was born no later
  than the present), what holds inside a step (`InFlight`), and that only posted
  messages were delivered (`Handed`). One lemma per action.
* `NoSilentLoss` is not inductive either: after a recovery the cursor stands at
  the fresh queue's start, which is accounted for only because the replay reaches
  back to the watermark, or as far as its pages go, and the watermark must itself be
  accounted for. `Covered` says so: what is before the carried cursor was handed over
  or is in `beyond` (`PassedIsDelivered`), what is before the watermark too, or is in
  the committed batch (`WatermarkDelivered`), and the poll starts at or before the
  carried cursor (`PolledNotAhead`). That `beyond` holds nothing but what lies a whole
  replay's reach behind the newest message goes beside it. `Covered` is also an
  ordering claim worth having: the watermark never passes a message that could still
  fail to be handed over.
* `ProducerImplementsStream` is the refinement of `InboxStream`: the initial
  states map to its initial states, and every step to one of its steps or to a
  stutter, a gap replay to `CatchUp` with what it could not reach passed over. A step
  that hands over maps to the delivery of a prefix only because
  `Covered` bounds what lies before the batch; `NothingYet` says that nothing is
  handed over, and nothing given up, before the stream has a starting point.
* `SubscribeIsObserved` needs what `Covered` says from the subscribe on instead of
  from the start of the stream, and also where a displaced queue was given up:
  `ObservedSinceSubscribed`, with the three cursors of `Covered` again. When a
  subscribe registers a new queue, those cursors must not be ahead of it:
  `NoQueueAhead` says that a cursor is ahead of what was posted only where the
  stream was opened ahead of it, at a persisted cursor.
* `CandidateSurvivesBoot` needs the verdict beside the store: while the queue left
  behind is on record and the producer has not started, the verdict is pending,
  which is what keeps the register hook from storing another (`CandidateHeld`).

**Bind seam.** `TypeCorrect`, `BindingIsSingleFlight`,
`UncrossedCallsWriteAsThemselves`, `UncrossedCacheIsTrue`.

* `WellBound` adds to `TypeOK` and `SingleFlight` that a call under way has a
  session and an EnsureBound (`Acting`), and that a hook runs in an acquired
  EnsureBound, and only one call's hook in each (`HookHolds`): otherwise a dying
  hook could reset the state under an acquire in flight and leave its waiters
  without a runner.
* `OwnNameUncrossed` and `TruthUncrossed` hold until calls have crossed, and until
  then `Uncrossed` does. It numbers the EnsureBounds: each displaced the one before
  it and serves another session (`MintedInTurn`), as a lookup of another session may
  displace the slot at any moment. All calls under way are in one EnsureBound, and a
  hook that passes the seam again meanwhile finds the one it runs in (`Together`); of
  each call `Acts` says that the EnsureBounds minted since it began are idle, and so
  are those between it and the one its hook passed the seam with. That is why no
  call, first or woken or in its hook, finds a bot bound that its own EnsureBound, or
  the one before it, does not know of.

**Bootstrap.** `SeatWritesAsItself`, `SeatKeepsTheCacheTrue`,
`WanderersKeepTheirBot`, `RestartsRespectTheAgent`.

* The first two carry the ones of the bind seam over to the whole process: to the
  binding a step of `Bootstrap` is one of its own, the death of an acquire that
  finds its session's bot under another name, or a new start (`BindingStep`).
* `WanderingKeepsTheBot` compares names across calls, so `AtHome` says that, while
  settled, every EnsureBound and every call is named after the project the process
  was launched in; `ProjectIsHome` is the case analysis over directories and what
  git answers that gives a later call the same project. A launch may only begin
  from nothing (`LeftBare`).
* `BotOwnsItsSubscriptions` needs the phases: only a bot that is new is seeded, a
  bot that exists is left alone, nothing was unsubscribed from before its bot
  existed, and what comes back by default is a project's own channel
  (`OwnsWhatItLeft`).

**Delivery.** `DeliveryTypeCorrect`, `BlocksAreShownOnce`, `TopicsSurfaceOnce`,
`CursorIsTruthful`.

* One invariant, `DeliveryInv`. The stream goes forward in time, also where a gap
  replay goes back in it (`StreamInTime`). So does the log of blocks, and a message
  that was shown is in it or was pushed out by a whole log of later ones
  (`LogInTime`): that is what `PumpShowsOnce` needs, as the dedup looks no further
  than the log.
* `OnlyTheFirstOfATopic` needs to know that an earlier message of the topic was
  looked at: one the queue carries has ticked its topic, or is still to come ahead
  of every later one (`TopicsTicked`, `Coming`). A replay puts events back into the
  stream, but in order.
* `CursorTellsTruth` says that what is older than the cursor was told or given up.
  `PendingIsOnItsWay` says where the rest is: not older than the cursor, and with
  the catch-up of mentions, or after the queue's start and still coming to a pump
  that runs. What a replay could not reach was given up with `Reach` messages behind
  it (`BeyondReach`), and the seat without a queue gives up what came before the
  producer registers one. One lemma for each step that moves the cursor, the queue's start, or
  what is to come.

**Boot.** `SeatBootTypeCorrect`, `BacklogIsToldOnce`, `NobodyWaitsForNothing`.

* One invariant, `Started`: one caller acquires while the EnsureBound is pending
  and those who wait, wait for it (`OneAcquires`); the rebuild and the boot fiber
  are where their callers are (`RebuildInStep`); and without a verdict there is a
  timer, or a stream that has yet to start and will have something to resume
  (`VerdictIsComing`). `NobodyWaitsForNothing` is the safety half of the liveness
  property `CallsEnd`: whoever waits, somebody is on the way to end the wait, but
  for the boot fiber that binds with a queue to resume (section 5, `BootEnds`).
  What a registration stores never takes a queue off the record (`Registering`).

**In-memory substrate.** `FeedDrains`, `LiveMatchesReplay`, `MemoryTypeCorrect`.

* `FeedsInOrder` adds to `NothingWaitsBehindAStream` only that every seat has a
  queue and a slot of its own, without which "no other seat's queue grew" cannot
  be said. One lemma per group of operations: those that dispatch, and those
  that leave the feed alone.
* `LiveMatchesReplay` needs no invariant: the live test of an arriving message
  and the filter of a replay are compared on every message there could be. It is
  a fact about two pieces of code that nothing else keeps in step.
* `MemoryTypeCorrect` is in four parts, of people, messages, channels and feeds.
  The buckets, the index and the reactions name each other's messages, so the
  types of one rest on those of the others.

**Tools.** `ToolsTypeCorrect`, `EngagementIsHeard`, `OrientationAlwaysTrue`.

* `EngagedIsHeard` says where a call ends; `Engaging` says where it stands. A call
  takes the thread to engage from the cache of references, so a cached reference
  names the place its message lives in, or leaves the thread open
  (`CachedInPlace`); on its way it knows that thread, and once it has subscribed
  the thread is in the feed and in the narrow set, until an unsubscribe or a refusal
  makes the call forget its claim (`CallsInPlace`). What is engaged stays there
  (`EngagedHeld`). For the record it is not enough that the thread was written down:
  a channel held whole keeps its threads out of it, and then it must be the channel
  that comes back, so the record may name nothing in it (`SavedIsRecorded`).
* `OrientationIsTrue` compares the messages of the index with the channels' buckets.
  `BucketsInOrder` says that they agree: a bucket holds its channel's messages, as
  the index has them, in the order of their numbers, and every message is in one.
* The rest is about the walk that makes the list. A finite set of numbers is listed
  by rank, newest first, without a gap (`NewestFirstListed`); the recursive function
  of the walk exists (`WalkExists`) and each step adds a post unless its thread was
  met (`WalkSteps`); so what was told is the newest of each thread met, and nothing
  met is left out (`WalkTells`). These are inductions over the length of the walk,
  done by the least number at which the claim could fail.

**Bots and keys.** `NamesHaveOneBot`, `KeysStayApart`, `MintedIsNew`,
`NoRequestMakesTwins`.

* `OneBotPerName` is not inductive: the realm refuses a mint by the e-mail, not by
  the name, and by the name only among the active. `BotsApart` adds
  `MailIsOfTheName`, that the e-mail of a bot is built from its name, so a name
  whose bot is inactive is refused as well; and `AskedBySeats`, that every request
  is of a seat.
* `KeysAreNotShared` is not inductive: it says nothing of a key that is yet to be
  made. `KeysInOrder` says that the key a seat holds is the one it is configured
  with or one the realm made after all of those (`MadeSince`), that no key is ahead
  of the realm's counter, and that two seats with one key are both configured.
  The starting state takes a lemma of its own: the realm starts with a bot for
  each attached name, in some order, and the order misses none
  (`StartingRealm`).
* `NewlyMintedIsUnused` needs the realm beside the seats (`MintsInOrder`): the user a
  seat is bound to exists, so a mint never meets a holder; and a name somebody has
  a stable key for has its bot from the start, so nobody mints it and an attach
  never takes up a bot that another seat was told is new.
* `RequestsMakeNoTwins` is an action property, as a fixture may give one name to two.
  It rests on who may bring whom back (`NamesInOrder`): the realm looks for a holder
  of the name only when it reactivates a bot, and a human has no owner who could
  reactivate one.

**Queues of the realm.** `UnreadIsKept`, `DeactivatedHearNothing`.

* `QueueKeepsTheUnread` compares ids with what is pending, so `QueuesInOrder` counts
  them: what pends in a queue are the last events it issued, without a gap, and an
  event that was dropped is no newer than the newest that reached the client. The
  lemmas say what a delivery, a prune, an answer and a heartbeat do to one queue.
  A poll's filter is written as leaving out the first few events, which it is
  because a queue is in the order of its ids.
* `SilentToTheDeactivated` is an action property: the same lemmas say, beside the
  invariant, which queues a step issues an event to (`StaysSilent`).

**Publishing.** `ForksAreRaces`, `PostsAreStoredOnce`, `RefusalsAreFresh`,
`ResolutionsMend`, `WalksLeaveNoHole`, `MentionsReachTheReader`, `RetriesEnd`.

* One invariant, `AllInStep`, of three parts: the realm and the caches
  (`RealmInStep`: a member once listed never becomes unknown again), the shape of
  the thread (`ForkNeedsRace`), and a claim on each call's record in eight parts,
  each naming the places where it holds. `SendInStep`: one send stores one message.
  `ReachInStep`: what is out of reach now was out of reach at some moment of the
  call, which is what makes a refusal fresh. `ThreadInStep`: the topic a post
  is about to be sent to is the thread's, unless a rename came in between.
  `WaitInStep`: the waits of a request sum up within its budget, and only a wait that
  used the budget up may have been cut short. `DescriptionInStep`, `ReadInStep` and
  `MapInStep` say the like of a description, a page and an event. The lemmas go by
  groups of steps: those that leave the realm alone, the sends and patches that note
  themselves on every other call, and the changes of the member and the channel.
* `WalksLeaveNoHole` takes a second invariant over the first, `WalksInStep`. A walk
  that is under way has seen everything of its narrow from its anchor on that was
  there when it began, and keeps of it what lies in the window (`WalkAt`); a page
  that waits to be rendered has no hole up to the anchor (`PageAt`); a walk that has
  ended left a message out for one of the three reasons the property allows
  (`LeftOut`). The lower bound of the window is a time while the walk goes by number,
  so the argument needs times to ascend with numbers (`TimesAscend`): the realm
  gives that, and the posts of the model keep it.
* The walk rests on facts about sets in order that are proved here:
  listing a finite set by rank lists it once and in order (`RankTaken`,
  `AscendingOrdered`), an increasing sequence is the listing of its range
  (`IncreasingIsAscending`), its last entries are its greatest (`LastKeepsOrder`), the
  newest *n* of a set are closed upwards (`NewestClosed`), and a page is therefore
  an unbroken piece of its narrow (`PageFetched`).

Only model-checked: the three properties of `Subscriptions`, whose argument has to be
made for one channel while calls in the others write the same record and the same
narrow set, and the six liveness properties (`EventuallyHandedOver`, `VerdictSettles`,
`EveryCallEnds`, `FreshBootEnds`, `CallsEnd`, `MentionsAreHeard`), as the provers here
know nothing of fairness or `ENABLED`. The library's induction theorems take an
operator as a parameter, which the provers cannot instantiate. Where a proof
needs an induction over numbers it takes the least counterexample instead; what
a library fold or filter makes of a sequence stays out of reach. That is why
some operators say what the code's loop comes to instead of folding
(`Replayed`, `InOrder`, `NewestFirst`, `After`).

## 7. Not modelled

* Text: rendering, formatting of events, avatars, search by hint. A mention is
  a flag or a set of names, a link is real or a stand-in.
* Direct messages and the guard on them; uploads and downloads; reactions as
  writes to Zulip (the substrates have them); the notices of realm-settings
  changes, and with them the tool list that goes stale when the editing switch
  flips between the boot's sample and the queue's registration.
* HTTP status classes beyond answered, failed, answered and lost, and 429.
  Requests have no timeout of their own in the client; where the code puts one
  around a call (acquire), it is an action.
* `Publishing` has one channel, one thread and one member: the directory's rule
  for two members of one name, and thread names that carry the resolved mark
  themselves, are outside it. A rename during a walk may cut the read short
  and is excluded from `WalkLeavesNoHole`.
* `Delivery` has one clock for realm and host.
* Failing and torn disk writes: the stores log and swallow the first; the second
  is open.
* Git, the session prefix and the cut of a project name can make two sessions
  share a bot name (8 hexadecimal digits, 12 characters); `Bootstrap` takes
  sessions as distinct.
* The shutdown finalizers (a release under a timeout), open. A DELETE in
  `release` has no timeout of its own while `boundRef` is locked.
* Two processes on one session at once: each MCP child owns its session's files.
* Hermes, a client of another host in another language, which talks to a seat
  only through tools and channel blocks; the Claude Code hooks, contract tests,
  scripts and site.
