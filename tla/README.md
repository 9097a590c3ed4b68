# MailX in TLA+

MailX accepts e-mail over HTTP and SMTP submission, keeps it in PostgreSQL and
a file store, and delivers it through a Redis queue and a pool of workers,
notifying tenants by webhooks and expanding broadcasts into one message per
contact. Around that path it keeps accounts, plans, API keys, sender domains
and the DNS records they need. Several processes may run against one database
and one Redis. This directory holds TLA+ models of the parts of MailX in which
several processes, goroutines or transactions meet and of the algorithms that
are easy to get wrong, TLC configurations that check them on small instances,
and TLAPS proofs of the most important results for instances of every size.

## 1. The system

    client --HTTP, SMTP--> admission --> acceptOne --file--> FileStore
                                            |  one transaction: message, recipients,
                                            v  outbox row, event, completed Idempotency-Key
                   PostgreSQL --dispatcher--> Redis queue --claim--> worker
                        ^                                              | permits, route,
                        |  attempt, status, event                      v DKIM, SMTP client
                        +----------------------------------------------+
                        |                        ^
                     events --fan-out--> webhook_deliveries --claim--> HTTP POST
                                                 |
                     bounces and complaints -----+--> suppressions

| Component | State | Operations | Meets others through |
|---|---|---|---|
| Job queue (`queue/queue.go`) | jobs, due times, claims | Enqueue, Claim, Ack, Renew, Release | leases and fencing tokens |
| Redis queue (`queue/redis*.go`) | two sorted sets, a hash per job, a token counter | five Lua scripts | any number of processes; their clocks differ |
| Memory queue (`queue/memory.go`) | heap, map, notify channel | the same, blocking | goroutines of one process |
| Outbox, dispatcher (`dispatch`, `database/outbox.go`) | outbox rows | fair batch, enqueue, mark | PostgreSQL to Redis, not atomic |
| Worker pool (`worker`) | goroutines, a map of `retry.State` per process | claim, load, check, attempt, persist, Ack or Release | queue, database, the shared state map |
| Retry (`retry`) | `State`: the attempts so far | Record, Decide, Evaluate, Delay | the pointer in the map |
| Outcome store (`database/outcomes.go`, `cmd/mailx/outcome_store.go`) | `messages.status`, `delivery_attempts`, `events`, `suppressions` | load, persist, rebuild | row locks |
| Permits, routing (`worker/permits.go`, `ratelimit`, `delivery/router.go`) | lease sets in Redis; pools, members, the pin of a message | acquire, release; pin, switch, dial | Redis scripts; a registry per process |
| Delivery engine, SMTP client (`delivery`, `dns`, `smtp`) | one operation | resolve, order, session, fallback | the peer |
| SMTP server (`smtp/server*.go`) | connection slots, sessions | accept, commands, DATA, sink | one goroutine per connection |
| File store (`storage`) | a directory per message | Save, repair, Load, Delete, purge | replicas that save the same id |
| Acceptance (`api/email_handler.go`, `database/idempotency.go`) | `idempotency_keys`, files, messages | claim, reclaim, poll, replay, release, insert | the key's row |
| Admission (`ratelimit`, `api/abuse.go`) | GCRA buckets, daily and queue counts | charge, check, insert | a Redis script; counts read before the insert |
| Webhooks (`webhook`, `database/webhook_*.go`) | subscriptions, deliveries, attempts, `events.fanned_out_at` | fan-out, claim, complete, disable | row and advisory locks, leases |
| Feedback (`bounce`, `feedback`, `suppression`) | recipients, reports, suppressions | generate, parse, ingest | retried reports |
| Broadcasts (`broadcast`, `database/broadcast_*.go`) | broadcasts, recipients | snapshot, materialize, complete, cancel, reschedule | row locks, InsertMessage |
| Templates, contacts, lists (`api/*_handler.go`, `database/*.go`) | rows with `(created_at, id)` | create, patch, delete, page | rows read by one request and changed by another |
| Accounts (`auth`, `humanauth`) | keys, sessions, links, codes | sign up, log in, rotate, reset, invite | guarded row updates |
| Plans (`billing`, `database/plan*.go`) | plan, attempts, payments | checkout, remind, charge, reconcile, lapse | every replica; Paystack |
| Identity (`domain`, `dkim`, `spf`, `dmarc`) | domains, DKIM keys | verify, rotate, sign, advise | DNS |
| Processes (`cmd/mailx`, `database/migrate.go`) | `schema_migrations`, open resources, components | migrate, open, run, signal, wait, close | replicas that start together |

What is hard here: every process keeps a private copy of the retry state while
the truth is in PostgreSQL; the outbox, the queue, the files and the database
are stores without a common transaction; leases run out under workers that are
still alive; transactions run at READ COMMITTED, so two statements of one
transaction read different states; handlers check rows outside the transaction
that changes them; row locks are taken in different orders; calls succeed and
their replies are lost. What makes each component correct:

* queue: a job is claimable or claimed, never both or neither; one claim is
  valid at a time; a stale one never becomes valid again; capacity is kept;
* delivery: no accepted message is lost, none is Acked before its outcome is
  stored, the attempts are bounded, history is not rewritten, status and
  attempts agree, and no tenant's outbox rows wait for ever;
* one attempt: credentials and recipients go only where the policy allows,
  a peer that may have taken the message is the last one asked, permits bound
  what runs at once, the pinned member is used, the delay is within its cap;
* acceptance: one message per key and retention window, a 202 is durable, a
  request is charged what the token bucket says, the file and the row agree;
* webhooks: an obligation for every matching event, one request per tenant at a
  time, attempts and deliveries agree, late workers change nothing, every
  obligation settles;
* feedback: a report is read as it was meant, applied once, and only what
  qualifies suppresses;
* broadcasts: one message per recipient and a file for each, none after the
  broadcast was stopped, one charge of the quota per recipient, every broadcast
  ends, and it completes only when nothing is pending;
* requests that race: a token, link, code or payment has its effect once, caps
  are kept, edits leave whole rows, a walk over pages misses and repeats nothing;
* identity: a domain that signs does not stop signing, a signature survives
  transit, the advised records verify;
* processes: whoever migrates, the schema grows in order and once; a component
  never outlives the connections it uses; a failure is reported.

## 2. Modules

| Module | What it is |
|---|---|
| `JobQueue` | the abstract contract of a queue: jobs active, deferred or owned |
| `RedisQueue`, `MemoryQueue` | the two queues; both implement `JobQueue` |
| `Delivery` | EXTENDS `JobQueue`: outbox, dispatcher, workers, retry states, outcome store |
| `OutboxFair` | the fair batch over tenants and the dispatcher's walk through it |
| `Backoff` | the delay arithmetic within the range of a duration |
| `Permits`, `Routing` | the two gates of a worker before it dials |
| `OutboundSmtp` | one delivery operation: MX order, sessions, fallback |
| `SmtpServer`, `SmtpData` | sessions of the receiver and of submission; the bytes of DATA |
| `FileStore` | directories and files of messages, their rows and the purge |
| `Idempotency` | requests with one Idempotency-Key up to the committed message |
| `Admission` | GCRA buckets, batch surcharge, daily, queue and dispatch caps |
| `Webhooks` | fan-out, claims, attempts and disabling of subscriptions |
| `Feedback` | reports: written, read, ingested; the suppression list |
| `Broadcast` | expanders, snapshot, claims and materialization of one broadcast |
| `BroadcastRequests`, `Audiences` | templates and creation of broadcasts; contacts, audiences, pages of lists |
| `HumanAuth`, `AccountLinks`, `ApiKeys` | sessions of an account; links and organizations; API keys |
| `Billing` | the paid plan of an organization |
| `SenderDomains`, `DkimSign`, `Spf`, `Dmarc` | domains and their keys; signatures; the DNS records |
| `Lifecycle` | processes that migrate one schema, run their components and stop |
| `Mail` | composes `BroadcastRequests`, `SmtpServer`, `FileStore`, `Permits`, `Routing`, `SenderDomains`, `Lifecycle`, `OutboundSmtp`, `Admission`, `Feedback`, `Backoff`, `Spf`, `Dmarc`, `SmtpData`, `DkimSign` |
| `Accounts` | composes `HumanAuth`, `AccountLinks`, `Billing`, `ApiKeys`, `Audiences` |
| `RedisQueueProofs`, `DeliveryProofs`, `BroadcastProofs`, `WebhooksProofs` | theorems about one module |
| `LiveProofs` | theorems about `Idempotency` and `MemoryQueue` |
| `MailProofs`, `AccountProofs` | theorems about the two compositions and the components in them |
| `MailDataProofs` | extends `MailProofs`: theorems about what `Mail` computes from reports, delays, DNS records, bytes of DATA and signed text |
| `MC*` with their `.cfg` | instances for TLC |

`Delivery` composes the queue contract with the outbox, the workers and the
database; what it shows about the queue holds for the Redis queue by
refinement. `Mail` and `Accounts` put components that run beside each other into
one system: a step of the composition is a step of one component on its own
tables while the others stand still, and every component interleaves with every
other. `Webhooks`, `Feedback` and `Routing` see the part of the message
that concerns them. An operator named `X_Something` before `X` is a plausible
slip in the code behind `X`. `PROJECT.json` pairs each property of a passing run
with one slip that violates it; the other slips are violations of the same
properties too, through their other conjuncts.

### JobQueue, RedisQueue, MemoryQueue

`JobQueue` is `queue.Queue` reduced to what its users may rely on: a job is
active from Enqueue to Ack, may be deferred to a later time, and is owned by
the latest token issued for it; Ack and Release have an effect only for the
owner. `RedisQueue` has one action per Lua script because Redis runs a script
atomically. What interleaves are scripts of different clients. A script runs
with a time its caller read earlier, any value up to `MaxLag` behind the
fastest clock. Clients keep every claim they were ever given and may use any of
them at any time, which covers late, duplicated and retried calls. The
refinement maps "claimed in Redis" to an owner and the score of an available
job to deferred or due.

`MemoryQueue` has one action per critical section of the mutex. Callers park on
the notify channel after unlocking; a broadcast wakes exactly the parked ones.

### Delivery, OutboxFair, Backoff

One action per observable call: one script, one statement or transaction, one
SMTP operation. `heap` and `cache` make the pointers of `stateStore` explicit:
workers of one process that work on one message share a `retry.State` which has
no lock, so `RecordAttempt` splits its read and its append. `processOne` is the
sequence `LoadStatus, RestoreState, CheckSuppression, (RecordSuppressed),
BeginAttempt, Deliver, RecordAttempt, EvaluateOutcome, ReadLatest,
PersistOutcome, Ack or Release`, with its early exits as their own actions
(`LoadFails`, `HoldIfMemberDisabled`, `SuppressionUnknown`, `DeferForPermit`,
`Defer`), and faults: `Panic`, `Crash`, `DispatchFails`, `PersistReplyLost`,
`AckReplyLost`, `QueueCallFails`, and a lease that lapses while its worker lives.
SMTP replies are abstracted to accepted, permanent, hard bounce, or one of the
temporary failures; several temporary failures are told apart because the
duplicate check of `matchingAttemptExists` compares them.

`OutboxFair` is the SQL of a fair batch (the first `maxFairTenants` tenants,
round-robin by rank) as an operator on the due rows, and the dispatcher that
hands a batch over row by row while tenants keep sending. `Backoff` computes
delays in signed integers that wrap at `Half` (2^63 in the code) and compares
them with the definition in unbounded integers. Policies may be invalid (a base,
maximum or scheduled delay that is not positive), which the code answers with an
error, 0 in the model.

### Permits, Routing, OutboundSmtp, SmtpServer, SmtpData, FileStore

`Permits` has the Redis scripts as steps and the two acquisitions of an attempt
as separate steps, with leases that run out. In `Routing` operators create and
switch pools and members while processes dial through registries they built at
their start. `OutboundSmtp` is one `Engine.Deliver`: any answer of DNS, any reply
class at any stage of a session, a lost connection at any point, cancellation.
`SmtpServer` lets clients send any command at any time and shares the slots
among connections. A mailbox is named in several spellings; the recipients of an
envelope are a list, as in the code, so the same `RCPT` given twice makes the
insert fail on its UNIQUE constraint (451), and a mailbox given in two spellings
is stored twice. What DATA does to bytes is `SmtpData`, where a message is
any short sequence over CR, LF, dot and a letter, read through a small buffer.
`FileStore` makes each file system call a step of `Save`, with crashes between
any two, repair by a second saver of the same id, and the purge.

### Idempotency, Admission

One key. `Begin` to `ReplayIfCompleted` are the statements of `acceptOne` and
`resolveIdempotency`. Staleness is a flag of the row which time sets at any
moment, so a claimant may stall anywhere. `window` counts retention windows:
the cleanup deletes the row whatever its status, and the promise of one message
is per window. In `Admission` the GCRA script is compared with a token bucket
that is kept beside it (`level`), and the caps are reads that several requests
make before any of them inserts.

### Webhooks, Feedback

Each transaction of `Webhooks` is a sequence of steps, because at READ COMMITTED
each statement sees what is committed when it starts. Row locks and the advisory
lock are derived from where the transactions are (`DeliveryLocked`,
`TenantLocked`, `AttemptLocked`, `EventLocked`). PostgreSQL's deadlock detector
is modelled as `DeadlockAborts`, which aborts either party. The cancelling UPDATE
of Disable takes its snapshot (`DisableCancel`), waits for the rows in it one by
one (`DisableLock`) and shows with the commit (`DisableCommit`); fan-outs and claims
come between. A delivery's lease
token is its attempt number, since each claim makes a fresh one of both.
`Feedback` keeps a report as its parts and fields, writes one for a final
failure as `Generate` does, and reads own and foreign reports as `ParseDSN` does;
the message has any number of recipients (`Recipients`, a sequence of mailboxes
that may repeat). Ingestion runs one transaction per recipient group, any of
which may fail.

### Broadcast, BroadcastRequests, Audiences

One broadcast. Each statement or transaction of `tick`, `process`,
`materializeBatch` and `materializeOne` is an action, and `pc` says which call
an expander makes next. The row lock of `ClaimActiveBroadcasts` ends with its
statement, so any number of expanders may be at work on the broadcast; only
`claimed_at` of the recipients (`leased`) keeps them apart, and it may run out
under an expander that is still alive. Recipient, file and message have one id
in the code, so all three are indexed by the contact, and contacts are numbered
in the order of the audience scan. Cancel, Reschedule, suppression changes and
the two halves of `DeleteSubjectData` (look up the rows, then delete them)
happen at any moment. Rendering, MIME, DKIM and parsing are one verdict,
`Broken`, because the code treats every deterministic failure alike.
`Trouble` counts everything the environment may do only finitely often.

`BroadcastRequests` has the read and the write of a template PATCH as separate
steps and the transaction that takes a template, an audience and a key into a
broadcast. `Audiences` walks every list of the API page by page while rows come
and go; `created_at` is the start of the inserting transaction, so a row may
appear behind rows that were already listed.

### HumanAuth, AccountLinks, ApiKeys, Billing

A handler reads and checks rows outside any transaction and then runs one
transaction per later step; handlers interleave at these steps. Tokens, codes
and passwords are numbers in order of creation; hashing and randomness are
identities. `Billing` runs a pass per replica, one step per transaction, mail or
call to Paystack; answers are lost, webhooks come late, repeatedly or never, and
a pass dies between any two steps. Paystack is external: a charge under a
reference it has seen is not made again.

### SenderDomains, DkimSign, Spf, Dmarc

In `SenderDomains` a request reads rows, asks DNS and then writes, in three
steps. `DkimSign` signs short messages and lets relays fold headers, change
white space, pad the body and prepend fields. `Spf` and `Dmarc` keep records as
sequences of terms and tags: parsing, evaluation, the merge that MailX advises,
the tree walk and the verdict. The loops over terms and tags are recursive
functions; in `Dmarc` a name is its number of labels, and a name that was asked
keeps its answer.

### Lifecycle

Every process migrates the schema when it starts, without a lock, and so does
`mailx migrate`; processes may embed different numbers of migrations, as in a
rolling deployment, and die between two of them. `applyOne` is one transaction,
in which the primary key of `schema_migrations` lets one of two win: the other
rolls back and its process exits, to be started again. Then come the resources
in order (`runFull`), the components (`runComponents`: each returns what its
`Run` can return, the nil of one is looked at in a step of its own), a signal
or the first error, the wait, and the deferred calls in reverse. Handlers of
single connections are not components: `Serve` and the HTTP servers do not, or
not for long, wait for them, and a handler cut off there is the death of a
request in `FileStore`, `Idempotency` and `SmtpServer`.

## 3. Runs

Deadlock checking is off in all configurations: the instances bound the work
(messages, requests, events, tokens), so they stop when it is done. Where
stopping early would be wrong a liveness property says so.

Components that share no state in the models are checked together, one *area*
each: `MCAccounts` (on `Accounts` and `Webhooks`), `MCMail` (on `Mail`) and
`MCLive` (on `Idempotency`, `MemoryQueue` and `OutboxFair`) choose an area initially,
a behaviour runs that component alone, and the others keep their initial state. The states explored are the sum of the
components' states, not their product, and a property of a component speaks
about its own area. The theorems of section 5 are about the full interleaving of
`Mail` and `Accounts`.

| Run | Instance | Shows |
|---|---|---|
| `redis_queue` | 3 jobs, 2 clients, capacity 2, lease 1, lag 1, clock 0..2, 3 tokens | a claim holds for its lease and a stale one stays stale; the scripts implement the contract |
| `delivery_single` | 1 process, 2 workers, 1 message, 2 attempts, 1 crash or SMTP-time panic, 2 failing calls | no early Ack, a finished message stays finished, no extra operation, every restart from the stored attempts, every message finishes |
| `delivery_replicas` | 2 processes, 1 worker each, 2 temporary replies | nothing stranded, status and rows agree, duplicates need faults |
| `broadcast` | 2 expanders, 3 contacts (one cannot be rendered), snapshot batches of 2, claims of 1, 2 tries, 1 trouble, a Cancel at any time | messages, recipients and files agree, one charge, every broadcast ends, completed only with nothing pending, and a stopped one stays stopped |
| `waiting_and_fairness` | 3 requests with one key, one with another payload, a fault, a cleanup; 3 callers, 2 jobs, capacity 1, 4 calls; 2 tenants, 3 messages, batches of 1 | a key names one durable message, nobody takes a fresh claim away and everyone is answered; no lost wake-up, blocked calls end, the in-memory queue implements the contract; a batch is shared among tenants and none starves |
| `webhook_liveness` | 2 workers, 2 subscriptions, a fault, a Disable that can deadlock | obligations settle |
| `accounts` | 2 requests at a time, 2 to 4 in all; bounds per component in `MCAccounts` | see the table below |
| `mail` | 2 processes where processes meet; bounds per component in `MCMail` | see the table below |

What the two packed runs check, by component, first `accounts` (down to
`WalksAreExact`) and then `mail`. Each property is a conjunction
of named parts of the component's module.

| Property | Parts and code |
|---|---|
| `CredentialsAreSound` | `HumanAuth.SingleUse`, `EnabledSecretWasProven`, `GuessesAreBounded`: a refresh token, reset link, challenge, code or OAuth state is redeemed once, and a second factor in force was proven by a code of its own secret, and a challenge takes a bounded number of wrong codes; `ApiKeys.OneSuccessor`: of racing rotations of a key one succeeds |
| `InvitationsAreSound` | `LinksSupersedeCleanly`: sending a link never leaves an address with none that works; `MembersWithinCap` |
| `ChargesAreAccounted`, `PlanStepsAreFair` | one charge per period whatever dies or gets lost, no charge written off, one credit per payment, a lapse never shortens retention |
| `TablesAgree`, `HistoryIsImmutable` | webhook claims are exclusive per tenant, deliveries match their attempts, success needs a 2xx, fan-out is complete; closed attempts and finished deliveries never change, and a disabled subscription's are attempted once more at most |
| `WalksAreExact` | a walk over pages returns every row that stayed, once |
| `AdmissionIsExact` | the GCRA script is a token bucket, Retry-After is the first instant that succeeds, the caps overshoot by at most what is in flight, what was admitted was paid for |
| `RequestsAreSound` | racing PATCHes leave a template with a body; a key names one broadcast |
| `OperationIsSound` | credentials and mail only over the transport the policy asks for; one server is offered the message; candidates in order |
| `SessionsAreSeparate`, `DataIsFaithful` | a message has the sender, the recipients and the tenant its own client was confirmed, also beside another open session and after refused ones; every recipient is reached, none both shown and hidden; slots equal sessions; DATA returns what was sent, and an accepted body has no bare CR or LF |
| `FilesMatchRows` | an accepted message has its complete files wherever a saver died; the purge leaves no row without, or file behind, a purged message |
| `AttemptsWithinPermits`, `RouteIsKept`, `KillSwitchHolds` | attempts at once within both limits; the pinned member's identity is used; a member seen disabled takes no mail |
| `DelayIsExact` | delay is min(base 2^(n-1), max) although the code doubles in machine integers, and jitter moves it by at most its percentage, never past the maximum or below a second |
| `SignatureSurvives` | relaxed canonicalization verifies after what relays may do |
| `FeedbackIsSound` | a report MailX writes is read back with its meaning; a suppression has a qualifying cause |
| `SigningNeverPauses` | a domain with an active key keeps one through racing rotations |
| `DnsConclusionsHold` | a verified registration was proven by its own token; the advised SPF record authorizes once published, with three exceptions (below); the DMARC walk finds the organization whatever the order of tags |
| `LifecycleIsSound` | scripts are committed once and in order by whoever migrates; a component runs only while what it uses is open; no quiet exit |

Why the bounds are enough for the cases of interest: two workers and one
message make every two-party race of claims, stale states and late writes, and
the code has no step that involves three claims of one message at a time; two
attempts separate retry, exhaustion and success; one fault placed anywhere
between two calls covers each crash point, a second fault only repeats it. The
Redis queue needs three jobs so that one waits at capacity while another is
reclaimed; the memory queue needs three callers so that waking one of two
parked callers is different from waking both. Three requests give a stalled
claimant, a reclaimer and a waiter. The batches of a broadcast keep the order of
the code's (200 contacts to a snapshot, 25 to a claim), on which completion
depends; three contacts in batches of two make a batch still to come while
recipients are worked on, and one trouble lets a claim run out under one
expander. Two troubles, where something else happens to the same recipient, were
checked once: the invariants with three contacts, everything with two. In the
webhooks two of a fault, a late worker and a `Disable` meet; all three in one
behaviour were checked once too (1,009,280 states). Three
clients share two connections, so that two sessions are open together while a
third waits. A handler of the accounts reads once and writes once, so two
at a time and three or four in all give a read, a conflicting write, the stale
write and what follows from it. The billing horizon holds the notice, the
window with both attempts and the lapse. The domains area has two tenants with
one name and six requests: register, prove, add a key, verify it, rotate. The
sizes of `Backoff` and `SmtpData` are scaled: durations of 24 bits so that doubling wraps
within 17 attempts, a buffer of 4 so that a 5-byte message arrives in fragments.
The theorems of section 5 remove these bounds for the safety properties they
cover.

### Fairness

`Delivery`: the loops of the dispatcher and of the workers run for ever and
their calls have deadlines, so weak fairness of each worker's and dispatcher's
next step; time passes, so retries come due. Faults are not fair and bounded.
`Broadcast`: the expanders poll for ever, time passes (`send_at` comes, claims
run out), and refusals, lapses and faults are finitely many; nothing is assumed
of tenants. `MemoryQueue`: the runtime schedules every runnable goroutine and
timers fire. `Webhooks`: weak fairness for workers, fan-out loops, running
transactions and time; strong fairness for `CompleteLock` and `DisableLock`,
which wait for a row lock: PostgreSQL queues the waiters of a row, while claims
use SKIP LOCKED and do not queue. `Idempotency`: weak fairness of each handler;
the poll has a deadline. `OutboxFair`: the dispatcher's loop goes on, and a row
whose Enqueue is tried again and again is at some time accepted (strong
fairness of `HandOver`), since a full or unreachable queue recovers. No fairness
is assumed of clients, tenants or SMTP peers. In `MCLive` each condition is
stated for the actions of its own area.

### Runs that end in a counterexample

Each checks one sentence of the repository's comments or docs; `PROJECT.json`
quotes it under "findings".

| Run | The text says | TLC shows |
|---|---|---|
| `delivery_stuck_worker` | one bad job never stops the pool | a conflict from a stale number is retried for ever |
| `delivery_stale_state` | the state is rebuilt from the stored attempts after a cross-process reclaim | a process starts from the state it cached before the other's attempt |
| `idempotency_poll` | another payload gets 409 | a polling request receives another payload's message |
| `dkim_activation` | the key found in DNS is activated | the pending key is replaced during the lookup, and the new one is activated |

More divergences show up when a configuration or a property is changed, and are
not kept as runs:

* with two processes `OperationsBounded` fails, for the reason
  `delivery_stale_state` shows: attempts in the other process are not counted;
* with `PanicPlaces` containing "persist" `AckOnlyWhenDurable` fails: the cached
  state is finished, nothing is stored, and `handleAttemptError` Acks; for the
  same reason, and with `LapseLive`, `NothingStranded` fails;
* with `LapseLive` a terminal status can change, in one process or two: the
  duplicate path of `PersistDeliveryOutcome` writes the status again from a
  replayed attempt (`database/outcomes.go:65` says a terminal state is final);
* "max 8 attempts" (`.ilana/architecture.md:241`) is `AttemptsWithinBudget`
  without the term for lapsed leases, which fails when a worker dies in the last
  attempt;
* `DisabledIsQuiet` of `Webhooks` fails: a fan-out that matched the subscription
  before Disable committed inserts its delivery after the cancelling UPDATE read
  the table, and it stays pending (`webhook_subscriptions.go:126` says Disable
  cancels all unfinished deliveries); a claim whose statement saw the subscription
  enabled may attempt it once after Disable, as `HistoryIsImmutable` allows;
* a broadcast can complete before its audience is scanned if erasures take what a
  pass has snapshotted and not claimed (175 of 200 rows): the pending check and the
  UPDATE of `TryCompleteBroadcast` are two statements, the UPDATE looks at
  `snapshot_complete` only, and another expander may finish the scan in between.
  Without erasures `CompletedMeansDone` holds because of the batch sizes alone;
* `ratelimit.Store.Allow` "charges nothing" on a Redis error
  (`ratelimit/store.go:191-192`), but a script whose answer came too late has
  charged the buckets; nothing in `AdmissionIsExact` depends on it;
* `ErasedIsNotSent` of `Broadcast` fails: `DeleteSubjectData` looks up the
  recipient rows, a batch that includes the contact is snapshotted, and the
  transaction deletes the contact but not the new row, which is then sent to
  (`database/gdpr.go:7-14` says the rows are deleted lest that happen);
* after a refusal `materializeBatch` leaves the rest of its batch "pending for
  the next tick" (`expander.go:246`), but the rows stay leased for five minutes;
  and any error of the domain lookup, a transient one too, fails the whole
  broadcast (`expander.go:176-182`);
* `MemberWalksAreExact` of `Audiences` fails: `ListAudienceMembers` orders by the
  membership's `created_at`, while the handler builds the cursor from the
  contact's, so a page can be skipped or repeated (`database/audiences.go:30-31`);
* with more than `maxFairTenants` (200) tenants that always have due rows,
  `NoTenantStarves` of `OutboxFair` fails for those behind them in `tenant_id` order
  (`database/outbox.go:52-56` promises a share to every tenant);
* `storage/store.go:18-29` says `ErrRecordExists` means that the record "is
  verified complete"; a directory younger than `repairGracePeriod`, or one that
  somebody else recreated during a repair, is reported so without being loaded
  (lines 190-205), and a saver that still works on it may yet die;
* "No charge is ever made unless an auto-renew reminder for THIS period was sent"
  (`billing/renewal.go:18-19`), but `ClaimPlanReminders` (`database/renewal.go:86`)
  stamps the notice before the mail, and a process that dies in between leaves
  the stamp;
* `database/api_keys.go:152-156` says a key that expires before the row lock is
  acquired is rejected, but the time it is compared with is the caller's, read
  before (`auth/service.go:151`);
* "complaints always suppress" (`docs/design-v0.32.md:32-33`), but a second
  complaint about a recipient changes nothing (`database/feedback.go:115-124`),
  also when the first one's suppression was deleted in the meantime;
* the stages from MAIL FROM on are definitive because the server "answered"
  (`delivery/policy.go:76-78`); a connection lost at these stages has
  `Temporary` false (`smtp/client_error.go:88-90`) and is definitive as well;
* the SPF advice overlooks three limits of its own check, and `AdviceVerifies`
  excepts them: `Merge` may make a record with more terms than `Parse` accepts
  (`spf/record.go:364-378` against 93-95), "create" may publish a 65th TXT record
  (`spf/service.go:207-211`), and a relay's include of 248 to 253 characters, which
  `cmd/mailx/relayconfig.go:70` allows, makes a term longer than `MaxTermBytes`
  (`spf/record.go:99-101`);
* two PATCHes of one template read the same row and the later write undoes the
  earlier one; the row stays whole, which is what `RequestsAreSound` says.

## 4. Properties and hazards

The hazards of the code, with their lines and the properties aimed at each, are
in `PROJECT.json`. Where the exact promise of a comment does not hold, the
passing runs state what does: `OperationsBounded` and `DuplicatesNeedFaults`
count faults into the bound (SMTP cannot be exactly-once), `ChargedOnce` counts
failures, lapses and faults, `AttemptsWithinBudget` counts lapsed leases,
`OvershootIsBounded` counts requests in flight, and the runs with one process
keep the properties that two processes break. Action properties
(`ClaimsAreFenced`, `OutcomesAreDurable`, `HistoryIsImmutable`,
`PlanStepsAreFair`, `KillSwitchHolds`, `SigningNeverPauses`) say what no step may
do. Properties that are proved for every instance and that the runs no longer
repeat: `OneMembership`, `ExclusiveClaim`, `WithinCapacity` (`RedisQueue`),
`AttemptsAreImmutable` (`Delivery`), and the type invariants of `RedisQueue`,
`Delivery`, `Idempotency` and `Broadcast`.

## 5. Proofs

All theorems are of the form `Spec => ...` and hold for every value of the
constants that satisfies the named assumption of the module (sets are
arbitrary, bounds are naturals, capacity, lease and limits are positive; for
`OutboundSmtp` preferences are naturals with 0 among them, and some host is safe;
for `Admission` intervals and bursts are naturals and processes are finitely
many; for `Feedback` the message has a recipient and a reader takes at least the
two parts of a report; for `Backoff` a policy's fields are durations, and 500
times the maximum of a policy with jitter is one too, which in the code means a
maximum below 213 days; for `Spf` a record that names every sending address and
ends in `all` is within the terms and bytes `Parse` accepts, which in the code
follows from `MaxSendingIPs`; for `Dmarc` a domain has a label, and names publish sets of
sequences of tags).

* `RedisQueueProofs`. Inductive invariant `QueueInv`: types, `OneMembership`,
  and `TokensFresh` (no stored or handed-out token exceeds the counter, and no
  two claims share one). Exclusivity alone is not inductive: a claim issues a
  new token, and only freshness says that nobody holds it already. From it
  follow `ClaimsAreExclusive`, `StaleClaimsStayStale` and
  `RedisImplementsQueue`; `LeasesAreHonoured` needs types only, and
  `ClaimsFenced` is the two together;
  `CapacityIsKept` counts the two disjoint sets (`DisjointSize`) and needs
  their finiteness.
* `DeliveryProofs`. Inductive invariant `IInv`: the queue part (deferred jobs
  are unowned), the database part (attempt numbers are a key of the stored
  rows; status and rows agree), and for each worker that the job, token, state
  pointer and result it needs at its place are there. The last part is what
  makes a stored result a real one. From it follow `StatusAndRowsAgree` and
  `HistoryIsImmutable`, with stale states, lapsing leases and panics anywhere
  allowed, and `PipelineUsesContract`: the pipeline's steps on the queue are
  steps of `JobQueue`, so together with `RedisImplementsQueue` it runs on the
  Redis queue.
  The four properties that make an outcome reliable need `LeasesLast`: a claim is
  taken back only when nobody acts on it any more (`~LapseLive`; the worker renews
  before it persists), and a panic strikes before the attempt is in the
  retry.State. Without the first a late worker that reports a stored attempt
  again puts back the status of that attempt; without the second a finished state is cached for a message nobody
  finished, and the next claim is Ack'd. Under it `WorkInv` is inductive:
  `ClaimsInv` (a busy worker owns its job, alone), `CellsInv` (every cached state
  has a cell of its own, reached only through the cache entry of process and
  job), `StagesInv` (what a worker read of its state is still so) and `EndsInv`
  (an Ack is for a finished message, a finished state is cached only if its
  message is finished or its worker is about to store it, the rows of an
  unfinished message are temporary failures below the limit; that a restored
  state then has room for another attempt is the pigeonhole principle,
  `RestoredOpen`). From it follow `OutcomesStayDurable`, `NothingIsStranded` (with
  what a dispatcher between Enqueue and mark may rely on, `DispatchOK`) and
  `DuplicatesCostFaults` (`AcceptsInv`: an acceptance is stored, in the hands of
  the worker that stores it, or paid for by a fault).
  `OperationsStaySound` is for one process (`SoleProcess`; with two a cached
  state can be stale, which is what delivery_stuck_worker shows): `SoleInv` says that the cached state is what the
  rows say or one attempt ahead, and counts operations against rows.
* `LiveProofs`, idempotency keys. Inductive invariant `IInv`: claim numbers are unique to
  requests, a message of the current window is the one the completed row names
  (`WindowOwner`, without which two messages in a window are not excluded), and
  a request at the insert has its file. From it follow `AtMostOneMessage`,
  `CompletedKeyTellsTruth`, `AcceptedMessagesAreDurable`, together
  `IdempotencyKeysAreSound`, and `FreshClaimsAreSafe`.
* `BroadcastProofs`. Inductive invariant `TypeOK`, `NoOrphanFiles` and `Core`.
  What makes `MessagesAreJustified` inductive is `Hands`: an expander about to
  delete a file found its recipient `Over` (suppressed, failed, erased, or of a
  stopped broadcast), which is for good; so an expander between Save and
  InsertMessage has its file unless its recipient is over too, and then inserts
  nothing. That a stopped broadcast is stopped for good needs `Started`: past
  MarkBroadcastExpanding the status is no longer "accepted", so Reschedule
  cannot make the broadcast not due. From it follow `MessagesHaveReasons` and
  `FilesHaveOwners`, together `RecipientsHaveBothOrNeither`; `StopsAreFinal` needs no invariant.
  `ChargedOnce` is not inductive: nothing in it says that whoever is about to
  charge was granted the claim on a recipient not charged before. `ChargeInv`
  adds up, for each recipient, the charges made, the expanders that hold it and
  have not charged it yet, and one if it is free to be claimed; the sum never
  exceeds one plus the credits (counted failures, claims that ran out in use,
  crashes, failing calls). Each step moves a unit from one summand to the next
  or earns a credit (`RecipientsChargedOnce`).
* `LiveProofs`, the in-memory queue. Inductive invariant `QueueInv`: types, the heap holds
  exactly the unclaimed entries of the map (`HeapMatchesMap`), and whoever is
  parked waits for something that has not happened (`CallsOK`). `NoWakeupIsLost`
  is the last part; it rests on the sections that could end somebody's wait all
  calling `broadcastLocked`, and on Claim, which does not, never making a wait
  unjustified. `MemoryImplementsQueue` needs the first two parts: a token of a
  removed entry must not own the entry that a later Enqueue makes.
* `WebhooksProofs`. Inductive invariant `WebhookInv`. `OneActivePerTenant` alone
  is not inductive, because a claim commits after its check: `WorkersInv` says
  that two claims of one tenant are never past the tenant's lock together
  (`Apart`) and that what a worker checked under that lock still holds
  (`WorkerFacts`). `DisablesInv` says the same of the rows Disable has locked: before
  it commits it holds the delivery of every attempt it closes (`DisableFacts`).
  `FansInv` says it of the subscriptions a fan-out has matched (`FanFacts`), `MeetInv`
  that a claim holds no delivery Disable has locked and none that was attempted
  since its subscription was disabled (`Meets`), and `RowsInv` ties the attempt rows,
  the counter and the status of a delivery. From it follow `TablesAlwaysAgree` and
  `HistoryStaysImmutable`.
* `MailProofs`. One inductive invariant per component.
  `PermitInv`: a worker that sends holds, in both sorted sets, an entry under a
  token of its own that expires no earlier than the worker believes; the limits
  then bound the attempts by counting tokens (`PermitsBoundAttempts`).
  `FileInv`: a message the API saves has one saver, whose closed files are whole
  and whose row is not there yet, and a message that was purged has no saver
  left (`FilesAgreeWithRows`). `LifeInv`: the schema is the prefix 1..n of the
  migrations, what a process has seen of it is a shorter prefix, and each stage
  of a process has open what the stages before it opened (`ProcessesAreOrderly`).
  `SmtpInv`: a session's envelope and tenant are what its own client was told, the
  envelope is empty outside a transaction and the tenant gone with the session; so
  what the sink is handed is the client's, and splitting its list by the headers
  loses nobody (`SinkIsFaithful`, `SessionsDoNotMix`). `RouteInv`: a pin names an existing
  member, a registry's route is what its member is, and a job past a check of
  the worker passed it (`RoutesAreKept`, `SwitchedOffIsOff`). That `SelectMember`
  finds the index it computes, digest modulo the number of candidates, is a
  lemma: the places of a finite set's members in a strict total order differ, so by
  the pigeonhole principle every place is taken (`RanksAreTaken`,
  `SelectsACandidate`). `RequestsInv`: the
  key's row names the first broadcast and every answer agrees with it
  (`RequestsStaySound`). `DomainInv`: what a check is about to write was seen in
  DNS for that row (`VerifiedDomainsWereProven`, `SigningGoesOn`).
  `OperationInv` for one delivery operation: `TransportOK` says in which stages
  TLS is up, which is what the check of `secure` several stages earlier is worth
  when AUTH or MAIL FROM is sent; `OfferOK` that nobody was offered the message
  before MAIL FROM and one server after it, because `decideFallback` leaves those
  stages only for the end; `OrderOK` that what was tried and what is left are
  together in order and without repetition. That a lookup starts it rests on
  `SortedCandidates`: sorting by preference gives every record that is the first
  of its kind its own place (`RanksAreTaken` again), and on `ReorderedCandidates`:
  a permutation that keeps preferences loses and repeats nobody, since a
  surjection between finite sets of one size is injective
  (`OperationsKeepSecretsAndOrder`).
  `AdmissionInv` for admission: the stored arrival time of each bucket is the
  level of a token bucket kept beside it; every count is at most its cap plus the
  requests that are past its check and have not inserted (`CapsKept`), which is
  inductive only with every stage between a check and the insert counted; and
  what a request paid and has not used yet is owed to it (`PaymentsCover`, sums
  over requests written as cardinalities of sets of units). It gives
  `AdmissionStaysExact`, for any number of requests, buckets and recipients.
* `MailDataProofs`, the components of `Mail` whose argument is about data.
  `FeedbackInv`: an ingestion holds items of the report it was given, an address
  is suppressed only after an event that qualifies, and every event has its row
  (`FeedbackStaysSound`). That a report reads back as it was written
  (`OwnReportsRead`, `OwnReportsReadBack`) is about `ParseDSN` and `ItemsOf`,
  functions that recurse over the parts and groups of a report of any length.
  `DelaysAreExact` needs no invariant beyond types but facts about two
  recursions, the code's doubling and the documented power: they agree until the
  maximum is reached, and since the loop compares with half the maximum before it
  doubles, no value on the way leaves the range of a duration (`DoubledRead`);
  multiplication and division in `Jitter` stay in range by the bound on the
  maximum (`JitterValue`).
  `SpfInv`: a record that MailX advised and its owner published passes for every
  address, or one of the three limits the advice overlooks is exceeded. The first match decides, so what `Merge` puts in front of a record
  decides whatever the record denies (`FrontAuthorizes`), and what `assess` finds
  missing, a recursion over the addresses, is what has to be put there
  (`AssessGathers`). Hence `AdvisedRecordsVerify`.
  `DmarcInv`: what a walk has found is what the zone holds for the names it asked,
  all but the last of them passed; once the first walk is over, the zone settles
  where it ended and which domain that makes the organization (`Settled`), and this
  stays so while the signing domain is walked, because that walk asks no name
  above the one where the first ended (`IdentityAsksBelow`). That both walks
  then end at one organization is `SameOrganization`, a case distinction on how
  the first ended: at psd=n, below psd=y, or nowhere. A walk skips names of
  more than seven labels, so the name below a public suffix may be one the
  first walk never asked. That the order of tags is free (`OrderIsFree`) is about
  the recursion of `Parse`: two neighbours commute up to which error is reported
  (`TagsCommute`), and an error or an equal reading stays one (`AlikeStays`).
  Together with `VerifiedDomainsWereProven` this is `DnsConclusionsAreRight`.
  `DataInv` has two parts. `BodyInv`, whatever arrives: the body is whole lines within
  the limit. `SentInv`, for what our own client sends: what was read and what is still on the wire are together the
  stuffed text; the reader stands at the start of a line or in the middle of the
  one whose beginning it holds; what it kept are the lines before that, unstuffed.
  A fragment ends where the buffer is full or at a line feed, never behind one,
  so the terminator is recognized where it was written and nowhere before
  (`DataStaysFaithful`). The stuffed text is a join of pieces of any number; that
  it can be read line by line rests on lemmas about `FlattenSeq`, again a recursion
  (`Flattens`). The one assumption beyond types is a buffer of at least 3 bytes:
  bufio has none under 16.
  `SignaturesSurvive` is inductive as it stands, with the type of a message. Each
  change in transit leaves what a verifier looks at (`Bears`): one more white
  space beside white space stays one through joining of folds, both trims and
  `collapseWSP` (`JoinedSpaced`, `TrimRightSpaced`, `TrimLeftSpaced`,
  `CollapseSpaced`), a fold vanishes (`JoinedFold`), an empty last line does not
  count (`BodyAppend`), and a field on top is beyond every field counted from below
  (`TakesAhead`). That it holds of a fresh signature is `InstancesBelow`: the k-th
  instance chosen has k fields of its name at or below it. The filters of text are
  lists of positions, unique for their set (`ListsOnce`).
  The inductions over naturals in these arguments use `NatSetInduction`: a set
  that holds 0 and the successor of each of its members holds every natural, since
  otherwise the least one left out contradicts it (`LeastValue`). That a function
  defined by recursion on 0..n satisfies its equation, and has values of the
  expected type, is `RecursionExists` and `RecursionTyped`.
* `AccountProofs`. `KeysInv`: predecessor and successor name each other, and a
  request names a row that exists. `AuthInv`: beside `SingleUse`, what each
  handler found and may still rely on (`AuthRequestsOK`: rows it holds locked,
  facts that never turn back), how the enabled secret was confirmed
  (`EnrollmentOK`), which codes and links were redeemed (`SpentOK`), and that the
  wrong guesses recorded and the handlers about to record one are together within
  the bound (`GuessesLeft`). These give `CredentialsWorkOnce`. `LinksInv`: an
  address that was sent a link has a newer one whenever a link of it was swept
  (`InvitationsStaySound`). `BillingInv`: an attempt is the only open one of its
  period, a charge was claimed by an attempt before it was made, a pass that
  charges is alone with its attempt, and an attempt is failed only if Paystack
  says so (`ChargesStayAccounted`); `PlansChangeFairly` follows step by step.
  `ListsInv` for the walks over lists: `Exact` speaks only of what has been shown
  and of the end of a walk, so `CursorOK` says what holds in between, that the
  cursor parts the table (a row shown is not behind it; a row that stayed and is
  not behind it was shown), and deleted ids are never used again. That a page
  preserves it rests on lemmas about the first n keys of any finite set: they are
  closed under "sorts before" (`FirstIsPrefix`), are all of the set when there are
  fewer than n (`FirstIsAll`), at most n (`FirstIsBounded`), and have a last
  (`LastKey`); the induction they need is the well-foundedness of the naturals
  (`LeastValue`). Hence `WalksStayExact`, for any page size and number of rows.

`MailIsComposed` and `AccountsAreComposed` carry the components' results over to
the compositions: a step of the composition is a step of each component or leaves
its variables alone, so the composition's specification implies each
component's, and a theorem about `Mail` or `Accounts` follows from the lemma about
the component (`PermitsAlone`, `FilesAlone`, ...). The largest
invariants, `BillingInv`, `AuthInv` and `ListsInv`, were model-checked on the
instances of `MCAccounts` before they were proved.

Only model-checked:

* every liveness property (the prover has no rule for fairness);
* the same bounds on acceptances and operations when a live worker's lease may
  lapse: each lapse is then a fault to be counted;
* the batch of `OutboxIsFair`, an algorithm over the library's folds, stated with a
  liveness property;
* walks over audience members, whose cursor is not a row's key (section 3).

## 6. Not modelled

* The HTTP surface: middleware, JSON decoding, validation messages and the
  OpenAPI document (5,500 lines of data).
* Message building, MIME, template rendering, tracking links, BIMI: functions
  of their input without shared state. Where their verdict matters it is an
  input of the model (`Broken`, the parse verdict of DATA).
* Listing, reporting and usage queries other than the paged lists,
  migrating down (only tests do), metrics, logging, flags, encryption of secrets.
* In modelled components: the administrator's allow-lists and circuit breakers
  (`database/abuse.go`), secret rotation of webhooks, the export of a subject's
  data, cryptography (RSA, bcrypt, TOTP codes are identities).

Abstractions to keep in mind: one message in `Delivery` instances (messages
share only the queue's capacity and the workers); one key in `Idempotency`
(keys share nothing); one broadcast in `Broadcast` (broadcasts share quotas
only, whose verdict is an input); event order within a fan-out batch and
delivery order within a claim are arbitrary, a superset of the code's ORDER BY;
the areas of the packed runs do not interact. Further, where a definition is
coarser than the code, and why no property turns on it:

* `Delivery`: `LoadStatus` is a Load that succeeds; one that cannot rebuild the retry
  state releases the job also of a terminal message, which is `LoadFails`.
  `EvaluateOutcome` is one step for the two evaluations of one state; a schedule time
  out of range, which cannot come from the clock, and an envelope whose first
  recipient has no domain, which acceptance does not store, are left out.
* `AccountLinks` has a constant member cap; the code reads the plan, which a payment
  or lapse may change between two invitations (`database/plans.go:137-141`).
* `Admission`: intervals are exact integers, in the code decimals with three places
  rounded to microseconds; messages the expander inserts count against the daily
  volume without its check (`database/plans.go:75-79`), beyond the overshoot proved.
* `Permits.Tick`: an attempt ends before the TTL of its permit, as `PermitPolicy`
  demands and as the deadlines of the SMTP client give.
* `SenderDomains.handleCreate` checks the plan's domain limit and inserts in one step;
  no property speaks of that limit.
* `OutboundSmtp`: invalid domains and requests are refused before an operation
  starts, and a resolver that returns records along with an error is one that fails.
* `Webhooks` has one clock; a worker compares leases with its own. A lease may run
  out at any moment in the model, which includes a clock that is ahead.
* `Lifecycle`: the context of the components counts as canceled when `runComponents`
  looks at the signal, so a component that returns in between may be reported as an
  unexpected exit, which the code does not do: more errors, never fewer.
* `Dmarc.LookupFails`: after a failed first walk the signing domain of the author
  itself is not walked again (`dmarc/service.go:212-222`); the status is a temporary
  error either way.

## 7. Plan

1. `OutboxFair` with recursive functions, to prove that a batch is shared with the
   inductions of `MailDataProofs`.
2. Composition of `Permits` and `Routing` with `Delivery`, whose gates are
   verdicts at present.
