# A TLA+ model of aiball

aiball is a local-first ticket board on which humans and coding agents work
together, and `claude-loop`, the runner that keeps an agent at its terminal and
wakes it when the board has work for it. This directory holds TLA+ modules
translated from its source (`src/` below is the root of the repository, so the
TypeScript is under `src/src/`), the TLC configurations that check them on small
instances, and proofs that TLAPS checks for every value of the constants.

`PROJECT.json` is the index: each run with its properties, each definition with
the lines it stands for, each theorem, the hazards, and the disagreements between
the code and its own documentation that the runs exhibit.

    tlc -config MCTicketThread.cfg MCTicketThread     # one run
    tlapm TicketThreadProofs.tla                      # one proof module

## 1. The system

| Part | State it keeps | Operations | Talks to |
|---|---|---|---|
| Claims and assignments (`db/claim-hold.ts`, `db/assignment-gate.ts`, `bus/methods/ticket.ts`) | assignee, claimant and claim instant of a ticket | assign, claim, take over, release, auto-claim of a comment, auto-release of bare claims | reads the thread's instants; gates the step |
| Thread and decisions (`messages.ts`, `decisions.ts`, `db/messages.ts`, `db/decision-gate.ts`) | messages with their moderation, decisions, the ticket's last actor | post, approve, reject, decide, promote, tag, close, reopen, delete | claims, notifications, caches, automation |
| Notifications (`notifications.ts`, `db/pings.ts`) | one ping per message and recipient, read or not; mutes; the wake focus | fan out at insertion and at approval, mark read, prune one's own, purge at the close | the loop, through the bus |
| Flags and inbox caches (`db/flags-cache.ts`, `db/human-hand.ts`, `db/inbox-agg*.ts`) | copies of derived sets, dirty marks, expiries | mark dirty, repair, expire, clear | every write of the thread |
| Relations and waits (`relations.ts`, `db/messages.ts`, `db/wait-graph.ts`) | relation events per thread, the parent column, what a step resumes on | relate, cut, sub-ticket, backfill at boot, park on a ticket | thread, caches, backlog |
| Offline posting (`client.ts`, `spool.ts`, `db/idempotency.ts`) | queued writes, idempotency keys | call, retry, time out, spool, drain, deduplicate | bus, thread |
| Backlog (`db/backlog-rules.ts`, `agent-cooldown.ts`, `db/wait-credit.ts`) | cooldowns, credit of minutes | next ticket, spend and refund a wait | claims, relations |
| Automation, cron, autopoll | rules, last run | fire on an event or a tick, act on the board | posts like a consumer |
| Bus (`bus/*`, `event-bus.ts`) | subscriptions, relayed calls | call, subscribe, publish, relay to a hub | everything |
| Sessions and hosts (`sessions/*`) | which machine runs which agent | start, adopt, stop | claude-loop |
| claude-loop (`claude-loop/*`) | machines boot, turn, wake, afk, typing, sanity; the hint of the last ping; the ipc state of a loop | hooks, pane probes, timers, wakes, self-reload | the agent's terminal, the bus |
| Renames and relocation (`project-rename.ts`, `relocate.ts`, `agent-rename-machine.ts`) | names in the database, `.aiball.yaml`, the folder, Claude's records of its path | plan, apply write by write, run again | database, files of other programs |
| CLI, MCP, HTTP, web, desktop | none of their own | call the bus methods | bus |

The daemon is one Node process over SQLite through a synchronous driver: a bus
method runs to its end without yielding (the few `await`s are named where a
model meets them), so handlers do not interleave with each other inside one
call. What does interleave is the *order* in which consumers, moderators,
automations and clocks call them, and that order is free: an agent posts while its
earlier message still waits for moderation, a human decides what another path
already settled, a claim outlives its window while its holder works. The loop is
the opposite: one kernel process with timers, asynchronous probes and hooks that
come from other processes, may be late and may be lost, and a kernel that reloads
itself under a running agent. Between the two, a client's write crosses a
connection that may be cut and a daemon that may die; and a rename writes files that
other programs are writing.

What makes each part correct:

- **Claims**: an agent is never refused a step on a ticket nobody else may take;
  a protected claim is not taken; an assignment and somebody else's claim never
  coexist; an agent does not pile up bare claims.
- **Thread**: a close is by someone who may close; what was settled stays settled;
  a stale proposal does not reopen; the gate holds the agents exactly while the
  thread's latest signal says so, and somebody can always lift it; the ticket
  comes back to the one who must act.
- **Notifications**: nobody is told of what is not approved, each gesture wakes an
  agent once, a close reaches everyone it concerns, and nothing is marked read
  that was not there to be read.
- **Posting**: a write lands once or its author knows that it does not.
- **Loop**: while there is work and nothing holds the agent, it is eventually
  woken; it is not woken over a running turn, nor twice for one reason; no
  machine is left in a state nothing leaves; what a wake marks read, it showed, and
  what waits in the queue is shown in the end.
- **Caches**: a read never differs from the uncached computation.
- **Relations**: no cycle of parents; no ring of tickets that sleep on each other.
- **Renames**: a run that says it is done has left nothing at the old name, and a
  run that stopped can be finished.

## 2. Modules

| Module | Models | State and code |
|---|---|---|
| `ClaimHold` | claims and assignments of a set of tickets, with the clock | `assignee`, `claimant`, `claimedAt` are the columns of `tickets`; `lastAction` is `ticketSelfLastActivity`; `now` a tick counter |
| `TicketThread` | one ticket's thread, decisions and last actor | `thread` is the `messages` rows of the ticket in id order; `dec` a message's decision tag; `own` the plan the ticket was filed with; `last` is `last_actor` and the message `last_actor_at` points at |
| `Pings` | who is told of what on one ticket, and what is read | `unseen` and `seen` are the rows of `pings` by `seen_at`; `sub` is `ticket_subscriptions`; `thread` keeps of a message what the fan-out reads |
| `Posting` | a write's way from the client to the thread | `client` what the author knows, `calls` what reached the daemon, `spool` and `drain` the directory and the listing under way, `copies` the rows in the thread, `keyed` the idempotency table |
| `ExactlyOnce` | what posting promises its author | `fate`; `Posting` maps each write to it |
| `WakeLoop` | the wake path of a loop's kernel, with Claude and the transport of its hooks as environment | the machines `boot`, `turn`, `wake` and their `after` timers; `joinC1`, `joinC2`, `live` (the session join); `attempt`, what each `tryWakeInner` awaits and the ping it was given; `work`, the unread pings; `idle`, `busy`, `mech`, `blind`, `shown` (what the pane probe keeps); `hooks` under way |
| `WakeDelivery` | what the wake path promises: each ping typed once, by one try at a time, of an open session, as long as no try runs late | `unread`, `open`, `tries`, `late`; `WakeLoop` maps its `work`, `live` and attempts to them, and `late` to an attempt that has outlived its flight |
| `WakeHead` | what a wake renders of the agent's queue and what it acknowledges | `unread` the fifo-wake list, `hint` the pending wake hint, `fresh` the accepts in their grace, `wake` the phrase composed and not yet typed |
| `Relations` | the graph of relations, and who waits on whom | `rel` replays the relation events of each thread per axis; `owed` the `parent_id` column without its event; `resume` what the last step of a ticket names |
| `FlagsCache` | the daemon's copies of three derived sets | `flags` (per reader), `decisions`, `held`, each with its values, expiries and dirty marks; `ticket` what they are computed from |
| `Rename` | `rename-all` of a project, write by write | `names`, `yaml`, `place`, `home` (Claude's directories), `holds` (paths in its files and in the loops' plates), `root` (what the loop pushed), `run` the plan of a run and how far it is |
| `MC*` | instances for TLC: constants, symmetry, cases, state constraints | |
| `*Proofs` | theorems and their proofs | |

The modules meet at their edges. `TicketThread` and `Pings` are two readings of the
same handlers: what they do to the thread, whom they tell. What `Pings` leaves unread
is the queue `WakeHead` renders; when a wake may go at all is `WakeLoop`'s, where the
queue is a set of pings, and an attempt is given one of them. `Posting` brings a message to the thread; `ClaimHold` says who may
step; `FlagsCache` and `Relations` are what the backlog reads of all this.

### ClaimHold

One action per handler: `Claim`, `Assign`, `Release` (`ticket.assign`,
`ticket.release`), `Comment` (the whole of `submitMessage` for a comment: step
gate, posting, auto-claim), `Close`, `Reopen`, `ModerateTicket`, and `Tick`. The
two durations the code reads, the assign window and the activity protection, are
independent constants in ticks; what matters is their order and the fact that one
runs from the claim and the other from the holder's latest message. Writes of one
handler share a tick.

### TicketThread

One action per operation of the bus that writes the thread: posting (`Comment`,
`Propose`, `Step`, `Close`, `Reopen`, `Resolve`, `TakeOver`), moderating
(`ModerateTicket`, `Moderate`, `AcceptAndClose`, `DeleteComment`), deciding
(`Decide`, `DecideOwn`, `PromoteDecided`), tagging (`Retag`, `Untag`, `TagStep`,
`UntagStep`). Each contains what the handler calls: a close withdraws the pending
reopens and closes and settles the open decisions, a step withdraws its author's
pending proposal, an accepted resolution goes on to close the ticket. `Gate` is
`replayDecisionGate`, the replay of the thread message by message (`Replay`, a
recursive function), `IsExcludedForConsumer` the query that takes a ticket out of a
consumer's pool.

A message's text, mentions, attachments and score are not in the model: nothing
it checks reads them. The narration the daemon posts with a verdict moves
`last_actor` and is otherwise invisible to the readings above.

### Pings

A handler is one step: `FileTicket`, `Comment`, `Lifecycle` (close, reopen), `Approve`,
`Reject`, `Verdict`, `AcceptResolution`, `AcceptAndClose`, each with the fan-out it
runs, and the marks of reading: `MarkSeen`, `MarkTicketUnseen`, `Resurface`, `AckWake`
(the loop acknowledges what it showed). Posting marks the author's own pings of the
thread read, up to the last message he wrote before; a close purges read pings and
those of the reopens it rejects. `UnreadList` and `WakeList` are the two reads the loop
and the inbox make.

Left out: the lists of names of a project and of its members, the channels outside the
board, the pings of relations and of the cron.

### Posting and ExactlyOnce

A write is its key, drawn once. `Call`, `Retry` and `GiveUp` are the client's (the
timeout of 15 s may fire at any time while a call waits); `Serve`, `RememberKey` and
`BreakMidPost` the daemon's: `message.post` inserts the message, runs its fan-out and
stores the key last, and may throw or die between. `DrainSpool` lists the directory
once and `ProcessOne` replays a file; `Boot` and `Die` bound the daemon's life, with
`MaxBoots` starts; a file that is done with is `Unlinked`. `OneFate` is the refinement of `ExactlyOnce`, and excepts only the writes
whose post broke between the insertion and the key. That a file never waits in the
spool longer than keys are kept (a week) is the code's own assumption and the model's.
Left out: the outbox of a relay to its hub, and the writes that carry no key.

### WakeLoop

Node runs a handler to its next `await`, so an action is a handler or the stretch
of one between two awaits. The phases of an attempt are the awaits of `tryWakeInner`:
`probing` (`refreshPaneMarkers`, then the wake gate: `Gate`), `checking` and `picked`
(`checkHasWork` and `pickPhrase`: `Check` is the board's answer, `Begin` what the kernel
does with it), `interrupting` (the Escapes of a panic: `Interrupt`), `typing` (`inject`:
`Deliver` or `DeliveryFails`). Between two of them anything may happen, and `Slots`
bounds how many attempts overlap; two are what it takes for the TTL of `inFlight` to let
a second one start under the first, for the same ping if the first has not begun to type.

The ping is marked seen as its phrase begins to be typed, not when it has been, and only
if the wake machine still is in flight (`MarkSeen`: `WAKE_DELIVERED` is heard nowhere
else): an attempt that outlived its flight types and leaves its ping unread, to be typed
again. A failed injection leaves it seen, "le ping reste consommé" (`kernel.ts:1380`),
and the phrase being typed as the kernel is replaced goes with the kernel. What an agent
reads by itself is `WakeHead`'s.

- The three XState machines are `boot`, `turn` and `wake`. A delay is an action
  enabled while its timer is armed (`bootTimer`, `turnTimer`, `wakeTimer`); XState
  does not arm the timer of a restored state, and the model does not either.
- The hooks (`SessionStarts`, `Stops`, `HumanPromptTaken`, `AutoPromptTaken`) are
  read from a queue of at most `MaxHooks`; one may be lost.
- `SeePane` is the busy part of `probePaneMarkers`: it chooses what the screen
  shows, and does what the code does with it, to closing the turn. It runs alone
  (`Probe`) and within an attempt (`Gate`).
- `Respawn` is a reload with its snapshots, up to the end of the new kernel's
  start; `Revive` one whose snapshots are lost. Either drops the attempts under way.
- Claude is at its prompt or working; it queues at most `MaxQueue` prompts.

Left out, because they only make a wake later, and time is left out: zen,
busy-defer, the quiet window, the error backoff, the countdown that keeps the
heartbeat out, the drained and denied prompts, signals, the API, limit, login and
trust-dialog gates. The hold (AFK) and typing are one `hold`. The sanity machine,
which clears what has been stuck for long, is left out: what is shown does not count
on it. `inject` is assumed to return. `BlindEnds` is what ends a blind turn-end
besides a hook and the screen: `idle_prompt` and the bound of two minutes. The wake
the Stop hook itself makes appears as the `auto` prompt it submits.

### WakeHead

Events are numbered as they land and a phrase is the set of events it renders.
`Compose` reads the queue (count, hint, window), chooses the head or the hint
(`Rendered`, which is `buildContextPhrase`), and `Announce` acknowledges it by id as the
keys are about to be sent, some acknowledgements being lost; `Type` is the phrase that
reaches Claude, `InjectFails` the one the proxy refuses, whose events stay read and are
kept in `dropped`. `Held` is the grace of a plan's accept. Meanwhile events
land, are read by the agent, are settled, or leave for another assignee, and pings and
panics are heard in stream order.

A drain reads the ping count and the queue together, the informational list, the keys
and the acknowledgements are one step, and edits of a message between reading and
acknowledging are left out. A hinted comment already told may be rendered again, as in
the code.

### Relations

`Seen` replays the events: a ticket's own event holds its slot, what the other thread
says shows only where its own says nothing. `Relate` (with `lineageWouldCycle`),
`Unrelate`, `CreateSub` whose event is best effort, `BackfillParentTicketRelations` at
boot, which asks no such question; `Step` with `resumeWouldCycle`, `ApproveStep`,
`Close`, `Reopen`, `Act`. A cycle walk is the least closed set holding its start, so
that it needs no recursion.

Callers' permissions are not told apart; the walk's cap of 2000 tickets, two events of
the same millisecond, the deletion of an approved comment that had moved a ticket, and
the audit (`waitCycles`, `deadResumes`) are left out. The properties except what the code
lets through: a link restored at boot is not checked; a cycle of `depends_on`, or one
closed by relations drawn after the step, is refused nowhere and only the audit reports
it; and two steps that cross in moderation can sleep on each other for at most seven
days (`OPEN_REST_MAX_MS`).

### FlagsCache

A write and what it signals are one step. `Write` stands for the ticket's writes
(`Comment`, `Propose`, `Decide`, `Close`, `Reopen`, `Postpone`, `Claim`, `Release`),
`Relate` and `MoveTicket` change neighbours, `UpdateConsumer` who is human,
`EditConfig` the claim window, `Tick` the clock. `Read`, `ReadDecisions` and `ReadHeld`
repair their copy for the tickets marked (or rebuild it when more than `MaxDirty` are,
when an expiry has passed or when it was cleared) from the other copies, as the code
nests them. `Answer` is what a read returns, `Fresh` what the board says.

Every ticket is approved, on a level its readers work on, filed by someone else, in a
project they lead; subscriptions, tags, automation rules and levels clear the copies as
a consumer's change does, and are not told apart. The filters of assignee and work, the
gate of an accepted resolution, the writes of another daemon on the same database and a
repair that throws are left out.

### Rename

`Plan` is the read of everything (`planRenameAll`, `planRelocate`), with its refusals
(`Blocked`); then one action per write: `RenameProject` (a transaction), `PatchFile`,
`MoveFolder`, `RenameDirectory` for each of Claude's directories, and for each file
`ReadFile` and `SwapFile` with the compare-and-swap between them; `Finish` on the bus
moves the root the loop pushed. `Crash` stops a run anywhere, `Again` is somebody who runs
it again. Sessions start and write, another project's Claude writes the shared
history, and the folder may be moved by hand.

The plan is read in one step, and so is the last comparison with the replacement that
follows it (a write that falls between the two would be lost: read in the code, not
modelled). `history` stands for `history.jsonl` and `~/.claude.json`. One folder with one
loop; names already taken, invalid YAML or JSON, another filesystem, links, references
and backups are left out, as are the lines a session adds to its transcript after its
directory was renamed, what a loop reports of its project between the rename and the
patch, and the child process that may outlive the daemon which forked it.

## 3. Runs

Every property is preceded, in its module, by a comment saying what it means.
Each is checked against a mutant of the code it guards (`PROJECT.json`,
`mutants`): a variant operator kept beside the definition it would replace,
marked `Variant` in its comment and used nowhere else.

| Run | Bounds | Why they are enough |
|---|---|---|
| `claim_hold` | 2 agents, 1 human, 2 tickets, window 1, protection 1, 2 ticks | two contenders are the most a race over one claim needs, two tickets what "more than one focus" takes; in two ticks a claim expires by one clock and not by the other |
| `thread` | 1 agent, 1 human; threads of 2 messages with all decisions and of 3 without plans, one in moderation at a time beyond the first (`Short`) | every pair of operations in every order, with every moderation; a close, a reopen and the message between them; what a step leads to is checked before the bound cuts it |
| `wake_safety` | 2 attempts, 2 hooks, 1 queued prompt, 1 ping; a prompt and a reload together, every disturbance alone with a flight overrun | overlapping attempts need two slots, and for the same ping one ping and one overrun; a reload over a human's prompt crosses boot, turn and wake machines at every point |
| `wake_liveness` | 1 attempt, 2 hooks, 1 queued prompt; 2 pings with an overrun, a hold, a lost hook, a failed injection or a reload, 1 ping with a compaction, a wake by hand, a revive, or a reload with a prompt or a lost hook | one ping left untyped is a deaf loop, and what a failed injection or a reload consumes does not count: the second must be typed; a second attempt never helps the first |
| `pings` | a person, the agent that files, the one that works; 4 messages, or 3 with one mention, follow, mute, vote, mark or change of focus | the filing, a proposal, its verdict and the close it brings; a reply crossing another's message |
| `posting` | 2 writes accepted, 1 refused, 3 starts of the daemon | a start before, one killed in a post or a drain, one that drains; two writes contend for one drain |
| `wake_head` | 2 tickets, window 2; 2 events of nine families; 2 of four families with a panic and an assignment that moves, or with wakes the proxy refuses; 3 events around an accept | the folding of one ticket, the hint against the head, the grace with what follows it, and one event more than the window |
| `relations` | 3 tickets, 3 relations in force | the guards look one step away: a cycle of three passes through a ticket neither end names; lineage and steps are drawn apart (`Apart`), since neither reads the other |
| `flags_cache` | 2 tickets, 1 reader, 1 person, 3 writes, 3 instants, ceilings 2 and 1, 1 dirty mark before a rebuild | a write, a read that repairs, a neighbour's write and an expiry; every ordering of the three copies |
| `rename` | 2 runs, a folder and a subfolder, 2 transcripts and one to come; one command besides the reruns, with a crash, a session, a move by hand or a foreign write | a run that stops or overlaps another at every write, and every rerun after it |

`CHECK_DEADLOCK` is left on wherever the specification can always step; a cfg
turns it off only where a bound (thread length, clock, starts, commands) ends every
behaviour or where, as in `rename` and `posting`, the work is simply done.

### Fairness

`TicketThread`, `ClaimHold`, `Pings`, `Relations` and `FlagsCache` state safety only,
so their `Spec` has no fairness: nothing obliges a person or an agent to act.

`WakeLoop!Spec` assumes weak fairness of what the runtime owes: timers that are
armed fire, the one-second probe runs, hooks sent arrive, awaits return, the
heartbeat comes where no countdown keeps it out (outside `no_turn`); and of Claude
and the human that a turn ends, a queued prompt is taken, a hold is released. No
fairness for the TTL, for losses, reloads or failed injections, nor for anybody to
ask for anything. `Budgets` says how many times the environment may do each thing,
the TTL firing under an attempt (`overrun`) among them: the case of a run is chosen at
the start. A loop that is reloaded for ever types nothing, so liveness needs the bound.
`WorkIsTyped` asks that the pings be marked and that no typing be left under way.

`WakeHead!FairSpec`: the tempo drains again and again (weak), the keys and the
acknowledgements get through now and then (strong, since a wake may be dropped and
composed again), a grace ends by the clock (weak). `Posting!Spec`: a client sends or gives up,
calls are served, posts end and the spool is drained while the daemon is up, and it
starts again as often as `MaxBoots` lets it die. `RenameSpec`: a run goes on until it ends or
dies, sessions end, and somebody runs the command again.

How far `WorkIsTyped` goes: it holds with any one of the disturbances the run has, and,
with one ping, with a reload over a prompt or a lost hook. It does not hold when two losses
meet while the turn machine is `unknown`, which ignores `TURN_STARTED` and closes no turn
from the pane: the start of a turn has cleared the idle mark, and no wake passes until a
hook comes. Set `LivenessCases` to one of these to see it:

- `{Case(2, 0, {"lost_hook", "lost_inject"})}`: the SessionStart lost, then the injection
  of the first ping; the second waits for ever;
- `{Case(1, 0, {"revive", "lost_hook"})}`: a revive followed by a lost Stop;
- `{Case(2, 0, {"revive"})}` and `{Case(2, 0, {"respawn", "lost_hook"})}`: the kernel
  replaced between the Escapes of a panic and its phrase, which is dropped; Claude is at
  its prompt and no Stop will come, and a submit of the loop's own that was still under
  way clears the idle mark of the session that has just opened.

`RerunFinishes` is of the command that names the old folder (`AgainWay = "given"`). Its
default, the shell's folder, follows a folder that moved (`cli/_helpers.ts:31`), as the
daemon's root does once it was moved; the folder is then not named after the old
project, and the rerun is refused (`project-rename.ts:110`), though the command's own
advice is to run the same command again (`cli/rename-all.ts:77`, `docs/INSTALL.md:425`).
Set `AgainWay` to `"shell"` to see it.

### Disagreements the runs exhibit

Each is a run that TLC must find violated, with one property stating what a
comment or a document of the repository says; `findings` quotes the line.

- `accepted_open`: an accepted resolution whose close is refused leaves the ticket
  open and held.
- `nothing_starves`: a comment that only carried a decision, settled before its wake,
  stands at the head of the queue, renders nothing, is not acknowledged and holds up
  what waits behind it.

Modelling met more of them, which the modules keep as the code has them and no
run spends its time on:

- the auto-claim of a comment takes a claim its holder's activity protects
  (`messages.ts:1157`, against `:1126` and `db/claim-hold.ts:2`);
- `ticket.assign` claims a closed ticket (`db/tickets.ts:366` says claims are of
  open tickets);
- a claim taken over counts as worked on, so two take-overs survive each other
  (`bus/methods/ticket.ts:264`), and it moves whose turn it is
  (`bus/methods/ticket.ts:300`);
- a proposal approved after its author's step holds the ticket (`db/messages.ts:1829`,
  against `docs/TICKET_LIFECYCLE.md:89`);
- a verdict through `message.promote` moves nobody's turn and settles a replaced
  decision (`docs/TICKET_LIFECYCLE.md:166` and `:168`);
- an approved reopen leaves the other proposals pending (`close-cleanup.ts:65`);
- a comment with a settled decision can be deleted (`bus/methods/message.ts:96`);
- an approval that comes after the author's next message is pruned or not by its
  number, not by when it became visible (`messages.ts:1196`);
- rules that let an agent's own events through are answered by rules that keep them
  from waking it (`notifications.ts:246`);
- some callers leave the claims of others out of the context the waking rules read, so
  `claimed-by-other-unless-mine` is silent for them (`db/pings.ts:663`);
- a post that fails between the message and its key is posted again by its replay
  (`bus/methods/message.ts:325`, against `client.ts:337`): the exception of
  `OnceUnlessBroken`;
- a turn begun during boot and compacted loses its end for the session join, and the
  session stays closed with no turn open (`claude-loop/turn-machine.ts:184`, against
  `kernel.ts:2593`);
- a change of who is human clears the flags and leaves the tickets held by humans as
  they were for up to a minute (`db/consumers.ts:389`, against `db/flags-cache.ts:39`):
  the exception of `ReadsAreFresh`.

## 4. Proofs

The proof modules prove their theorems for any consumers and tickets, any durations
and thread length, any wake attempts, bounds and budgets, from the named
assumptions of the modules alone (agents and humans are disjoint, the null
values are not members, durations and bounds are naturals, there is a slot for an
attempt). Each module has its theorems in a module named after it, but for `Posting`
and `Rename`, the two commands of several writes that may be cut short and are then
given again: `PostingRenameProofs` extends both, for which `Rename` prefixes the names
every module has (`RenameInit`, `RenameNext`, `RenameSpec`, `RenameTypeOK`).

- *ClaimHold*. The properties are not inductive by themselves: "a message landed
  before the claim" could be about a message of the future. The invariant adds
  that no recorded instant is later than the clock; with it each action preserves
  the one-focus, assignment and protection properties separately. `NoTheft` is an
  action property: it follows from the guards of each action and type correctness.
- *TicketThread*. `TypeCorrect` first. Then `ClosesLandClean`: every approved close
  of the thread was posted by the reporter or a human, and no reopen posted before
  it is still pending. That is inductive where the two statements readers want are
  not, since "no stale reopen is approved" is about a later step.
  `ClosesAreAuthorized` and `ReopensAreFresh` follow from it, and `ClosesHold` is both.
  `SettledIsFinal` is proved through an `Evolves` relation between a thread and its
  successor: messages are only appended, and a decision changes only while pending.
  `GateIsRight` is an invariant of any thread of messages, whatever steps led to it: by
  the well-foundedness of `<` there is a least length at which the replay and the
  latest signal would differ, and the message added there does not make them differ.
  `HeldIsDecidable` starts from the same closed form of the gate: the signal that holds
  it is the thread's latest decision, the one `message.decide` finds.
  `StepKeeps` and `HumanWordReturns` come from what a step and a plain comment leave
  of the gate (their last message closes it) and of the last actor.
- *Pings*. The properties of a step are not about what it says of its own message but
  about everything it leaves in place, so each action is shown to satisfy one predicate,
  `Stepped`: messages keep their author, a status moves only by approval or by a
  rejection that takes the pings with it, a new ping is one its recipient may have, no
  unread ping of an agent is lost but with its message (`Grown`); all the new pings of a
  consumer are on one message, but on messages it wrote itself (`OneEach`); what a post
  marks read is not younger than its author's message before (`Replied`); of the two
  messages of an acceptance each follower hears one (`Tells`). `Grown` preserves the
  invariant `TypeOK /\ QuietUntilApproved`, and the six theorems are read off the rest.
  `DecidedAs` and `ClosedAs` say once what a verdict and a close do, for the three
  operations built of them. No bound on messages or gestures is used. `UnreadOutlives`
  holds of the closer's own pings too.
- *WakeLoop*. One inductive invariant, in six parts by what they are about (wake
  machine, turn machine, marks, session, boot, environment), one lemma per handler.
  What it adds to the properties: the session opens only after boot, and no attempt
  outlives or precedes it; without the first, a reload during boot could restore an
  open gate into a closed session, without the second a ping could be typed by an
  attempt of the former kernel. `WaitsEnd` is `InFlightOwned` and `TimersArmed`
  together. `DeliversSafely` maps each step to a step of `WakeDelivery` or a stutter.
  Each step first has one of nine shapes by what it does to attempts, pings and session
  (`StepShape`); `PingsHold` adds what the typing of a ping needs to know, that the ping
  in an attempt's hand is unread, an attempt that outlived its flight excepted; then
  each shape is a step of the promise (`ShapeDelivers`): a second attempt begins only
  under a late one, an attempt begins to type by consuming an unread ping, and one that
  types without (a late one, or one asked for by hand) is what the promise allows it to.
- *Relations*. Both properties say of every set of tickets that one of them points out
  of it, which needs no induction along paths. Removing edges keeps that, and so does
  one new edge whose source is not on the walk from its target (`OneEdgeMore`), which
  is what the two guards ask; the lemmas then say, action by action, which edges come
  and go. `StepsNeverSleepInARing` also needs that no step names a closed ticket
  (`NamesOpen`), else a reopen would bring an edge back.
- *FlagsCache*. `ReadsAreAlwaysFresh` is not inductive: a read repairs the flags from
  the other two copies. The invariant says of each copy that, while it lives, what it
  holds of every ticket it does not mark is what the board says until the copy's first
  expiry (`HandOK` of the held, `DueOK` of the decisions, and, while the configuration
  is the one last seen, `FlagsOK` of each reader's). Each write is then shown to mark
  all it changes, neighbours included, and `Tick` to pass no expiry unnoticed.
- *Posting*. The invariant says of each write that, unless its author's spool was given
  up, it has at most one copy, and a copy only when its key is stored or its first post
  is still under way; that what has a key is in the thread and what was refused never
  is; that what authors were told is so; and that the directory and the listing of a
  drain name each file once, that of a write still queued (`Stored`), without which a
  replay would remove another file than the one it posted.
  `LandsOnce`, `TypeCorrect` and `AnswersHold` follow. `OneFateSafely` is the safety of
  the refinement: each step maps to a step of `ExactlyOnce` or a stutter.
- *WakeHead*. The invariant ties the wake being composed to what it will mark: the id
  acked is of an event rendered or bare, the extra ids are of its lines, and all are of
  one ticket. That is made at the composition and used at the mark, whatever arrived
  between. `NothingReadUnseen` and `NoGlue` follow. `FollowUpsRideAlong` needs to know
  of a wake that brings an accept that every follow-up is either in it or crowded out
  (`Carried`), which rests on the window: it is cut at the head of the queue, it holds
  the head, and one that leaves an event out is full (`WindowIsFull`, by cardinality).

- *Rename*. `FinishedIsWhole` looks at a run that is over; the invariant follows it
  there. `Behind`: what a run has passed is done (past the move the folder is at the new
  path, past the patch the file names the project), and no other run or session undoes
  it. `Ahead`: while nothing has crossed a run, no session is open, every directory still
  at the old path is in the rest of its plan, and so is every file that records that path
  unless a file was skipped. With the plan used up, the second says that nothing is left.
  `Reachable` says why a run never rewrites a transcript whose directory still waits, and
  that is what keeps `Traced`: a directory at the old path has transcripts that say so, by
  which a second plan knows it. `Said` keeps the claim true after the run: the session
  that is open, if any, was not started at the old path. Most steps only go onward
  (`Onward`) and leave the other runs alone, so one lemma (`AlikeStaysSound`) does for all
  of those runs; a session that starts and a move by hand mark the runs they cross.
  From the same invariant, `RenamePlanMissesNothing`: wherever runs stopped, the next plan
  finds all that is left, which is the safety under `RerunFinishes`.

Several of these need the least element of a set of naturals with a property: the head
of a queue, the first message at which a replay goes wrong, the last message of an
author. The library's induction theorems cannot be used (they take a predicate as
parameter), but its well-foundedness theorems speak of sets: `WFMin` with
`NatLessThanWellFounded` gives the least element, and with it a proof by least
counterexample.

The proofs changed the modules here and there. The arms of `Fate` overlapped, so that
its `CASE` left open which of two fates a write had: it is a chain of conditions now.
`UnreadOutlivesTheClose` excepted the pings of the message's author, which the proof
does not need, and no longer does. `Rename` did not say that the plate and the prompts'
history are no transcripts, without which `Traced` fails: it is an assumption now.

Every invariant and every action property the runs check is stated by a theorem. Only
model-checked is liveness (`WorkIsTyped`, `TurnsClose`, `EveryEventIsTold`,
`RerunFinishes`, the fairness of `OneFate`), which is out of TLAPS' reach.

## 5. What is not modelled, and the plan

Next, in order of what the product depends on:

1. `Backlog`: tiers, cooldown and `WaitCredit` (its arithmetic against a reference
   definition, the bound of the balance as a theorem), with autopoll on top.
2. `Board`: the composition of `TicketThread`, `ClaimHold` and `Pings`, so that the
   step gate and the last actor are judged together.
3. The services: automation (rules whose actions raise events), cron, the session
   registry, subscriptions and the relay to a hub, the rename of an agent, supervisor
   restart.
4. The loop's smaller machines: afk, typing, sanity, health check, error backoff, and
   the countdown with the heartbeat's overdue rule.
5. The rest of the inbox aggregation, whose per-ticket flags are computed from the
   sets `FlagsCache` follows.

Not planned: the HTTP, CLI, MCP, web and desktop fronts (no state of their own:
each calls the same bus methods), the terminal's scraping and key encodings, the
translation of tracker formats, text search, migrations and file backups.

Hazards with no property are in `PROJECT.json` with the reason. In most the code has no
guard, and the property next to it makes an exception of the case, or the run leaves it
out: a claim only one clock protects, a claim made after the close, the post that breaks
before its key, the backfilled lineage, the hand of a person who has just become one,
two losses that meet in `unknown` and the turn compacted during boot, the rerun that
looks for the folder by its name. A cache repair that throws is left out of the model.
