# pyBulletin in TLA+

pyBulletin is a packet-radio bulletin board: stations reach it over AX.25 (a KISS
TNC, a sound-card modem, a PACTOR controller), telnet or the web, read and leave
messages in an SQLite store, chat in conference rooms, and neighbouring boards
exchange messages with it by the FBB forwarding protocol. This directory holds
TLA+ models of the program in `src/pybulletin`, the TLC configurations that check
them, and machine-checked proofs about them.

`PROJECT.json` lists the components, the runs, the map from definitions to source
lines, the hazards of the code and the theorems. This file explains them.

To run a check or a proof:

    tlc -workers 2 -config AX25Data.cfg AX25Link
    tlc -workers 2 -config Services.cfg Services
    tlapm AX25LinkProofs.tla

Paths below are relative to `src/pybulletin/` of the repository.

## 1. Inventory

The code runs in one of two ways. `pybulletin serve` (`cli.py:546`) has telnet, AX.25,
the conference, the scheduler and the web in one asyncio loop, and hands the conference
to the web (`cli.py:570`): only then are browsers in its rooms. The systemd units
start `serve-core` and `serve-web` (`cli.py:268`) as two processes instead, and the
web has no conference. Beside either run the forwarding timer (`run-forward`) and the
daily retention script, each a process of its own. Processes share one SQLite
database and nothing else. Inside a process tasks interleave only at an `await`
that really suspends.

| Component | State | Operations | Talks to | What is hard |
|---|---|---|---|---|
| AX.25 connection `ax25/connection.py` | state, V(S) V(R) V(A), retry count, frames held, send and receive queues, T1, T3 | connect, disconnect, write, read; a handler per frame type; timer expiry | router (frames), session (data) | loss, duplication by retransmission, a second SABM, timers that race late answers, window wrap |
| AX.25 router `ax25/router.py` | tables of connections, session tasks and ports by callsign | handle_frame, _handle_sabm, _run_session, _cleanup | connection, session, KISS link | callbacks and cancelled tasks that outlive what they belong to |
| Stream adapter `ax25/stream.py` | line buffer, pending bytes | readline, readbytes, drain | connection, session | end of stream in the middle of a line |
| Frame codec `ax25/frame.py` | none | decode, encode | router, KISS | byte layout |
| Beacon `ax25/beacon.py` | timer | send a UI frame | router | none |
| HDLC, AFSK `ax25/hdlc.py`, `transport/afsk.py` | bit and sample buffers, a queue of frames, the PTT line | modulate, demodulate, frame, key and release | router | bit stuffing, clock recovery, a thread that keys the transmitter while its task is cancelled |
| KISS `transport/kiss*.py` | receive buffer, socket or serial port | decode_stream, encode, reconnect | router | frames cut by the end of a read |
| PACTOR `transport/pactor.py` | host-mode link | poll, send | session | proprietary hardware |
| Forwarding `forward/session.py`, `protocol.py`, `sid.py` | position in the session, proposals, what was accepted | run_outgoing, run_incoming | store, neighbour board | two ends in step, a broken connection between transfer and record, duplicates, loops |
| Scheduler `forward/scheduler.py`, `cron.py`, the loop in `cli.py` | when the loop wakes | run what is due | forwarding | minutes that pass while a session is on |
| Message store `store/store.py` | messages with status N, Y, F, H, K; BIDs; forward paths; read marks | insert, mark_read, kill, hold, release, mark_forwarded, append_forward_path, purge | engine, web, forwarding, scripts | three processes write the same rows |
| Users and other tables `store/store.py` | users, preferences, white pages, neighbours, files | full-row upsert, set_* | session, engine, web | lost updates of a row read earlier |
| Command engine `command/engine.py` | the session's copy of its user, paging | 60-odd commands | store, conference, YAPP | what was read before a prompt is written after it |
| BBS session `session/session.py` | login state, user | banner, authenticate, command loop | engine, transport | an end of input that looks like an empty line |
| Telnet `transport/telnet.py` | active clients, IAC parser | accept, readline | session | input cut anywhere, a time limit that cancels a session once |
| Conference `transport/conference.py` | rooms, participants, a bounded queue each | join, say, switch, leave | engine, telnet, AX.25 | full queues, ends of input, leaving twice |
| YAPP `transport/yapp.py` | transfer state | send, receive | engine, stream | any byte acknowledges, a damaged length, texts between the halves |
| Web `web/*.py` | web sessions, WebSocket clients | REST handlers | store | cached rights, check-then-write |
| Configuration, strings, addresses, policy, CLI | read-only | parse | all | none at run time |
| Scripts, deployment, `vendor/lzhuf.py` | files | administration, daily retention | store | retention deletes rows that others have in hand |

What makes each correct, in one line:

- connection: each end reads exactly what the other wrote, in order, until the
  link is seen to fail; nothing waits for ever; going down wakes whoever waits;
- router: a station that is connected is served by one session, its own; a session
  that ends releases its link;
- forwarding: a message reaches each neighbour it is meant for, at least once and
  stored once, and never goes back along its path;
- store: a killed message stays killed, a held one is not sent, a read mark does
  not stop a message that has still to be forwarded;
- users: a change made by the sysop is not undone by a session;
- conference: who is in a room gets its lines in order, and a room without
  participants goes away;
- framing (KISS, telnet, host mode, HDLC): what is decoded does not depend on where
  the input is cut;
- file transfer: a file is stored whole, and both ends say the same of it;
- transmitter: it is keyed while a frame is sent and at no other time;
- scheduler: a neighbour is called in each minute its schedule names, and once.

The hazards of each, with the line where they bite, are in `PROJECT.json`; four have
no property, and say why. Several of the promises above do not hold as they stand:
the properties say exactly what does hold, and section 3 lists the differences.

## 2. Modules

    AX25Conn  <- AX25Link  <- AX25LinkProofs  <- AX25DataProofs
                 AX25Link  -- implements -->  ReliableLink
    AX25Router <- AX25RouterProofs
    ForwardSession <- ForwardProofs
    Mailbox <- MailboxProofs
    Accounts <- AccountsProofs
    Conference <- Services, which also composes Streams, Yapp, Transmitter, Schedule;
    Cron <- Schedule
    Conference <- ConferenceProofs;  Services, ConferenceProofs <- ServicesProofs

Mailbox, Accounts and ForwardSession share the database in the program. Accounts is the
users table and the white pages, Mailbox the messages table: no transaction writes both.
Forwarding is seen twice. ForwardSession has the conversation of two boards line by line,
with a store each that nobody else writes; Mailbox has the neighbour as a choice of
answers and everything else that happens to the table meanwhile.

### AX25Conn: one end of a link

A connection is a record with the fields of an `AX25Connection` object. The
module has no variables: it defines, as operators from a record to the next, what
the handlers of `ax25/connection.py` do to the object, and which frames they put
on the air. `Reset` is `_reset_counters`, `UpdateVA` is `_update_va`, `Pump` and
`PumpFrames` are `_pump_tx`, `Retransmissions` is `_retransmit_from`, and so on.

Abstractions:

- A *chunk* is what one I frame carries (`paclen` bytes), named by its position in
  the stream since the counters were last reset. `write()` cuts its argument into
  chunks. `write(b"")` would queue one empty chunk (`connection.py:161`); no caller
  does it, so every chunk of the model has at least one byte.
- `_tx_queue` is the number of chunks that wait. The reader's queue `_rx_queue` is
  the history `rcvd`: the reader takes from it in order and nothing else does.
- `t1` and `t3` say whether the timer task is pending; how long it sleeps is not
  modelled, so it may fire at any moment.
- `sent`, `rcvd`, `inc`, `sabm`, `progress` and `woken` are histories. No handler
  reads them; the properties do.
- A handler is one step. Its awaits are `drain()` of the link to the TNC, which
  does not suspend below the high-water mark of the socket buffer, and a `put` on
  an unbounded queue, which never suspends. `_stop_t1` called from inside the T1
  task cancels that very task; no await that suspends follows, so nothing is cut
  short.

### AX25Link: two ends and the path

`conn[s]` is station `s`'s connection, `air[s]` the frames it has sent that its
peer has not received. The path keeps order and may lose any frame (`Lose`); a
frame sent when `MaxAir` frames are under way is lost. There is one action per
handler and case of its dispatch: `HandleSABM` ... `HandleREJ`, `RefuseI` (an I
frame for an end that is not connected is answered with DM), `IgnoreS`; one per
branch of `_t1_expire` and `_t3_expire`; and `Connect`, `Disconnect`, `Write` for
the public interface. Both stations run this program. `ForeignRNR` adds the one
frame a peer of another make may send that this program never does, a receiver
not ready: `_local_busy` is never set here. `Connect` stands for `connect()`,
which the deployed board does not call but the class provides; `Callers` says who
uses it.

### ReliableLink: what a link promises

`up`, `sent` and `got`, and four actions: the link opens with nothing read,
closes, or one end hands over more and reads at most the next chunk that the
other end has sent. AX25Link implements it under the mapping `Service`: the link
is up while `Clean`, that is while both ends are connected and count from the
same exchange of SABM and UA. When a SABM is repeated while the answer to the
first is under way, the two ends may each be connected and yet have reset their
counters at different moments. AX.25 has no way to tell, and no promise is made
then; `inc` and `sabm` record which SABM each end last counted from.

### AX25Router: connections come and go

The life of the connections of one remote station: the tables `_connections` and
`_session_tasks` (`table`, `sessTask`), each connection's state, and its session
task, which is running, cancelled but not yet resumed, done with its callback
still to run, or reaped. A frame touches only the entries of its sender, so one
station is enough. `SabmAgain` and `SabmNew` are the two halves of
`_handle_sabm`; `Finish` and `Cancelled` are the two ways a session comes to the
finally clause of `_run_session`, which is `Release`; `Cleanup` is the done
callback. The connection is reduced to its state and its DISC retries: sequence
numbers are AX25Link's subject, and a connected link may fail at any time
(`LinkFailure`) and transmit at any time (`Transmit`). A session whose link goes
down reads an empty line, takes it for a blank one (`session/session.py:315`) and
waits: only a line that ends the session or a cancellation ends it. The remote
station is of any make: it calls, says BYE, hangs up, or vanishes without a word.

### ForwardSession: two boards exchange messages

One connection after another between a calling and a called board. `sess[e]` is
the position of board `e` in `ForwardSession._run` with its proposals, the
accepted ones still to be sent, and the other's proposals; `store[e]` and
`path[e]` are what its store says of each message (absent, N or F, and the boards
in its forward path); `wire[e]` the lines on the TCP connection. Each action is
one stretch of `_run` between two waits: `ReadSID`, `AwaitPrompt`, `Propose`
(selection and all proposal lines), `ReadAnswer`, `HearProposal` and `HearOther`,
`Respond`, then `Send` and `Record` per accepted message, `Receive` and
`AppendPath` per expected one, `Finish`. Transfer and record are two steps, and so
are the insertion of a message and its path, because a process may die in between.

`_readline` answers both a timeout and the end of the input with an empty line,
and every phase but two goes on with it. So `Heard` is an empty line whenever
nothing is on the wire: the timeout may come at any time, and the late line is
then read in a later phase. `flawed` records that this happened, or that the
connection broke (`Cut`, with any prefix of what was on the way still arriving),
or that a board died (`Crash`).

A write ends when the other end has read enough for `drain()`, which has no timeout
(`session.py:292`, `:370`). `Writing(e)` says that the next step of `e` puts a line on
the connection; `FairSpec` assumes nothing of such a step, and `SessionEnds` says of a
session that it ends or waits for a write for ever. The loops that skip lines before
the prompt (`:157`) and read proposals (`:198`) have no bound either; a neighbour that
never stops sending lines is not in the model.

`Peers` says which ends are foreign. A foreign end takes the same steps but for
the order: it hears the other's proposals out, answers them with an FS line, and
then makes its own. This is the session flow that `forward/session.py` documents
for its remote. Messages are bulletins in a category both boards list; their size
only says whether they are refused. Enabling the B2F or B1 encoding changes the
bytes of a block, not the steps.

### Mailbox: one messages table, three processes

`rows` is the messages table of `store/store.py`, `lastId` its number sequence,
`writer` the process that holds SQLite's write lock between two transactions. The
actors are, in the core and in the web process, a client for each user and a
forwarding session; the retention job is a process of its own. `task[a]` is where
actor `a` is between two transactions: what it is doing, the numbers it has still to
look at, the message in hand with what it remembers of the row.

One step is one transaction. Inside a process a task goes on until it waits for the
network: `Unbroken` lists the stages that do not wait, and `Runs` keeps the other
tasks of the process out of them. The other processes come in between any two
transactions.

| Action | Code |
|---|---|
| `next_message_id`, `generate_bid`, `Insert` | the three transactions of `insert_message` |
| `ReadPath`, `WritePath` | the SELECT and the UPDATE of `append_forward_path` |
| `Compose`, `SendMessage`, `PageSysop` | S, SP, SB, ST; the web's form; T |
| `Command`, `Continue`, `Operate` | R, K, SC, RP, EM, ED, MOVE and their web requests: `get_message` and the checks, then an update that trusts them |
| `ReadAll`, `KillMine`, `KillKind`, `KillBulk` | RA, KM, KK: a list, then each of it |
| `ForwardDrop` | FD |
| `SysopHold`, `SysopRelease`, `HoldRelease` | SH, SR, the web's hold and release |
| `Select`, `Exchange`, `Send`, `Mark`, `Receive`, `CloseLink` | `forward/session.py` against the table, run by the scheduler, the F command or a request |
| `Break`, `DatabaseLocked`, `Crash` | a lost connection or a cancelled task; a write that waits too long for the lock; a process that dies |
| `cleanup_expired`, `Tick` | `scripts/cleanup_retention.py`, days |

An INSERT that violates the UNIQUE constraint raises after SQLite has begun a
transaction, and nothing rolls it back: `Insert` then leaves the lock with its
process until that process commits something else, and the writes of the others
fail meanwhile. That is what `writer` is for.

Texts, subjects and read marks' times are left out; so are the filters of lists that
only combine columns, and what statistics count.

### Accounts: rows that are written as a whole

`users` is the users table, `wp` the white pages. `term[s]` is a terminal session
with the copy of its user's row taken at login; `web` the tokens of
`web/auth.py` with the privilege of the moment of login and the time that is left;
`req` a web request between its look and its write. `upsert_user` writes every
column, whatever the writer meant to change; `differs` records which sessions' copies
somebody else has overtaken.

`Attempt`, `LoginReads`, `LoginWrites` are `_authenticate` and `record_login`;
`SetName`, `SetProfile`, `SetOption`, `ChangePassword` the user's own commands (N, NH,
NL, NQ, NZ, NB, X, O), whose write may fail and leave the session with the changed
copy; `EditUser`/`EditedUser` and `EditPages`/`EditedPages` the sysop's dialogues EU
and IE, with all that can happen between question and answer; `Login`, `Logout`,
`Prune`, `Refused`, `SetPrivilege`, `DeleteUser`, `CreateUser`, `ResetPassword` and
`RequestWrites` the web. A column is `priv`, `pw`, `name` (which the white pages
repeat) or `rest`, every other column a user sets.

Left out: the second factor of a web login, the mail it sends, user preferences and
startup commands (single statements that nobody reads in order to write).

### Conference: rooms and their clients

`net.hub` is `_rooms`; each client has a bounded queue. A step goes from one
suspension of a task to the next. A terminal's task is at the prompt, in the welcome,
waiting (`wait`, where `_run_loop` waits for a line of the queue or of the input),
awaiting the task it has cancelled after one of the two came (`reap`), sending a line
(`text`), echoing, or saying goodbye (`goodbye`, or `thrown` while an exception goes
on through the `finally`); a browser is connected (`open`) or in a room, and a task
drains its queue (`Drain`). A terminal's session can end in most of those places: by a
command, because a send raises (`Breaks`), or cancelled when its time is over
(`Cancel`). At `reap` the cancellation is taken for that of the task awaited and
swallowed (`conference.py:233-238`): `wreck.deaf` are the sessions that lost theirs so,
and they get no other. A caller of the AX.25 router is served by the same code, without
a limit and without a timeout: it is cancelled only when its station calls again.

`MembersArePresent` says what of this leaves the rooms right, and `wreck` records
the two places where it does not: a participant whose welcome failed stays listed
(no `finally` guards the welcome), and a room is not removed if the farewell failed.

What /W and /L print is left out. At the end of input a terminal reads empty lines
without end; the model has that as a loop of `Wakes` and `Reaped` that only `Cancel` or
`Breaks` ends.

### Streams: what decoders make of a stream that is cut anywhere

The other end sends units (a line end, text, a command, a frame); a read returns any
number of the bytes under way. `Decode` is one read's work: `Process` and
`ExtractLine` for telnet, `AX25Line` for AX.25, `DecodeStream` and `Unescape` for
KISS, `DecodeHost` for PACTOR's host mode, `ExtractHdlc` with `Stuff` and `Unstuff`
for bits on the air. What is handed on is compared with what was sent, told from the
units alone (`MeantLines`, `Framed`): a definition that knows nothing of bytes and
reads. Option commands have three bytes, WILL, WONT, DO and DONT alike. `cut` records that a read ended inside a unit; a KISS frame and a telnet
command that are cut are indeed lost or taken for text, so those promises are made
for reads that do not. A KISS frame with a bad escape is dropped whole.

That a frame comes back from its encoding is proved for every input (section 4). The
KISS proof found the one exception: the type byte is not escaped, and that of a data
frame on port 12 is FEND, so the decoder takes the frame's first byte for the type.

The FCS is taken as ideal. Left out: the answers to telnet options and the window
size, the limit on a line's and a buffer's length, and which KISS port a frame came
from.

### Yapp: a file transfer with both ends

`sender` and `receiver` are where `send_file` and `receive_file` wait, `forth` and
`back` what is on the way between them. The board runs one half in a session of the
command engine: `send_file` for YG, `receive_file` for YU. The other half is the user's
terminal program, external to the repository: it takes the same steps, but as a receiver it
waits for the announcement and as a sender for `(ok)`, and it skips the lines before.
`yapp.py` at both ends would not do: `send_file` always announces, `receive_file` never
reads an announcement, and `send_file` takes the first line it reads, which for YU is
blank (`engine.py:1901`), for a refusal.

What the engine sends around the transfer is on the same wire. `greeting` are the lines
before the transfer and `text` those after it (`Told`): "Upload aborted or failed"
reaches a sender that still waits, which takes each byte for an acknowledgement
(`HearAck` reads one byte and may leave the rest). A terminal program says nothing of
its own, but its user may type when its half is over (`Types`).

`Damage` strikes anything on the way. How a damaged frame is read is a choice among
`Readings`: its first byte is no SOH (`noise`), its length reads zero and the file ends
there unchecked (`end`), too short (`cut`) or too long, so that what comes after it is
taken for a part of it (`more`), its checksum is wrong (`wrong`), or right by chance
(`unseen`). Where a frame is read short, one `Rest` stands for the bytes left over. Each wait may run
out, and the LF of a command line that ended in CR LF may come late and be the first byte
the transfer reads (`stray`).

`trouble` records what disturbed a transfer, and the properties name what each trouble
may break: a stored file is whole unless a length was read as the end or a checksum
missed the damage; success told is a file stored unless something was mistaken for
an acknowledgement; while nothing but detected damage happens, both halves tell the same
and none waits for what will not come. "Returns True on success"
(`yapp.py:135`) holds no further than that: see section 3.

### Transmitter: who holds PTT

The task `_tx_loop` of `transport/afsk.py`, the thread that keys for it, and the
stopping of the link. `keyed` is the task's variable, `ptt.on` the transmitter,
`ptt.open` the port or pin the control holds; three kinds of control differ in what
they hold and what closing does. The cancellation of a task does not stop the thread
it waits for: `ThreadOpens` and `ThreadKeys` go on beside `Cancelled` and `Close`.
Left out: the samples, the recording half, and the moment at which opening a serial
port raises RTS by itself.

### Schedule and Cron: the minutes of the forward scheduler

The loop of `serve-core` sleeps, passes over the enabled neighbours and holds a session
with each whose schedule matches the minute it is *by then*; `Advance` lets time pass
while it sleeps or a session is on, and lets it wake late. `Matches` here, and
`Field` and `Verdict` of Cron, are `forward/cron.py` with its short circuits: the first part that matches,
the first field that does not, and an error on the way. `Meant` is the grammar at the
head of that file. An expression has three fields where the code has five: the minute,
the hour, and the day of the month, which counts from 1, so that its steps do too. The
month is treated like the day and the day of the week like the hour. The head of the
file says of a step "from 0"; for days and months the code takes it from 1, and `Meant`
follows the code. `Expressions` is a constant, any set of lists of fields of `CronParts`;
the run takes `Examples`. The minutes of a run lie in one month.

`pybulletin run-forward`, which a systemd timer starts, makes the same pass in another
process. It is not in the model: a neighbour that both have in hand in one minute is
called twice. What two sessions do to the messages is in Mailbox. `next_run_minutes`
is called nowhere and left out.

### Services: the five that share nothing

Conference, Streams, Yapp, Transmitter and Schedule have no variable in common, so
what holds of each alone holds of all. `part` says which one runs in a behaviour; the
others stay in their initial state. One run then asks all five their questions without
multiplying their states.

## 3. Runs

All cfgs turn the deadlock check off: with the bounded calls spent and nothing on
the air, a quiet station is a legal end.

| Run | Bounds | What it shows |
|---|---|---|
| `ax25_data` | Mod 3, Window 2, 1 retry, 2 frames per direction, 1 call, 3 chunks | the window closes, the numbers wrap, any frame is lost or repeated: nothing is forgotten before it has arrived, the frames held are the window, and the link implements ReliableLink |
| `ax25_reconnect` | the same, 2 calls, 2 chunks | with frames of the first call still on the path, a clean link delivers a prefix of what was framed |
| `ax25_live` | the same, 1 call, 1 disconnect, 1 chunk, 1 RNR, fair timers | data arrives or the link is seen to fail; calls and releases end; teardown leaves no timer and no blocked reader; who waits has T1 pending |
| `ax25_retry` | 1 call, 2 chunks | *violated*: see finding 1 |
| `ax25_keepalive` | 1 call, 1 disconnect, fair timers | *violated*: see finding 2 |
| `router` | 2 calls, 2 hang-ups or disappearances, 2 frames per direction, 1 retry, fair tasks | who is listed as connected is served; a cancelled session has nothing to release; no session ends with its link up; goodbye is carried out |
| `router_stale` | 2 calls, 1 hang-up, 1 frame per direction, 0 retries | *violated*: see finding 3 |
| `forward` | 2 sessions, 2 faults, 4 messages: one on both boards, one too big; one end foreign, in either role; fair sessions | a message is marked forwarded only if it was asked for; nothing is sent to a board that has it; an undisturbed session delivers; every session ends or waits for a write |
| `forward_pair` | 1 session, no faults, 1 message, both ends this program | *violated*: see finding 4 |
| `mailbox` | 2 processes and the retention job, the sysop and a user, 1 neighbour, 2 commands or sessions, 1 crash, 3 numbers, 2 BIDs an author, 1 day | BIDs and numbers stay whose they are; what is marked forwarded bears the node in its path; a kill stands however late the read mark comes; nobody is offered what it has; every event loop is given back |
| `accounts` | 2 terminals, 1 web token, 2 callsigns, 2 changes, 1 failed write, passwords required or not | nobody is sysop whom no sysop made one; a session's copy is the stored row unless overtaken; every account keeps a password; web sessions end when they should |
| `services` | conference: 1 terminal, 1 browser, 2 rooms, queues of 1, 2 entries, 2 lines said, fair cancellation; 3 units for each of 7 decoders; files of 0 to 2 blocks, 2 things damaged; 2 frames, 3 kinds of PTT, 2 failures; 2 neighbours, 5 minutes of 2 ticks, 2 minutes an hour, 2 hours a day, 1 late tick | rooms list who is there and lines are heard once and in order; whoever is gone is forgotten, unless the one cancellation was swallowed; decoders do not depend on where reads end; files arrive whole, both ends agree, and neither waits in vain; PTT is let go; neighbours are called when due and once |

**Why these bounds are enough.** What go-back-N can get wrong depends on the
distance of sequence numbers, with `Window < Mod` the condition under which it
works. Modulus 3 and window 2 has the code's relation (window = modulus - 1), the
narrowest margin there is, and three chunks wrap the numbers and fill the window
with one chunk waiting. Two frames per direction allow a stale acknowledgement
behind a fresh one, and a frame and its repetition under way together. One retry
separates the first expiry from the last. Two calls are what it takes for frames
of an old link to meet a new one. For the router, two connections of the station
are the old and the new; a third repeats the relation between them. For
forwarding, two proposals from one end tell the position of an answer, and a second
session meets what a broken first one left in the stores.

For the mailbox, what goes wrong needs two tasks and the order of their transactions:
two are enough for every pair of commands, sessions and the retention job, in one
process or in two. Three numbers leave room for a message that is there, one that is
composed and one that comes in; two BIDs an author (the code has a hundred) let them
run out; a day is enough for retention periods of none and one to differ. The letters
composed are personal ones for another board, which every operation can meet: the
categories differ only in who may read and when they expire. For the accounts, an
overtaken copy needs its owner and one other writer, and a second change shows what the
old copy restores. The conference needs two rooms to switch, a full queue and an entry
after another; a terminal and a browser take all of its code, and that nothing changes
with more clients of either kind is proved (`Listed`, `HeardWhole`). A decoder's state at the beginning of a unit does not grow with the
number of units before it: with three, a damaged one has one on either side. In five
minutes of the scheduler a session can begin late, last over a minute's end, and be
followed by one that is on time; with two minutes an hour and two hours a day, five
minutes reach a second hour and a second day. Two blocks and the EOF frame are a first,
a middle and a last frame of a transfer, and with two things damaged an answer may be
damaged after the frame it answers.

**What the window properties leave out.** They are checked on one call. After a
second SABM an acknowledgement of the old link may arrive, N(R) is not compared
with V(S) (`connection.py:397`), and V(A) then passes V(S). The window seems full
until T1 gives the link up; no data is corrupted (`ax25_reconnect`). The hazard is
listed in `PROJECT.json`.

### Findings

1. **The retry count measures the life of a link, not a silence.**
   `_update_va` does not reset `_retry_count` when a frame is acknowledged; only a
   new link does. `connection.py:47` calls the limit "Maximum retransmit attempts
   before declaring link failure". A link that loses a frame now and then and
   recovers each time is given up at its eleventh expiry (`FailsOnlyAfterSilence`).
2. **A keep-alive that never gives up.** `connection.py:462`: "Send RR poll to
   check if remote is still alive". With nothing outstanding T1 repeats the poll
   without counting it, so an end whose peer is gone stays connected for ever
   (`GonePeerNoticed`).
3. **The clean-up of an old session removes the new connection.**
   `router.py:72`: "Active connections keyed by remote callsign string". The done
   callback removes whatever is listed under the callsign. A station that calls
   again after its link went down gets a new connection and a new session, the
   cancelled one ends, and its callback pops the new entry: the link is up and
   not listed, so the station's next frame is answered with DM (`ActiveIsListed`).

4. **Two boards that run this program never exchange a message.** The session flow
   in `forward/session.py:12-15` has the remote answer our proposals before it makes
   its own. Both roles of `_run` make theirs first and take the next line for the
   answer; between two such ends that line is the other's first proposal or its FF,
   and nothing is granted on either side (`UnbrokenDelivers`). The called role meets
   any caller that way that begins with its proposals, as `session.py:167` expects it
   to.

### Other differences between code and comments

The runs that end in a violation are the four findings. Modelling the rest showed
more places where the program does something else than it says, or than one would
expect. The models have this behaviour, and the properties are stated so that it is an
exception they name, or are about something else:

- `store/store.py:362`, `:369`: the suffix of a BID is cut to the field's length, so once
  an author has used the 100 BIDs of a period the search never ends, and with it the
  process (`EventLoopReturns` names this case).
- `store/store.py:391`: an INSERT that fails leaves its transaction open; the process
  keeps the write lock, and the other processes' writes fail, until it commits again.
- `store/store.py:487-495`: a read mark turns H and F into Y, so a held message that is
  read is released from its hold without being sent, and `:523` releases whatever the
  status was. A bulletin marked F by the first neighbour that took it reaches no other.
- `command/engine.py:592`: RA is described as "read all new, then kill each"; it kills
  none. `:1270`: EM edits "only the body" and writes back the subject it read.
- `transport/conference.py:24`, `:109`: /J is documented as a switch of rooms; on a
  terminal it leaves the conference. `:332`: a participant whose welcome failed stays in
  the room's list. `web/app.py:264`: a browser whose drain task had failed stays among
  the sockets. `web/server.py:176`: the close frame is never sent.
- `forward/session.py:292`, `:370`: a write has no timeout, so a neighbour that does not
  read holds the session, and with it the pass of the scheduler, for ever.
  `forward/protocol.py:252`: the routing line is written without a colon and read only
  with one, so a private message loses its `at_bbs` at its first hop.
- `transport/telnet.py`: the "idle timeout" is the time of the whole session. A session
  blocked in a send to a client that never reads is ended by nothing else.
- `transport/conference.py:233-238`: "Idle timeout — disconnecting" (`telnet.py:393`) need
  not follow. `wait_for` cancels a session once. The room loop cancels the task that is not
  done, awaits it and passes over any `CancelledError`, its own included: a cancellation that
  comes in that await is lost, and the session waits for input again. At end of input the
  loop goes through that await without a pause, so a terminal that is gone may keep its
  room and its slot (`wreck.deaf` in Conference).
- `transport/kiss.py:68-69`, `:93`: a KISS frame cut by the end of a read is lost.
  `transport/telnet.py:155`: so is a command, and its second byte is read as text.
  `ax25/stream.py:55`: a CR LF later in the buffer is preferred to a CR before it, so two
  lines may be read as one. `ax25/hdlc.py:154`: the stuffed bits of a frame are filled up
  to octets before the closing flag, so a receiver finds bits that were not sent unless
  the stuffed frame fills whole octets.
- `transport/yapp.py:168`: any byte but CAN is an acknowledgement, a late line end and
  the texts of `command/engine.py:1905` included. `:208-216`: a length that reads zero
  ends the file, and the checksum behind it is not looked at. The two halves of the file
  do not fit each other: `receive_file` reads no announcement. `:135` says "Returns True on
  success, False on abort or timeout": when a receiver has timed out, what its user then
  types acknowledges the frames that are left, and the download is counted.
- `transport/afsk.py:176-182`, `:629`: a link that is stopped while the thread keys leaves
  the transmitter keyed.
- `forward/scheduler.py:56`: the schedule is looked at when the pass reaches the
  neighbour, so sessions make later minutes pass unnoticed. `forward/cron.py:28`: "Invalid
  expressions always return True", but fields are tried from the left, and one that does
  not match ends the search before the invalid one raises: with `30 x * * *` the
  neighbour is called at half past and at no other time. `forward/cron.py:10`: a step
  is "from 0", but days and months step from 1; the day of the week counts from
  Monday = 0, and `*/0`, which names nothing, never matches.

### Fairness

Weak fairness of T1 and T3 expiry while the timer is pending; in the router, of a
session task that can go on, of a due callback and of T1 in a release; and of the
steps of a forwarding session that runs this program and writes nothing in them (its
reads run out, its store answers). In the mailbox, a task that does
not wait for the network goes on (`FairSpec`): the event loop runs it until it does. In
the conference of `services`, a terminal's session, which is one of the telnet server, is
cancelled once when its time is over or ends when a send raises, and the receive of a
browser whose connection is gone raises (`ServicesFairSpec`). asyncio resumes a task whose
sleep is over or whose wait has ended, and runs callbacks. Nothing is assumed of the radio (every frame may be lost, for ever), of
the peer, or of the users. `ArrivesOrFails` therefore says "arrives or the link is
seen to fail": the bounded retry count is what makes it true.

## 4. Proofs

The theorems hold for every value of the constants that satisfies the assumptions of
the modules: `ConnAssumption` (modulus at least 2, window below the modulus),
`LinkAssumption` (two stations, natural bounds), `RouterAssumption`, `ForwardAssumption`
(finitely many messages, named by positive numbers), those of Mailbox and Accounts, `ConferenceAssumption` (terminals and
browsers are different clients, bounds are natural), and those of Services: `SizesAssumption`
and `ClockAssumption` (sizes are natural numbers, a minute has at least one tick, an hour
at least one minute, a day one hour), `ExpressionsAssumption` (schedules are lists of fields,
fields lists of `CronParts`), `StreamsAssumption` (the decoders are those of Streams, so many units
at most) and `LimitsAssumption` (natural numbers of frames and failures).
TLC evaluates them in the runs. No theorem is about the instances of section 3 alone.

Each proof has the same shape: an inductive invariant, checked by TLC before it was
proved; lemmas about the operators of the model; one lemma per group of actions; the step
lemma, which has a case per action; and the theorems, each from the invariant or, for an
action property, from the invariant and the step.

**AX25Link** (`AX25LinkProofs`). `TypeOK` and `TeardownComplete` are not inductive by
themselves: that a retry keeps the count in its type needs that the count has not passed
the limit while the end is not down, and that an end that goes down has no T3 pending
needs that T3 is only pending while it is connected. `LinkInv` is `TypeOK` and `Sound` of
each connection: timers and retry count follow the state. The operators' lemmas rest on
`ModInSeqNo`: arithmetic modulo `Mod` stays among the sequence numbers.

**The data of a link** (`AX25DataProofs`). What an AX.25 link does right rests on the
frames that are under way: neither end sees the other's counters. `DataInv` therefore
speaks of both ends, both directions of the path and the calls made. Its proof forgets the
numbers modulo `Mod`: `Acked(c)`, `c.sent` and `Len(c.rcvd)` count chunks, and `Steps`,
`Reaches` and `ModUnique` are the way from these counts to sequence numbers and back, which
is where `Window < Mod` is used.

- On a link whose ends count from the same exchange (`CleanOk`): the chunks held are those
  between V(A) and V(S), in their slots (`Framed`); the receiver has the chunks from the
  first on (`Taken`), no fewer than the sender knows of and no more than there are
  (`Between`); an I frame under way repeats a chunk less than a window old, and an
  acknowledgement names no more than was taken (`Passing`); frames sent later acknowledge no
  less, and repeat less than a window before those in front of them (`Before`). The last is
  why the path has to keep the order. `Timed`: T1 is pending while frames are outstanding.
- While the called end is up and the caller still waits for the UA (`HalfOk`), all this
  holds already of the link that is about to be, behind the UA.
- `Numbered`: SABMs are numbered in the order of the calls, no UA answers a later one, and
  none that is under way is the one its sender's link came up with. Without that an old
  SABM could make a link seem clean.

`InOrder`, `NothingForgotten`, `WindowHolds` and `NoStall` follow. For `Implements`, the step
lemma says what a step does to the refined variables (`StepMoves`): when the link comes up
nothing has been read at either end (from `HalfOk` and `Numbered`), and while it is up an end
frames more and takes at most the next chunk, which the other has framed (`InOrder`).

**AX25Router** (`AX25RouterProofs`). `RouterInv` is the conjunction of the four safety
properties of the run and `TablesAgree`. `CancelledIsDown` needs it: `_handle_sabm` cancels
the task listed in one table after it found the connection listed in the other not up, and
these belong together only because the tables are always written together.
`Served`, `CancelledDown` and `EndedReleased` follow.

**ForwardSession** (`ForwardProofs`). A mark rests on a sign in an FS line that is paired
with a proposal by its position only, and every phase but two goes on when the line it
waits for is late. `ForwardInv` says why no other line can stand there. Its step is proved
once for all actions of an end: `Doing` says that each is some `Talks` (the line it may
read, the lines it says, and the stages it goes between) with its `Books` (what stores and
grants become); a fault only shortens what is under way (`Fault`).

- The opening (`Opened`): which stages an end may be in (`Roles`); until it has proposed,
  it has said nothing but SID and prompt and no answer to it exists (`SaysLittle`); the
  called end has a quiet wire before the SID (`Waiting`); the caller finds the SID and
  then the prompt before it (`Prompted`), so it does not stop at its first empty line; a
  foreign end does not answer what was not proposed (`Turn`); and between two boards that
  run this program, which both propose first, what each reads for an answer is a proposal
  (`Unheard`).
- The deal (`Dealt`): an FS line in front of an end that awaits one gives what it proposed
  at those places, and the other board lacks it (`Answered`); the proposals heard are a
  beginning of those made, the rest being on the wire in order (`Lined`); what is still to
  be sent was granted, is in the own store, and is neither on the other board nor in a block
  on its way there (`Careful`); a mark was granted (`Marked`).

`MarkedForwardedWasGranted` is `Marked`, `BlocksAreNew` follows from `Careful`.

`UndisturbedDelivers` is `UnbrokenDelivers` for a session with exactly one foreign end: for
two boards that run this program `forward_pair` refutes it, and of two foreign ones neither is
this program. It needs the whole of what is on both wires: a line read in another phase than
the one it was meant for is lost without a trace. `Undisturbed` says that, while nothing was
cut and no timeout came too soon, the two ends are in one of six phases, told by where they
are, what they hold and what is under way:

- `Opens`: SID and prompt; `Asking`: the proposals of the end that runs this program are
  being heard; `Replying`: the answers stand first on the wire, the foreign proposals after
  them, so it is the answers that ReadAnswer reads; `Hearing`: the foreign proposals are being
  heard; `Deciding`: the answers to those stand first, and blocks may follow them already;
  `Trading`: blocks, and after the last of them only a goodbye.
- From the answers on, `Carries` keeps the account of each direction: as many blocks are on
  the way or still to be sent as the other end waits for, no other line comes between them,
  and of what was proposed all that is not too big is among them or on the other board. At
  the end nothing is waited for, so all of it is on the other board.

`InTime` is what an undisturbed read gives: a line is there, or the other end would have sent
none. `AllHeard` and `AnswersMatch` make the two accounts agree: all proposals were heard when
the answer is given, and, none being made twice, as many are accepted as were wanted. TLC
checked these phases over all the reachable states of `forward` before they were proved.

The lemmas
on `Ordered` (a finite set of numbers can be listed in order) are proved from the
well-foundedness of the naturals.

**Mailbox** (`MailboxProofs`). `MailboxInv` says of a task what it has in hand at each of
its suspensions (`TasksSound`), and of numbers that all those in use have been handed out
(`Bounded`) and that one handed out and not yet stored is nobody else's (`HandedOnce`):
without that `NumbersKeepTheirMessage` breaks at the insert. `RoomIsLeft` counts the tasks
that will still ask for a number. `ForwardedRecorded` and `KnownRecorded` strengthen
`PathTellsTruth` and `OfferedOnce`: an entry that a path lacks waits in a task of that
link, or the history names it as lost. `BidsStayUnique`, `NumbersStay`, `PathsTellTruth`
follow from the invariant, `KillsStay` and `OffersAreMadeOnce` are about steps.

**Accounts** (`AccountsProofs`). Whatever a session, a request or a dialogue holds of a
row may be written back later, so each promise about the table is made of every copy:
`RowSound` (a privilege was given to that callsign, a password is there) of the stored row,
of the session's user, of the row in its dialogue and of the request in hand.
`NoPrivilegeFromCopies`, `CopyIsStored`, `PasswordsStay` follow, and `LiveSessionsStay` about steps.

**Services** (`ServicesProofs`, with `ConferenceProofs` for the largest of its parts).
The parts have no variable in common: each has an invariant of its own, and `part` keeps
the steps of the others from touching it.

- Transmitter, `Released`: `TransmitterReleased` says nothing of the stages from which the
  transmitter becomes keyed. `ThreadAwaited` adds that the task awaits the thread that keys
  at one place only, and `ThreadOutruns` that one still keying when `close()` has begun
  was keying when it began.
- Yapp, `StoredWhole` and `NeverBothWait`: unless a checksum missed damage, what is
  received is a prefix of the file and the frames under way are its continuation
  (`BlocksInOrder`, `Queued`); while no acknowledgement was mistaken, `InStep` lists where
  the two halves may stand relative to each other; while nothing but detected damage has
  happened, `Tidy` says besides what is on the wire at each of those places, and so that
  what one half waits for is on its way.
- Schedule, `Called`: sessions were begun when due and not twice (`CalledRightly`), and
  every minute in which a neighbour was due has been looked at up to the one in which the
  loop woke last (`MinutesCovered`, `LateIsKnown`). That what matches is what the grammar
  means (`MatchesMeans`) is proved for every expression of `CronParts`. The division of ticks into minutes is
  nonlinear; the lemmas on quotients are proved by hand.
- Conference, `Listed` and `HeardWhole`: the members of a room are the keys of the clients
  whose tasks are in it, besides those left behind (`Found`), keys are never given twice
  (`Numbered`), an empty room has a member on the way out (`Emptied`); what a client is
  still to hear and what its queue holds agree unless the queue overflowed (`AllHear`).
- Streams, for every input: `StuffingUndone` and `FrameOnAirComesBack` for bits on the
  air, `EscapesComeBack` and `KissFrameComesBack` for KISS, `HostFrameComesBack` and
  `HostReadsAnywhere` for host mode, the last of a stream that is cut anywhere and holds
  anything. The decoders are recursive functions over sequences. `ByMeasure` takes the
  place of induction: a set that has every member of a domain whose smaller ones it has
  is the domain, because of an exception of the least measure. `Chosen` gives a recursive
  function its equation: solutions up to each length exist and agree, and the whole one
  is put together from them. A decoder is then unfolded once per byte, escape or frame.
- Lines of a terminal, for every input: `LinesReadAnywhere` (two reads give the lines of
  one) and `TypedLineComesBack` (a line is read as typed, and what follows as if alone).
  Both say under which condition. A CR and its LF must not be parted by the end of a
  read. Over telnet nothing else is asked; over AX.25 the lines must all end in CR or all
  in LF, since `AX25Reader.readline` looks for CR LF anywhere in the buffer before it
  looks for either byte. A line typed with CR LF is read right whatever follows it.
  `LinesHandedOn` is an invariant of the behaviours: no end of line stays in a buffer.
- All five, `ServicesTyped`: each part's invariant together with its bounds (`ConfBounds`,
  `TxBounds`, `SchedBounds`, `YappBounds`) and `StreamsInv` make `AllTyped`, which every
  step keeps. That a transfer is counted once needs that its sender is over by then; that
  `buf` holds bytes needs that every decoder makes bytes of bytes, telnet
  commands and frames cut short included.

**Only model-checked.**

- Liveness, which needs fairness and ENABLED, and with it `ax25_live` and the temporal
  properties of the other runs.
- `ReadAsSent` as a whole: it puts the decoders together with every order of units and
  cuts. What telnet commands become, and a KISS stream that is cut, stay with the run.

## 5. Not modelled

The bytes of an AX.25 frame, the time a timer takes, digipeaters, the heard list, the
KISS port of a station, UI frames (which the router ignores) and the beacon that sends
one; mixing and symbol timing of the modem, which is arithmetic on samples; LZHUF and
what an encoded message keeps of its fields; parsing and rendering HTTP, WebSocket
framing, static files; reading and writing the configuration; user preferences, startup
commands, neighbours' statistics and the second factor of a login, each written by single
statements; texts and what lists print; the administrative scripts but for retention.
`PROJECT.json` gives each component its status and what is left out of it.

The composition stops where components share nothing but a call. The scheduler's
sessions, for example, are `Select` in Mailbox and `session` in Schedule: what one says
of time and the other of messages does not meet.

## 6. Plan

Done: every module of section 2, and the proofs of section 4. What is left to prove is
what telnet commands and KISS streams that are cut become, and with it `ReadAsSent`;
liveness is out of the provers' reach.
