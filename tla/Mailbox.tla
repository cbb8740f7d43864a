------------------------------- MODULE Mailbox -------------------------------
(***************************************************************************)
(* The messages table (store/store.py) and everyone who works on it at the *)
(* same time: terminal sessions and a forwarding session in the core       *)
(* process, requests and a forwarding session in the web process, and the  *)
(* retention job in a process of its own.                                  *)
(*                                                                         *)
(* One step is one transaction.  Within a process the event loop runs a    *)
(* task until it waits for the network, so a task between two transactions *)
(* with nothing to wait for keeps the others of its process out; the other *)
(* processes still come in between.  Texts are left out: a letter is its   *)
(* type, its addresses and its BID.                                        *)
(***************************************************************************)
EXTENDS Integers, FiniteSets, FiniteSetsExt

CONSTANTS
  Node,          \* cfg.node.node_call
  Users, Sysop,  \* callsigns; the one that has privilege sysop
  Neighbours,    \* the neighbours that sessions are held with
  Drafts,        \* the addresses of the letters composed here, of Addressed
  RemoteMail,    \* numbers of the bulletins the neighbours may have for us
  PersonalDays, BulletinDays, NtsDays, KilledDays,
  BidSpace,      \* how many BIDs one author has in a period (100 in the code)
  BidDays,       \* days of such a period: what is left of the date after the cut
  MaxId,         \* bound: message numbers
  MaxClock,      \* bound: days that pass
  MaxTasks,      \* bound: commands, requests and sessions
  MaxCrashes     \* bound: restarts of a process

ASSUME MailboxAssumption ==
  /\ Sysop \in Users /\ IsFiniteSet(Users)
  /\ {"", "FAR", "ALL", "FORWARD"} \cap Users = {}
  /\ Node \notin Neighbours /\ "" \notin Neighbours
  /\ Drafts \subseteq {"here", "away", "bulletin", "traffic"}
  /\ RemoteMail \subseteq Nat
  /\ {PersonalDays, BulletinDays, NtsDays, KilledDays} \subseteq Nat
  /\ {BidSpace, BidDays, MaxId} \subseteq Nat \ {0}
  /\ {MaxClock, MaxTasks, MaxCrashes} \subseteq Nat

VARIABLES
  rows,     \* the messages table: a row for every number in it
  lastId,   \* sequence.value
  writer,   \* the process that keeps the write lock between transactions, or "none"
  task,     \* task[a]: what actor a is doing
  clock,    \* the current day
  torn,     \* history: numbers whose forward path has lost an entry
  known,    \* history: <<n, i>>: message i was sent to n, or came from n
  tasks, crashes

vars == <<rows, lastId, writer, task, clock, torn, known, tasks, crashes>>

Types    == {"P", "B", "T"}
Statuses == {"N", "Y", "F", "H", "K"}
Ids      == 1 .. MaxId

\* An author's BIDs of a period, and the neighbours'.
NoBid    == <<"", 0, 0>>
Periods  == {d \div BidDays : d \in 0 .. MaxClock}
LocalBid == Users \X Periods \X (0 .. BidSpace - 1)
FarBid   == {<<"FAR", 0, m>> : m \in RemoteMail}

Row == [bid : LocalBid \cup FarBid \cup {NoBid}, type : Types,
        from : Users \cup {"FAR", ""}, to : Users \cup {"FAR", "ALL", ""},
        at : Neighbours \cup {""}, status : Statuses,
        path : SUBSET (Neighbours \cup {Node}), born : 0 .. MaxClock]

Blank == [bid |-> NoBid, type |-> "P", from |-> "", to |-> "", at |-> "", status |-> "N",
          path |-> {}, born |-> 0]

\* Where letters go: to a user here or at a neighbour, or to a category that the
\* neighbours take.
Addressed ==
  [here     |-> {[type |-> "P", to |-> u, at |-> ""] : u \in Users},
   away     |-> {[type |-> "P", to |-> "FAR", at |-> n] : n \in Neighbours},
   bulletin |-> {[type |-> "B", to |-> "ALL", at |-> ""]},
   traffic  |-> {[type |-> "T", to |-> "ALL", at |-> ""]}]

Letters(from) ==
  {[Blank EXCEPT !.type = x.type, !.from = from, !.to = x.to, !.at = x.at] :
     x \in UNION {Addressed[d] : d \in Drafts}}

\* A bulletin that a neighbour offers.
FarLetter(m) ==
  [Blank EXCEPT !.bid = <<"FAR", 0, m>>, !.type = "B", !.from = "FAR", !.to = "ALL"]

-----------------------------------------------------------------------------
(***************************************************************************)
(* The actors: in each of the two processes a client for every user (a     *)
(* terminal session in the core, a browser in the web process) and the     *)
(* forwarding session that the scheduler, the F command or a request runs. *)
(***************************************************************************)
Processes == {"core", "web"}
Clients   == Processes \X Users
Links     == Processes \X {"FORWARD"}
Actors    == Clients \cup Links

Terminal(a) == a[1] = "core"
User(a)     == a[2]
IsSysop(a)  == User(a) = Sysop

Stages == {"idle", "next", "op", "bulk", "number", "bid", "insert",
           "answer", "transfer", "sent", "path", "append"}
Ops    == {"", "read", "kill", "edit", "move", "copy", "reply", "drop", "compose", "bulk",
           "link", "send", "receive"}

\* Where an actor is between two transactions, the numbers it still has to look
\* at, the one in hand with its row as it was read, the neighbour, and the
\* messages that are to come in.
Task == [at : Stages, op : Ops,
         todo : SUBSET Ids, msg : Ids \cup {0}, seen : Row,
         nbr : Neighbours \cup {""}, inc : SUBSET RemoteMail]

Idle == [at |-> "idle", op |-> "", todo |-> {}, msg |-> 0, seen |-> Blank,
         nbr |-> "", inc |-> {}]

Init ==
  /\ \E u \in Users : \E x \in Letters(u) :
       rows = [i \in {1} |-> [x EXCEPT !.bid = <<u, 0, 0>>]]
  /\ lastId = 1 /\ writer = "none"
  /\ task = [a \in Actors |-> Idle]
  /\ clock = 0 /\ tasks = 0 /\ crashes = 0
  /\ torn = {} /\ known = {}

Numbers == DOMAIN rows
Bids    == {rows[i].bid : i \in Numbers}

\* The stages a task leaves without waiting for the network; a browser's request
\* waits for nothing between its look and its write.
Unbroken(a) ==
  \/ task[a].at \in {"bulk", "number", "bid", "insert", "path", "append"}
  \/ /\ task[a].at = "op"
     /\ (~Terminal(a) \/ task[a].op \in {"kill", "move"})

Runs(a) == \A b \in Actors \ {a} : b[1] = a[1] => ~Unbroken(b)

\* A transaction that writes needs the lock, and its commit gives it back.
Reads(a)  == Runs(a) /\ UNCHANGED writer
Writes(a) == Runs(a) /\ writer \in {"none", a[1]} /\ writer' = "none"

Becomes(a, t) == task' = [task EXCEPT ![a] = t]

Starts(a, t) ==
  /\ task[a].at = "idle" /\ tasks < MaxTasks
  /\ tasks' = tasks + 1
  /\ Becomes(a, t)

\* Room for one more number (a bound).
Room == lastId + Cardinality({a \in Actors : task[a].at = "number"}) < MaxId

\* All that is used later of a row that was read is its BID.
Named(r) == [Blank EXCEPT !.bid = r.bid]

\* The task with message i, whose row is r, in hand, and with a letter x to be stored.
Hand(t, i, r)    == [t EXCEPT !.at = "op", !.msg = i, !.seen = Named(r)]
HandLetter(t, x) == [t EXCEPT !.at = "number", !.seen = x]

\* The task when it is done with the message in hand.
Done(t) ==
  IF t.op \in {"send", "receive"}
  THEN [t EXCEPT !.at = "transfer", !.op = "link", !.msg = 0, !.seen = Blank]
  ELSE IF t.todo # {} THEN [t EXCEPT !.at = "next", !.msg = 0, !.seen = Blank]
  ELSE Idle

SetStatus(i, s) == rows' = IF i \in Numbers THEN [rows EXCEPT ![i].status = s] ELSE rows

history == <<torn, known>>
bounds  == <<clock, tasks, crashes>>

-----------------------------------------------------------------------------
(***************************************************************************)
(* insert_message: a number, a BID when the letter has none, the row.      *)
(* Each is a transaction of its own.                                       *)
(***************************************************************************)

\* A faulty variant: the highest number in the table, plus one.
next_message_id_FromRows(a) ==
  LET t == task[a]
      i == IF Numbers = {} THEN 1 ELSE Max(Numbers) + 1
  IN /\ t.at = "number" /\ Writes(a)
     /\ lastId' = lastId + 1
     /\ Becomes(a, [t EXCEPT !.at = IF t.seen.bid = NoBid THEN "bid" ELSE "insert",
                             !.msg = i, !.seen.born = clock])
     /\ UNCHANGED <<rows, history, bounds>>

\* A faulty variant: the number is asked for twice.
next_message_id_Twice(a) ==
  LET t == task[a] IN
  /\ t.at = "number" /\ Writes(a)
  /\ lastId' = lastId + 2
  /\ Becomes(a, [t EXCEPT !.at = IF t.seen.bid = NoBid THEN "bid" ELSE "insert",
                          !.msg = lastId + 2, !.seen.born = clock])
  /\ UNCHANGED <<rows, history, bounds>>

next_message_id(a) ==
  LET t == task[a] IN
  /\ t.at = "number" /\ Writes(a)
  /\ lastId' = lastId + 1
  /\ Becomes(a, [t EXCEPT !.at = IF t.seen.bid = NoBid THEN "bid" ELSE "insert",
                          !.msg = lastId + 1, !.seen.born = clock])
  /\ UNCHANGED <<rows, history, bounds>>

Untaken(t) ==
  {b \in {t.seen.from} \X {t.seen.born \div BidDays} \X (0 .. BidSpace - 1) : b \notin Bids}

\* A faulty variant: the suffix is not counted up.
generate_bid_First(a) ==
  LET t == task[a]
      bid == <<t.seen.from, t.seen.born \div BidDays, 0>>
  IN /\ t.at = "bid" /\ bid \in Untaken(t) /\ Reads(a)
     /\ Becomes(a, [t EXCEPT !.at = "insert", !.seen.bid = bid])
     /\ UNCHANGED <<rows, lastId, history, bounds>>

\* With every BID of the author taken the loop of has_bid calls never ends.
generate_bid(a) ==
  LET t == task[a] IN
  /\ t.at = "bid" /\ Untaken(t) # {} /\ Reads(a)
  /\ Becomes(a, [t EXCEPT !.at = "insert",
                          !.seen.bid = CHOOSE b \in Untaken(t) : \A c \in Untaken(t) : b[3] <= c[3]])
  /\ UNCHANGED <<rows, lastId, history, bounds>>

\* A faulty variant: the bid column without its UNIQUE constraint.
Collides_Never(bid) == FALSE

Collides(bid) == bid \in Bids

\* The task ends with an INSERT that fails, and its transaction stays open: the
\* process keeps the write lock until it commits something else.
Insert(a) ==
  LET t == task[a] IN
  /\ t.at = "insert"
  /\ \/ /\ Collides(t.seen.bid)
        /\ Runs(a) /\ writer \in {"none", a[1]} /\ writer' = a[1]
        /\ Becomes(a, Idle)
        /\ UNCHANGED <<rows, known>>
     \/ /\ ~Collides(t.seen.bid) /\ Writes(a)
        /\ rows' = [i \in Numbers \cup {t.msg} |-> IF i = t.msg THEN t.seen ELSE rows[i]]
        /\ known' = known \cup IF t.op = "receive" THEN {<<t.nbr, t.msg>>} ELSE {}
        /\ Becomes(a, IF t.op = "receive" THEN [t EXCEPT !.at = "path"] ELSE Idle)
  /\ UNCHANGED <<lastId, torn, bounds>>

(***************************************************************************)
(* append_forward_path: a SELECT outside any transaction, then an UPDATE.  *)
(***************************************************************************)

\* A faulty variant: a message sent bears the neighbour.
Entry_Neighbour(t) == t.nbr

\* Who is written into the path: a message sent bears this node, one received
\* its sender, one dropped by FD the neighbour that is to be passed over.
Entry(t) == IF t.op = "send" THEN Node ELSE t.nbr

ReadPath(a) ==
  LET t == task[a] IN
  /\ t.at = "path" /\ Reads(a)
  /\ Becomes(a, IF t.msg \in Numbers
                THEN [t EXCEPT !.at = "append", !.seen = [Named(rows[t.msg]) EXCEPT !.path = rows[t.msg].path]]
                ELSE Done(t))
  /\ UNCHANGED <<rows, lastId, history, bounds>>

WritePath(a) ==
  LET t == task[a] IN
  /\ t.at = "append" /\ Writes(a)
  /\ rows' = IF t.msg \in Numbers
             THEN [rows EXCEPT ![t.msg].path = t.seen.path \cup {Entry(t)}] ELSE rows
  /\ torn' = torn \cup {i \in Numbers \cap {t.msg} : ~(rows[i].path \subseteq t.seen.path)}
  /\ Becomes(a, Done(t))
  /\ UNCHANGED <<lastId, known, bounds>>

-----------------------------------------------------------------------------
(***************************************************************************)
(* Commands and requests.                                                  *)
(***************************************************************************)

\* A new letter is on its way into the table.
Posts(a, x) ==
  /\ a \in Clients /\ Room /\ Reads(a)
  /\ Starts(a, HandLetter([Idle EXCEPT !.op = "compose"], x))
  /\ UNCHANGED <<rows, lastId, history, clock, crashes>>

\* S, SP, SB and ST: the text is gathered before the store is touched.
Compose(a) == Terminal(a) /\ \E x \in Letters(User(a)) : Posts(a, x)

\* The web's form.
SendMessage(a) == ~Terminal(a) /\ \E x \in Letters(User(a)) : Posts(a, x)

\* T: a private message to the sysop.
PageSysop(a) ==
  Terminal(a) /\ Posts(a, [Blank EXCEPT !.from = User(a), !.to = Sysop])

Party(a, r) == User(a) \in {r.from, r.to} \/ IsSysop(a)

\* Who may do what to a message, as it was read.
ReadOne(a, r)  == r.status # "K" /\ (r.type = "P" => Party(a, r))
KillOne(a, r)  == r.status # "H" /\ Party(a, r)
ReadForm(a, r) == (r.status = "K" => IsSysop(a)) /\ (r.type = "P" => Party(a, r))
KillForm(a, r) == Party(a, r)

EditOne(r)     == r.status # "K"

MayRead(a, r) == IF Terminal(a) THEN ReadOne(a, r) ELSE ReadForm(a, r)
MayKill(a, r) == IF Terminal(a) THEN KillOne(a, r) ELSE KillForm(a, r)

\* SC copies a text under new addresses, RP answers the sender.
CopyOf(a, r)  == {x \in Letters(User(a)) : x.type = "P"}
ReplyTo(a, r) == {[Blank EXCEPT !.from = User(a), !.to = r.from]}

\* What is done after a look at message r: nothing, an update, a letter.
After(a, t, i, r) ==
  CASE t.op = "read"  -> {IF MayRead(a, r) /\ r.type = "P" /\ r.status = "N"
                          THEN Hand(t, i, r) ELSE Done(t)}
    [] t.op = "kill"  -> {IF MayKill(a, r) THEN Hand(t, i, r) ELSE Done(t)}
    [] t.op = "edit"  -> {IF Terminal(a) => EditOne(r) THEN Hand(t, i, r) ELSE Done(t)}
    [] t.op = "move"  -> {Hand(t, i, r)}
    [] t.op = "copy"  -> {HandLetter(t, x) : x \in CopyOf(a, r)}
    [] t.op = "reply" -> {HandLetter(t, x) : x \in ReplyTo(a, r)}

\* get_message and the checks; a number of no message is passed over.
Looked(a, t, i) == IF i \in Numbers THEN After(a, t, i, rows[i]) ELSE {Done(t)}

\* A command with the numbers it names; a request names one.  EM, ED and MOVE are the
\* sysop's.  (One with nothing to do changes nothing.)
Command(a) ==
  /\ a \in Clients /\ Reads(a)
  /\ \E op \in {"read", "kill"} \cup (IF Terminal(a) THEN {"copy", "reply"} ELSE {})
               \cup (IF IsSysop(a) THEN {"edit"} ELSE {})
               \cup (IF Terminal(a) /\ IsSysop(a) THEN {"move"} ELSE {}),
        w \in SUBSET Numbers \ {{}} :
       /\ Cardinality(w) > 1 => Terminal(a) /\ op \in {"read", "kill"}
       /\ op \in {"copy", "reply"} => Room
       /\ \E i \in w : \E t \in Looked(a, [Idle EXCEPT !.op = op, !.todo = w \ {i}], i) :
            t # Idle /\ Starts(a, t)
  /\ UNCHANGED <<rows, lastId, history, clock, crashes>>

\* FD: the neighbour is put into the message's path, to be passed over.
ForwardDrop(a) ==
  /\ a \in Clients /\ Terminal(a) /\ IsSysop(a) /\ Reads(a)
  /\ \E i \in Numbers, n \in Neighbours :
       Starts(a, [Idle EXCEPT !.at = "path", !.op = "drop", !.msg = i, !.nbr = n,
                              !.seen = Named(rows[i])])
  /\ UNCHANGED <<rows, lastId, history, clock, crashes>>

\* The next number of a command, or the first of a list.
Continue(a) ==
  /\ task[a].at = "next" \/ (task[a].at = "bulk" /\ task[a].op # "bulk")
  /\ Reads(a)
  /\ \E i \in task[a].todo :
       \E t \in Looked(a, [task[a] EXCEPT !.todo = @ \ {i}], i) : Becomes(a, t)
  /\ UNCHANGED <<rows, lastId, history, bounds>>

\* The messages with one of these values in a column; killed ones are left out
\* unless a status is asked for.
list_messages(column, values) ==
  {i \in Numbers : rows[i][column] \in values /\ (column # "status" => rows[i].status # "K")}

\* A list, and then every message of it.
Lists(a, op, w) ==
  /\ a \in Clients /\ Terminal(a) /\ Reads(a)
  /\ w # {} /\ Starts(a, [Idle EXCEPT !.at = "bulk", !.op = op, !.todo = w])
  /\ UNCHANGED <<rows, lastId, history, clock, crashes>>

\* RA: what is new to the user.
ReadAll(a) ==
  Lists(a, "read", list_messages("to", {User(a)}) \cap list_messages("status", {"N"}))

\* KM: the user's personal mail.
KillMine(a) ==
  Lists(a, "kill", list_messages("to", {User(a)}) \cap list_messages("type", {"P"}))

\* KK: by sender, addressee, board, status or type; the sysop's.
BulkColumns == {"from", "to", "at", "type"}
KillKind(a) ==
  /\ IsSysop(a)
  /\ \/ Lists(a, "bulk", list_messages("status", {"F"}))
     \/ \E c \in BulkColumns : \E v \in {rows[i][c] : i \in Numbers} \ {""} :
          Lists(a, "bulk", list_messages(c, {v}))

KillBulk(a) ==
  /\ task[a].at = "bulk" /\ task[a].op = "bulk" /\ Writes(a)
  /\ \E i \in task[a].todo :
       /\ SetStatus(i, "K")
       /\ Becomes(a, IF task[a].todo = {i} THEN Idle ELSE [task[a] EXCEPT !.todo = @ \ {i}])
  /\ UNCHANGED <<lastId, history, bounds>>

\* A faulty variant: the UPDATE without "AND status != 'K'".
mark_read_Anyway(i) == SetStatus(i, "Y")

mark_read(i) ==
  rows' = IF i \in Numbers /\ rows[i].status # "K" THEN [rows EXCEPT ![i].status = "Y"] ELSE rows

kill_message(i) == SetStatus(i, "K")

\* MOVE: new addresses, the type stays.
Move(i) ==
  \E x \in Addressed.here \cup Addressed.away :
    rows' = IF i \in Numbers THEN [rows EXCEPT ![i].to = x.to, ![i].at = x.at] ELSE rows

\* EM, ED and the web's editor: the text and nothing else.
update_message(i) == rows' = rows

\* The update that follows a look, whatever became of the message since.
Operate(a) ==
  LET t == task[a] IN
  /\ t.at = "op" /\ Writes(a)
  /\ CASE t.op = "read" -> mark_read(t.msg)
       [] t.op = "kill" -> kill_message(t.msg)
       [] t.op = "edit" -> update_message(t.msg)
       [] t.op = "move" -> Move(t.msg)
  /\ Becomes(a, Done(t))
  /\ UNCHANGED <<lastId, history, bounds>>

\* SH, SR and the web's hold and release: one UPDATE, whatever the status was.
SysopSets(a, s) ==
  /\ a \in Clients /\ IsSysop(a) /\ task[a].at = "idle" /\ Writes(a)
  /\ \E i \in Numbers : SetStatus(i, s)
  /\ UNCHANGED <<lastId, task, history, bounds>>

SysopHold(a)    == Terminal(a) /\ SysopSets(a, "H")
SysopRelease(a) == Terminal(a) /\ SysopSets(a, "N")
HoldRelease(a)  == ~Terminal(a) /\ \E s \in {"H", "N"} : SysopSets(a, s)

-----------------------------------------------------------------------------
(***************************************************************************)
(* Forwarding sessions.                                                    *)
(***************************************************************************)

\* A faulty variant: the neighbour is not looked for in the path.
Selected_Always(n) ==
  {i \in Numbers : /\ rows[i].status = "N" /\ Node \notin rows[i].path
                   /\ rows[i].type = "P" => rows[i].at = n}

Selected(n) ==
  {i \in Numbers : /\ rows[i].status = "N" /\ {Node, n} \cap rows[i].path = {}
                   /\ rows[i].type = "P" => rows[i].at = n}

\* _select_outgoing, from one list of what is new.
Select(a) ==
  /\ a \in Links /\ Reads(a)
  /\ \E n \in Neighbours :
       Starts(a, [Idle EXCEPT !.at = "answer", !.op = "link", !.todo = Selected(n), !.nbr = n])
  /\ UNCHANGED <<rows, lastId, history, clock, crashes>>

\* The neighbour grants some of our proposals; of its own we take those whose
\* BID is not here.
Exchange(a) ==
  /\ task[a].at = "answer" /\ Reads(a)
  /\ \E granted \in SUBSET task[a].todo, offered \in SUBSET RemoteMail :
       Becomes(a, [task[a] EXCEPT !.at = "transfer", !.todo = granted,
                                  !.inc = {m \in offered : FarLetter(m).bid \notin Bids}])
  /\ UNCHANGED <<rows, lastId, history, bounds>>

\* The block of the next message goes out.
Send(a) ==
  LET t == task[a] IN
  /\ t.at = "transfer" /\ t.todo # {} /\ Reads(a)
  /\ LET i == Min(t.todo) IN
     Becomes(a, [t EXCEPT !.at = "sent", !.op = "send", !.todo = @ \ {i}, !.msg = i,
                          !.seen = IF i \in Numbers THEN Named(rows[i]) ELSE Blank])
  /\ UNCHANGED <<rows, lastId, history, bounds>>

\* mark_forwarded, whatever the status is by now.
Mark(a) ==
  LET t == task[a] IN
  /\ t.at = "sent" /\ Writes(a)
  /\ SetStatus(t.msg, "F")
  /\ known' = known \cup {<<t.nbr, t.msg>>}
  /\ Becomes(a, [t EXCEPT !.at = "path"])
  /\ UNCHANGED <<lastId, torn, bounds>>

\* A block comes in: a bad one is dropped, and so is one whose BID is here by now.
Receive(a) ==
  LET t == task[a] IN
  /\ t.at = "transfer" /\ t.todo = {} /\ t.inc # {} /\ Reads(a)
  /\ LET m == Min(t.inc) IN
     \/ Becomes(a, [t EXCEPT !.inc = @ \ {m}])
     \/ /\ FarLetter(m).bid \notin Bids /\ Room
        /\ Becomes(a, HandLetter([t EXCEPT !.op = "receive", !.inc = @ \ {m}], FarLetter(m)))
  /\ UNCHANGED <<rows, lastId, history, bounds>>

CloseLink(a) ==
  /\ task[a].at = "transfer" /\ task[a].todo = {} /\ task[a].inc = {} /\ Reads(a)
  /\ Becomes(a, Idle)
  /\ UNCHANGED <<rows, lastId, history, bounds>>

-----------------------------------------------------------------------------
(***************************************************************************)
(* What goes wrong.                                                        *)
(***************************************************************************)

\* The connection is lost, or the task cancelled, while it waits for the network.
Break(a) ==
  /\ task[a].at \in {"next", "op", "answer", "transfer", "sent"} /\ ~Unbroken(a)
  /\ Reads(a)
  /\ Becomes(a, Idle)
  /\ UNCHANGED <<rows, lastId, history, bounds>>

Writing(a) ==
  \/ task[a].at \in {"op", "number", "insert", "sent", "append"}
  \/ (task[a].at = "bulk" /\ task[a].op = "bulk")

\* The path of a message in hand that is marked, or stored, and not yet recorded.
PathPending(a) == a \in Links /\ task[a].at \in {"path", "append"}

\* Another process keeps the lock for longer than a write waits: the exception
\* ends the task; when a message is being sent it is caught, and the next is sent.
DatabaseLocked(a) ==
  /\ Writing(a) /\ Runs(a) /\ writer \notin {"none", a[1]}
  /\ Becomes(a, IF task[a].op = "send" THEN Done(task[a]) ELSE Idle)
  /\ torn' = torn \cup IF PathPending(a) THEN {task[a].msg} ELSE {}
  /\ UNCHANGED <<rows, lastId, writer, known, bounds>>

\* A process dies and is started again; its open transaction is rolled back.
Crash(p) ==
  /\ crashes < MaxCrashes /\ crashes' = crashes + 1
  /\ writer = p \/ \E a \in Actors : a[1] = p /\ task[a] # Idle
  /\ torn' = torn \cup {task[a].msg : a \in {b \in Actors : b[1] = p /\ PathPending(b)}}
  /\ task' = [a \in Actors |-> IF a[1] = p THEN Idle ELSE task[a]]
  /\ writer' = IF writer = p THEN "none" ELSE writer
  /\ UNCHANGED <<rows, lastId, known, clock, tasks>>

Days == [P |-> PersonalDays, B |-> BulletinDays, T |-> NtsDays]

\* The retention job, a process of its own.
cleanup_expired ==
  LET age(i) == clock - rows[i].born
      expired == {i \in Numbers : \/ (age(i) > Days[rows[i].type] /\ rows[i].status # "H")
                                  \/ (age(i) > KilledDays /\ rows[i].status = "K")}
  IN /\ writer = "none" /\ expired # {}
     /\ rows' = [i \in Numbers \ expired |-> rows[i]]
     /\ UNCHANGED <<lastId, writer, task, history, bounds>>

Tick ==
  /\ clock < MaxClock /\ clock' = clock + 1
  /\ UNCHANGED <<rows, lastId, writer, task, history, tasks, crashes>>

-----------------------------------------------------------------------------
Steps(a) ==
  \/ next_message_id(a) \/ generate_bid(a) \/ Insert(a) \/ ReadPath(a) \/ WritePath(a)
  \/ Continue(a) \/ KillBulk(a) \/ Operate(a)
  \/ Exchange(a) \/ Send(a) \/ Mark(a) \/ Receive(a) \/ CloseLink(a)
  \/ DatabaseLocked(a)

Begins(a) ==
  \/ Compose(a) \/ SendMessage(a) \/ PageSysop(a)
  \/ Command(a) \/ ForwardDrop(a) \/ ReadAll(a) \/ KillMine(a) \/ KillKind(a)
  \/ SysopHold(a) \/ SysopRelease(a) \/ HoldRelease(a)
  \/ Select(a)

Next ==
  \/ \E a \in Actors : Steps(a) \/ Begins(a) \/ Break(a)
  \/ \E p \in Processes : Crash(p)
  \/ cleanup_expired
  \/ Tick

Spec == Init /\ [][Next]_vars

\* A process whose event loop is not waiting goes on with its task.
FairSpec == Spec /\ \A a \in Actors : WF_vars(Unbroken(a) /\ Steps(a))

TypeOK ==
  /\ Numbers \subseteq Ids /\ \A i \in Numbers : rows[i] \in Row
  /\ lastId \in Ids
  /\ writer \in Processes \cup {"none"}
  /\ task \in [Actors -> Task]
  /\ clock \in 0 .. MaxClock /\ tasks \in 0 .. MaxTasks /\ crashes \in 0 .. MaxCrashes
  /\ torn \subseteq Ids /\ known \subseteq Neighbours \X Ids

\* A BID is looked up in one transaction and inserted in another, by tasks of two
\* processes: no BID is ever that of two messages.
BidsAreUnique ==
  \A i, j \in Numbers : rows[i].bid = rows[j].bid => i = j

\* Commands hold a number across transactions and pages, while messages are
\* deleted and stored: a number never comes to mean another message, and one that
\* is handed out is not in use.
NumbersKeepTheirMessage ==
  \A a \in Actors :
    LET t == task[a] IN
    /\ t.at \in {"op", "sent", "append"} /\ t.seen # Blank /\ t.msg \in Numbers
         => rows[t.msg].bid = t.seen.bid
    /\ t.at \in {"bid", "insert"} => t.msg \notin Numbers

\* A message marked as forwarded carries the node in its path, unless that entry
\* is about to be written or was lost to another writer, a lock or a crash.
PathTellsTruth ==
  \A i \in Numbers :
    rows[i].status = "F" =>
      Node \in rows[i].path \/ i \in torn \/ \E a \in Links : PathPending(a) /\ task[a].msg = i

\* However long a message is paged before it is marked read, a kill in the
\* meantime stands: only the sysop's hold and release, and a session that had
\* already sent the message, take it out of status K.
KilledStaysKilled ==
  [][\A i \in Numbers \cap DOMAIN rows' :
       rows[i].status = "K" /\ rows'[i].status # "K" =>
         \/ rows'[i].status \in {"N", "H"}
         \/ \E a \in Links : task[a].at = "sent" /\ task[a].msg = i]_vars

\* No session offers a neighbour a message that was sent to it or came from it,
\* even after the sysop has released it, unless its path lost an entry or waits
\* for one.
OfferedOnce ==
  [][\A a \in Links :
       task[a].at = "idle" /\ task'[a].at = "answer" =>
         \A i \in task'[a].todo :
           <<task'[a].nbr, i>> \in known =>
             i \in torn \/ \E b \in Links : PathPending(b) /\ task[b].msg = i]_vars

\* The event loop is always given back, by a locked database too, except by the
\* search for a BID when the author has used them all.
EventLoopReturns ==
  \A a \in Actors :
    Unbroken(a) ~> (~Unbroken(a) \/ (task[a].at = "bid" /\ Untaken(task[a]) = {}))
=============================================================================
