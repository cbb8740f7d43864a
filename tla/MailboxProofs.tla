---------------------------- MODULE MailboxProofs ----------------------------
(***************************************************************************)
(* Theorems about Mailbox, for any users, neighbours, drafts and periods,  *)
(* and any number of tasks, days and crashes.                              *)
(***************************************************************************)
EXTENDS Mailbox, FiniteSetTheorems, WellFoundedInduction, TLAPS

\* A task t of actor a: what it has in hand where.
TaskSound(a, t) ==
  /\ t \in Task
  /\ t.at \in {"number", "bid", "insert"} =>
       /\ t.op \in {"compose", "copy", "reply", "receive"}
       /\ t.seen.status = "N" /\ t.seen.path = {}
       /\ t.seen.bid = NoBid => t.seen.from \in Users
  /\ t.at = "bid" => t.seen.from \in Users /\ t.seen.born \div BidDays \in Periods
  /\ t.at \in {"bid", "insert", "op", "sent", "path", "append"} => t.msg \in Ids
  /\ t.op \in {"compose", "copy", "reply", "edit", "move", "drop"} => t.todo = {}
  /\ t.at = "next" => t.op \in {"read", "kill"}
  /\ t.at = "bulk" => t.op \in {"read", "kill", "bulk"}
  /\ t.at = "op" => t.op \in {"read", "kill", "edit", "move"}
  /\ t.at \in {"answer", "transfer"} => t.op = "link"
  /\ t.at = "sent" => t.op = "send"
  /\ t.at \in {"path", "append"} => t.op \in {"send", "receive", "drop"}
  /\ t.at \in {"path", "append", "answer", "transfer", "sent"} => t.nbr \in Neighbours
  /\ t.op \in {"link", "send", "receive"} => a \in Links /\ t.nbr \in Neighbours

TasksSound == task \in [Actors -> Task] /\ \A a \in Actors : TaskSound(a, task[a])

TableSound == Numbers \subseteq Ids /\ \A i \in Numbers : rows[i] \in Row

RestSound ==
  /\ lastId \in Ids
  /\ writer \in Processes \cup {"none"}
  /\ clock \in 0 .. MaxClock /\ tasks \in 0 .. MaxTasks /\ crashes \in 0 .. MaxCrashes
  /\ torn \subseteq Ids /\ known \subseteq Neighbours \X Ids

\* The tasks that will ask for a number, and room for them.
Waiting   == {a \in Actors : task[a].at = "number"}
RoomIsLeft == lastId + Cardinality(Waiting) <= MaxId

\* The numbers a task has to do with.
Of(t) == t.todo \cup {t.msg}

\* All numbers anywhere have been handed out,
Bounded ==
  /\ \A i \in Numbers : i <= lastId
  /\ \A a \in Actors : \A i \in Of(task[a]) : i <= lastId
  /\ \A k \in known : k[2] <= lastId

\* and one that is handed out to a task and not yet stored is nobody else's.
Handed(t) == t.at \in {"bid", "insert"}
HandedOnce ==
  \A a \in Actors : Handed(task[a]) =>
    /\ task[a].msg \notin Numbers /\ task[a].msg \notin task[a].todo
    /\ \A k \in known : k[2] # task[a].msg
    /\ \A b \in Actors \ {a} : task[a].msg \notin Of(task[b])

\* What was seen of a message that is still there.
SeenOf(t) ==
  t.at \in {"op", "sent", "append"} /\ t.seen # Blank /\ t.msg \in Numbers
    => rows[t.msg].bid = t.seen.bid
SeenStays == \A a \in Actors : SeenOf(task[a])

\* The entry of n, or this node, in the path of i is about to be written.
Pending(t, n, i) ==
  /\ t.at \in {"path", "append"} /\ t.msg = i
  /\ t.op = "send" \/ (t.op = "receive" /\ t.nbr = n)

\* A message that was sent has the node in its path, one that came from n has n:
\* or the entry was lost, or waits.
ForwardedRecorded ==
  \A i \in Numbers : rows[i].status = "F" =>
    \/ Node \in rows[i].path \/ i \in torn
    \/ \E a \in Links : Pending(task[a], "", i)

KnownRecorded ==
  \A k \in known : k[2] \in Numbers =>
    \/ {Node, k[1]} \cap rows[k[2]].path # {} \/ k[2] \in torn
    \/ \E a \in Links : Pending(task[a], k[1], k[2])

MailboxInv ==
  /\ TasksSound /\ TableSound /\ RestSound
  /\ RoomIsLeft /\ Bounded /\ HandedOnce
  /\ BidsAreUnique /\ SeenStays
  /\ ForwardedRecorded /\ KnownRecorded

-----------------------------------------------------------------------------
(***************************************************************************)
(* Smallest elements, actors, rows and tasks.                              *)
(***************************************************************************)
LEMMA MinNat ==
  ASSUME NEW T \in SUBSET Nat, T # {}
  PROVE  \E x \in T : \A y \in T : x <= y
  <1> DEFINE R == OpToRel(<, Nat)
  <1>1. IsWellFoundedOn(R, Nat)  BY NatLessThanWellFounded
  <1>2. \E x \in T : \A y \in T : ~ (<<y, x>> \in R)
    <2> HIDE DEF R
    <2> QED  BY <1>1, WFMin
  <1>3. PICK x \in T : \A y \in T : ~ (<<y, x>> \in R)  BY <1>2, Zenon
  <1>4. ASSUME NEW y \in T PROVE x <= y
    <2>1. x \in Nat /\ y \in Nat  OBVIOUS
    <2>2. y < x => <<y, x>> \in R  BY <2>1 DEF OpToRel
    <2> HIDE DEF R
    <2>3. ~(y < x)  BY <1>3, <2>2, Zenon
    <2> QED  BY <2>1, <2>3
  <1> QED  BY <1>4

LEMMA MinFacts ==
  ASSUME NEW T \in SUBSET Nat, T # {}
  PROVE  Min(T) \in T
  BY MinNat DEF Min

LEMMA IdsNat == Ids \subseteq Nat /\ 0 \notin Ids /\ 1 \in Ids
  <1>1. MaxId \in Nat \ {0}  BY MailboxAssumption
  <1> QED  BY <1>1 DEF Ids

LEMMA ActorFacts ==
  /\ Links \subseteq Actors /\ Clients \subseteq Actors /\ Clients \cap Links = {}
  /\ \A a \in Clients : User(a) \in Users
  /\ \A a \in Actors : a[1] \in Processes
  /\ IsFiniteSet(Actors)
  <1>1. IsFiniteSet(Processes)
    <2>1. IsFiniteSet({"core"} \cup {"web"})  BY FS_Singleton, FS_AddElement
    <2>2. Processes = {"core"} \cup {"web"}  BY DEF Processes
    <2> QED  BY <2>1, <2>2
  <1>2. IsFiniteSet({"FORWARD"})  BY FS_Singleton
  <1>3. IsFiniteSet(Clients)  BY <1>1, FS_Product, MailboxAssumption DEF Clients
  <1>4. IsFiniteSet(Links)  BY <1>1, <1>2, FS_Product DEF Links
  <1>5. IsFiniteSet(Actors)  BY <1>3, <1>4, FS_Union DEF Actors
  <1>6. "FORWARD" \notin Users  BY MailboxAssumption
  <1> QED  BY <1>5, <1>6 DEF Actors, Clients, Links, User

LEMMA StageFacts ==
  /\ "idle" \in Stages /\ "next" \in Stages /\ "op" \in Stages /\ "bulk" \in Stages
  /\ "number" \in Stages /\ "bid" \in Stages /\ "insert" \in Stages /\ "answer" \in Stages
  /\ "transfer" \in Stages /\ "sent" \in Stages /\ "path" \in Stages /\ "append" \in Stages
  /\ "" \in Ops /\ "read" \in Ops /\ "kill" \in Ops /\ "edit" \in Ops /\ "move" \in Ops
  /\ "copy" \in Ops /\ "reply" \in Ops /\ "drop" \in Ops /\ "compose" \in Ops
  /\ "bulk" \in Ops /\ "link" \in Ops /\ "send" \in Ops /\ "receive" \in Ops
  BY DEF Stages, Ops

LEMMA RowFields ==
  ASSUME NEW r \in Row
  PROVE  /\ r.bid \in LocalBid \cup FarBid \cup {NoBid} /\ r.type \in Types
         /\ r.from \in Users \cup {"FAR", ""} /\ r.to \in Users \cup {"FAR", "ALL", ""}
         /\ r.at \in Neighbours \cup {""} /\ r.status \in Statuses
         /\ r.path \in SUBSET (Neighbours \cup {Node}) /\ r.born \in 0 .. MaxClock
  BY Zenon DEF Row

LEMMA BlankFacts ==
  /\ Blank \in Row
  /\ Blank.bid = NoBid /\ Blank.status = "N" /\ Blank.path = {} /\ Blank.from = ""
  <1>1. MaxClock \in Nat  BY MailboxAssumption
  <1>2. 0 \in 0 .. MaxClock  BY <1>1
  <1> QED  BY <1>2 DEF Blank, Row, Types, Statuses

LEMMA NamedFacts ==
  ASSUME NEW r \in Row
  PROVE  /\ Named(r) \in Row /\ Named(r).bid = r.bid
         /\ \A p \in SUBSET (Neighbours \cup {Node}) :
              /\ [Named(r) EXCEPT !.path = p] \in Row
              /\ [Named(r) EXCEPT !.path = p].bid = r.bid
              /\ [Named(r) EXCEPT !.path = p].path = p
  <1>1. r.bid \in LocalBid \cup FarBid \cup {NoBid}  BY RowFields
  <1>2. Named(r) \in Row  BY <1>1, BlankFacts, Zenon DEF Named, Row
  <1>3. Named(r).bid = r.bid  BY BlankFacts DEF Named, Row
  <1> HIDE DEF Row
  <1>4. ASSUME NEW n \in Row, NEW p \in SUBSET (Neighbours \cup {Node})
        PROVE  /\ [n EXCEPT !.path = p] \in Row
               /\ [n EXCEPT !.path = p].bid = n.bid /\ [n EXCEPT !.path = p].path = p
    BY ZenonT(60) DEF Row
  <1> QED  BY <1>2, <1>3, <1>4

LEMMA AddressFacts ==
  ASSUME NEW y, \/ y \in Addressed.here \/ y \in Addressed.away
                \/ y \in Addressed.bulletin \/ y \in Addressed.traffic
  PROVE  /\ y.type \in Types /\ y.to \in Users \cup {"FAR", "ALL", ""}
         /\ y.at \in Neighbours \cup {""}
  <1>1. CASE y \in Addressed.here
    <2>1. Addressed.here = {[type |-> "P", to |-> u, at |-> ""] : u \in Users}
      BY DEF Addressed
    <2>2. PICK u \in Users : y = [type |-> "P", to |-> u, at |-> ""]  BY <1>1, <2>1
    <2> QED  BY <2>2 DEF Types
  <1>2. CASE y \in Addressed.away
    <2>1. Addressed.away = {[type |-> "P", to |-> "FAR", at |-> n] : n \in Neighbours}
      BY DEF Addressed
    <2>2. PICK n \in Neighbours : y = [type |-> "P", to |-> "FAR", at |-> n]
      BY <1>2, <2>1
    <2> QED  BY <2>2 DEF Types
  <1>3. CASE y \in Addressed.bulletin
    <2>1. y = [type |-> "B", to |-> "ALL", at |-> ""]
      BY <1>3 DEF Addressed
    <2> QED  BY <2>1 DEF Types
  <1>4. CASE y \in Addressed.traffic
    <2>1. y = [type |-> "T", to |-> "ALL", at |-> ""]
      BY <1>4 DEF Addressed
    <2> QED  BY <2>1 DEF Types
  <1> QED  BY <1>1, <1>2, <1>3, <1>4

LEMMA LetterFacts ==
  /\ \A u \in Users : \A x \in Letters(u) :
       x \in Row /\ x.status = "N" /\ x.path = {} /\ x.bid = NoBid /\ x.from = u
  /\ \A m \in RemoteMail :
       LET x == FarLetter(m)
       IN  /\ x \in Row /\ x.status = "N" /\ x.path = {}
           /\ x.bid = <<"FAR", 0, m>> /\ x.bid # NoBid
  <1>1. ASSUME NEW u \in Users, NEW x \in Letters(u)
        PROVE  x \in Row /\ x.status = "N" /\ x.path = {} /\ x.bid = NoBid /\ x.from = u
    <2>1. PICK y \in UNION {Addressed[d] : d \in Drafts} :
            x = [Blank EXCEPT !.type = y.type, !.from = u, !.to = y.to, !.at = y.at]
      BY DEF Letters
    <2>2. /\ y.type \in Types /\ y.to \in Users \cup {"FAR", "ALL", ""}
          /\ y.at \in Neighbours \cup {""}
      <3>1. PICK d \in {"here", "away", "bulletin", "traffic"} : y \in Addressed[d]
        BY MailboxAssumption
      <3>2. \/ y \in Addressed.here \/ y \in Addressed.away
            \/ y \in Addressed.bulletin \/ y \in Addressed.traffic
        BY <3>1, Zenon
      <3> QED  BY <3>2, AddressFacts
    <2> QED  BY <2>1, <2>2, BlankFacts DEF Row
  <1>2. ASSUME NEW m \in RemoteMail
        PROVE  LET x == FarLetter(m)
               IN  /\ x \in Row /\ x.status = "N" /\ x.path = {}
                   /\ x.bid = <<"FAR", 0, m>> /\ x.bid # NoBid
    <2>1. <<"FAR", 0, m>> \in FarBid /\ <<"FAR", 0, m>> # NoBid /\ "B" \in Types
      BY DEF FarBid, NoBid, Types
    <2> QED  BY <2>1, BlankFacts DEF FarLetter, Row
  <1> QED  BY <1>1, <1>2

LEMMA TaskFields ==
  ASSUME NEW t \in Task
  PROVE  /\ t.at \in Stages /\ t.op \in Ops /\ t.todo \in SUBSET Ids /\ t.msg \in Ids \cup {0}
         /\ t.seen \in Row /\ t.nbr \in Neighbours \cup {""} /\ t.inc \in SUBSET RemoteMail
  BY Zenon DEF Task

LEMMA IdleFacts ==
  /\ Idle \in Task /\ Idle.at = "idle" /\ Idle.op = "" /\ Idle.todo = {} /\ Idle.msg = 0
  /\ Idle.seen = Blank /\ Idle.nbr = "" /\ Idle.inc = {}
  /\ \A a : TaskSound(a, Idle)
  /\ ~Handed(Idle)
  <1>1. Idle \in Task  BY BlankFacts, StageFacts, Zenon DEF Idle, Task
  <1>2. /\ Idle.at = "idle" /\ Idle.op = "" /\ Idle.todo = {} /\ Idle.msg = 0
        /\ Idle.seen = Blank /\ Idle.nbr = "" /\ Idle.inc = {}
    BY DEF Idle
  <1>3. \A a : TaskSound(a, Idle)  BY <1>1, <1>2 DEF TaskSound
  <1> QED  BY <1>1, <1>2, <1>3 DEF Handed

\* The task that is done with a message goes on, or is over.
LEMMA DoneFacts ==
  ASSUME NEW a, NEW t \in Task,
         \/ t.op \in {"read", "kill"}
         \/ t.op \in {"send", "receive"} /\ a \in Links /\ t.nbr \in Neighbours
         \/ t.op \notin {"send", "receive"} /\ t.todo = {}
  PROVE  /\ TaskSound(a, Done(t)) /\ Done(t).at \in {"idle", "next", "transfer"}
         /\ Of(Done(t)) \subseteq Of(t) \cup {0}
  <1>1. CASE t.op \in {"send", "receive"}
    <2> DEFINE d == [t EXCEPT !.at = "transfer", !.op = "link", !.msg = 0, !.seen = Blank]
    <2>1. Done(t) = d  BY <1>1 DEF Done
    <2>2. d \in Task  BY StageFacts, BlankFacts, Zenon DEF Task
    <2>3. d.at = "transfer" /\ d.op = "link" /\ d.msg = 0 /\ d.nbr = t.nbr /\ d.todo = t.todo
      BY DEF Task
    <2> HIDE DEF d
    <2>4. TaskSound(a, d)  BY <1>1, <2>2, <2>3 DEF TaskSound
    <2> QED  BY <2>1, <2>3, <2>4 DEF Of
  <1>2. CASE t.op \notin {"send", "receive"} /\ t.todo # {}
    <2> DEFINE d == [t EXCEPT !.at = "next", !.msg = 0, !.seen = Blank]
    <2>1. Done(t) = d  BY <1>2 DEF Done
    <2>2. d \in Task  BY StageFacts, BlankFacts, Zenon DEF Task
    <2>3. d.at = "next" /\ d.op = t.op /\ d.msg = 0 /\ d.todo = t.todo
      BY DEF Task
    <2> HIDE DEF d
    <2>4. TaskSound(a, d)  BY <1>2, <2>2, <2>3 DEF TaskSound
    <2> QED  BY <2>1, <2>3, <2>4 DEF Of
  <1>3. CASE t.op \notin {"send", "receive"} /\ t.todo = {}
    <2>1. Done(t) = Idle  BY <1>3 DEF Done
    <2> QED  BY <2>1, IdleFacts DEF Of
  <1> QED  BY <1>1, <1>2, <1>3

LEMMA HandFacts ==
  ASSUME NEW t \in Task, t.op \in {"read", "kill", "edit", "move"},
         t.op \in {"edit", "move"} => t.todo = {}, NEW i \in Ids, NEW r \in Row
  PROVE  LET h == Hand(t, i, r)
         IN  /\ \A a : TaskSound(a, h)
             /\ Of(h) = t.todo \cup {i}
             /\ h.at = "op" /\ h.msg = i /\ h.seen.bid = r.bid
  <1> DEFINE h == Hand(t, i, r)
  <1>1. Named(r) \in Row /\ Named(r).bid = r.bid  BY NamedFacts
  <1>2. h \in Task  BY <1>1, StageFacts, Zenon DEF Task, Hand
  <1>3. h.at = "op" /\ h.op = t.op /\ h.msg = i /\ h.todo = t.todo /\ h.seen = Named(r)
    BY DEF Task, Hand
  <1> HIDE DEF h
  <1>4. \A a : TaskSound(a, h)  BY <1>2, <1>3 DEF TaskSound
  <1> QED  BY <1>1, <1>3, <1>4 DEF h, Of

LEMMA LetterInHand ==
  ASSUME NEW a, NEW t \in Task, t.op \in {"compose", "copy", "reply", "receive"},
         t.op = "receive" => a \in Links /\ t.nbr \in Neighbours,
         t.op # "receive" => t.todo = {},
         NEW x \in Row, x.status = "N", x.path = {}, x.bid = NoBid => x.from \in Users
  PROVE  LET h == HandLetter(t, x)
         IN  TaskSound(a, h) /\ Of(h) = Of(t) /\ h.at = "number"
  <1> DEFINE h == HandLetter(t, x)
  <1>1. h \in Task  BY StageFacts, Zenon DEF Task, HandLetter
  <1>2. /\ h.at = "number" /\ h.op = t.op /\ h.msg = t.msg /\ h.todo = t.todo /\ h.seen = x
        /\ h.nbr = t.nbr
    BY DEF Task, HandLetter
  <1> HIDE DEF h
  <1>3. TaskSound(a, h)  BY <1>1, <1>2 DEF TaskSound
  <1> QED  BY <1>2, <1>3 DEF h, Of

LEMMA LookedFacts ==
  ASSUME TableSound, NEW a, NEW u \in Task,
         u.op \in {"read", "kill", "edit", "move", "copy", "reply"},
         u.op \notin {"read", "kill"} => u.todo = {},
         u.op \in {"copy", "reply"} => a \in Clients,
         NEW i \in Ids, NEW t \in Looked(a, u, i)
  PROVE  /\ TaskSound(a, t) /\ Of(t) \subseteq Of(u) \cup {i, 0}
         /\ t.at \in {"idle", "next", "transfer", "op", "number"}
         /\ t.at = "number" => u.op \in {"copy", "reply"}
         /\ SeenOf(t)
  <1> DEFINE r == rows[i]
             h == Hand(u, i, r)
  <1>1. /\ TaskSound(a, Done(u)) /\ Done(u).at \in {"idle", "next", "transfer"}
        /\ Of(Done(u)) \subseteq Of(u) \cup {0}
    BY DoneFacts
  <1>2. CASE i \notin Numbers
    <2>1. t = Done(u)  BY <1>2 DEF Looked
    <2> QED  BY <1>1, <2>1 DEF SeenOf
  <1>3. CASE i \in Numbers
    <2>1. r \in Row  BY <1>3 DEF TableSound
    <2>2. t \in After(a, u, i, r)  BY <1>3 DEF Looked
    <2>3. CASE u.op \in {"read", "kill", "edit", "move"}
      <3>1. t \in {h, Done(u)}
        <4>1. CASE u.op = "read"  BY <2>2, <4>1 DEF After
        <4>2. CASE u.op = "kill"  BY <2>2, <4>2 DEF After
        <4>3. CASE u.op = "edit"  BY <2>2, <4>3 DEF After
        <4>4. CASE u.op = "move"  BY <2>2, <4>4 DEF After
        <4> QED  BY <2>3, <4>1, <4>2, <4>3, <4>4
      <3> HIDE DEF r
      <3>2. /\ TaskSound(a, h) /\ Of(h) = u.todo \cup {i}
            /\ h.at = "op" /\ h.msg = i /\ h.seen.bid = r.bid
        <4>1. u.op \in {"edit", "move"} => u.todo = {}  BY <2>3
        <4> QED  BY <2>1, <2>3, <4>1, HandFacts
      <3> HIDE DEF h
      <3> QED  BY <1>1, <3>1, <3>2 DEF Of, SeenOf, r
    <2>4. CASE u.op \in {"copy", "reply"}
      <3>1. PICK x \in CopyOf(a, r) \cup ReplyTo(a, r) : t = HandLetter(u, x)
        <4>1. CASE u.op = "copy"  BY <2>2, <4>1 DEF After
        <4>2. CASE u.op = "reply"  BY <2>2, <4>2 DEF After
        <4> QED  BY <2>4, <4>1, <4>2
      <3>2. User(a) \in Users  BY <2>4, ActorFacts
      <3>3. /\ x \in Row /\ x.status = "N" /\ x.path = {} /\ x.from \in Users
        <4>1. CASE x \in CopyOf(a, r)
          BY <3>2, <4>1, LetterFacts DEF CopyOf
        <4>2. CASE x \in ReplyTo(a, r)
          <5>1. r.from \in Users \cup {"FAR", "ALL", ""}  BY <2>1, RowFields
          <5>2. x = [Blank EXCEPT !.from = User(a), !.to = r.from]  BY <4>2 DEF ReplyTo
          <5> HIDE DEF r
          <5> QED  BY <3>2, <5>1, <5>2, BlankFacts DEF Row
        <4> QED  BY <4>1, <4>2
      <3>4. TaskSound(a, t) /\ Of(t) = Of(u) /\ t.at = "number"
        BY <2>4, <3>1, <3>3, LetterInHand
      <3> QED  BY <2>4, <3>1, <3>4 DEF SeenOf
    <2> QED  BY <2>3, <2>4
  <1> QED  BY <1>2, <1>3

-----------------------------------------------------------------------------
(***************************************************************************)
(* A step of one task.                                                     *)
(***************************************************************************)

\* Task a can become t: it gets no number that it did not have or see, and asks
\* for one only when there is room.
GoesOn(a, t) ==
  /\ TaskSound(a, t)
  /\ Of(t) \subseteq Of(task[a]) \cup Numbers \cup {0}
  /\ t.at = "number" => Room \/ task[a].at = "number"
  /\ Handed(t) => Handed(task[a]) /\ t.msg = task[a].msg /\ t.todo \subseteq task[a].todo
  /\ t.at \in {"op", "sent", "append"} => ~Handed(task[a])
  /\ SeenOf(t)

\* Task a becomes t, the others stay or are ended.
Changes(a, t) ==
  /\ task' \in [Actors -> Task] /\ task'[a] = t
  /\ \A b \in Actors \ {a} : task'[b] = task[b] \/ task'[b] = Idle

\* The rows keep their BIDs; a new one is that of the number handed out to a.
RowsKept(a) ==
  \A i \in DOMAIN rows' :
    /\ rows'[i] \in Row
    /\ i \in Numbers => rows'[i].bid = rows[i].bid
    /\ i \notin Numbers => Handed(task[a]) /\ i = task[a].msg

\* What is known grows by what a has in hand.
KnownGrows(a) ==
  /\ known' \subseteq known \cup (Neighbours \X {task[a].msg})
  /\ \/ known' = known
     \/ ~Handed(task'[a])

LEMMA BecomesChanges ==
  ASSUME TasksSound, NEW a \in Actors, NEW t \in Task, Becomes(a, t)
  PROVE  Changes(a, t)
  BY DEF TasksSound, Becomes, Changes

LEMMA RoomKept ==
  ASSUME RoomIsLeft, TasksSound, lastId \in Nat, MaxId \in Nat, NEW a \in Actors, NEW t,
         Changes(a, t), GoesOn(a, t), lastId' = lastId
  PROVE  RoomIsLeft'
  <1> DEFINE W == Waiting
             V == Waiting'
             n == Cardinality(W)
             m == Cardinality(V)
  <1>1. IsFiniteSet(W)  BY ActorFacts, FS_Subset DEF Waiting
  <1>2. IsFiniteSet(V)  BY ActorFacts, FS_Subset DEF Waiting
  <1>3. n \in Nat /\ m \in Nat  BY <1>1, <1>2, FS_CardinalityType
  <1>4. lastId + n <= MaxId  BY DEF RoomIsLeft
  <1>5. V \subseteq W \cup {a} /\ (t.at # "number" => V \subseteq W)
    BY IdleFacts DEF Waiting, Changes
  <1>6. CASE V \subseteq W
    <2>1. m <= n  BY <1>1, <1>6, FS_Subset
    <2> HIDE DEF n, m
    <2>2. lastId + m <= MaxId  BY <1>3, <1>4, <2>1
    <2> QED  BY <2>2 DEF RoomIsLeft, m
  <1>7. CASE ~(V \subseteq W)
    <2>1. a \notin W /\ t.at = "number"  BY <1>5, <1>7
    <2>2. Room  BY <2>1 DEF GoesOn, Waiting
    <2>3. lastId + n < MaxId  BY <2>2 DEF Room, Waiting
    <2>4. Cardinality(W \cup {a}) = n + 1 /\ IsFiniteSet(W \cup {a})
      BY <1>1, <2>1, FS_AddElement
    <2>5. m <= n + 1  BY <1>5, <2>4, FS_Subset
    <2> HIDE DEF n, m
    <2>6. lastId + m <= MaxId  BY <1>3, <2>3, <2>5
    <2> QED  BY <2>6 DEF RoomIsLeft, m
  <1> QED  BY <1>6, <1>7

\* Such a step keeps everything but what is said of paths.
LEMMA Moves ==
  ASSUME MailboxInv, NEW a \in Actors, NEW t, Changes(a, t), GoesOn(a, t),
         lastId' = lastId, RowsKept(a), KnownGrows(a),
         Handed(t) => task[a].msg \notin DOMAIN rows',
         DOMAIN rows' \subseteq Numbers \/ BidsAreUnique'
  PROVE  /\ TasksSound' /\ TableSound' /\ RoomIsLeft' /\ Bounded' /\ HandedOnce'
         /\ BidsAreUnique' /\ SeenStays'
  <1> USE DEF MailboxInv
  <1>1. TasksSound'
    <2>1. ASSUME NEW b \in Actors PROVE TaskSound(b, task'[b])
      BY IdleFacts DEF Changes, TasksSound, GoesOn
    <2> QED  BY <2>1 DEF Changes, TasksSound
  <1>2. Handed(task[a]) => task[a].msg \in Ids
    BY DEF TasksSound, TaskSound, Handed
  <1>3. TableSound'
    BY <1>2 DEF TableSound, Numbers, RowsKept
  <1>4. RoomIsLeft'
    <2>1. MaxId \in Nat \ {0}  BY MailboxAssumption
    <2>2. lastId \in Nat  BY IdsNat DEF RestSound
    <2> QED  BY <2>1, <2>2, RoomKept
  <1>5. Bounded'
    <2>1. ASSUME NEW i \in DOMAIN rows' PROVE i <= lastId
      BY DEF Bounded, RowsKept, Of, Numbers
    <2>2. lastId \in Nat /\ 0 <= lastId  BY IdsNat DEF RestSound
    <2>3. ASSUME NEW b \in Actors, NEW i \in Of(task'[b]) PROVE i <= lastId
      <3>1. CASE b = a  BY <2>2, <3>1 DEF Changes, GoesOn, Bounded
      <3>2. CASE b # a  BY <2>2, <3>2, IdleFacts DEF Changes, Bounded, Of
      <3> QED  BY <3>1, <3>2
    <2>4. ASSUME NEW k \in known' PROVE k[2] <= lastId
      BY DEF KnownGrows, Bounded, Of
    <2> QED  BY <2>1, <2>3, <2>4 DEF Bounded, Numbers
  <1>6. HandedOnce'
    <2> SUFFICES ASSUME NEW c \in Actors, Handed(task'[c])
                 PROVE  /\ task'[c].msg \notin DOMAIN rows' /\ task'[c].msg \notin task'[c].todo
                        /\ \A k \in known' : k[2] # task'[c].msg
                        /\ \A b \in Actors \ {c} : task'[c].msg \notin Of(task'[b])
      BY DEF HandedOnce, Numbers
    <2>1. CASE c = a
      <3>1. Handed(task[a]) /\ t.msg = task[a].msg /\ t.todo \subseteq task[a].todo
        BY <2>1 DEF Changes, GoesOn
      <3>2. known' = known  BY <2>1 DEF KnownGrows
      <3>3. t.msg # 0  BY <1>2, <3>1, IdsNat
      <3>4. /\ t.msg \notin Numbers /\ t.msg \notin task[a].todo
            /\ \A k \in known : k[2] # t.msg
            /\ \A b \in Actors \ {a} : t.msg \notin Of(task[b])
        BY <3>1 DEF HandedOnce
      <3>5. t.msg \notin DOMAIN rows' /\ task'[a] = t  BY <2>1, <3>1 DEF Changes
      <3>6. ASSUME NEW b \in Actors \ {a} PROVE t.msg \notin Of(task'[b])
        <4>1. t.msg \notin Of(Idle)  BY <3>3, IdleFacts DEF Of
        <4>2. task'[b] = task[b] \/ task'[b] = Idle  BY DEF Changes
        <4> QED  BY <3>4, <4>1, <4>2
      <3> QED  BY <2>1, <3>1, <3>2, <3>4, <3>5, <3>6
    <2>2. CASE c # a
      <3>1. task'[c] = task[c] /\ Handed(task[c])  BY <2>2, IdleFacts DEF Changes
      <3>2. task[c].msg # 0  BY <3>1, IdsNat DEF TasksSound, TaskSound, Handed
      <3>3. /\ task[c].msg \notin Numbers /\ task[c].msg \notin task[c].todo
            /\ \A k \in known : k[2] # task[c].msg
            /\ \A b \in Actors \ {c} : task[c].msg \notin Of(task[b])
        BY <3>1 DEF HandedOnce
      <3>4. task[c].msg \notin Of(task[a])  BY <2>2, <3>3
      <3>5. task[c].msg \notin DOMAIN rows'  BY <3>3, <3>4 DEF RowsKept, Of
      <3>6. \A k \in known' : k[2] # task[c].msg  BY <3>3, <3>4 DEF KnownGrows, Of
      <3>7. ASSUME NEW b \in Actors \ {c} PROVE task[c].msg \notin Of(task'[b])
        <4>1. CASE b = a  BY <3>2, <3>3, <3>4, <4>1 DEF Changes, GoesOn
        <4>2. CASE b # a  BY <3>2, <3>3, <4>2, IdleFacts DEF Changes, Of
        <4> QED  BY <4>1, <4>2
      <3> QED  BY <3>1, <3>3, <3>5, <3>6, <3>7
    <2> QED  BY <2>1, <2>2
  <1>7. BidsAreUnique'
    BY DEF BidsAreUnique, RowsKept, Numbers
  <1>8. SeenStays'
    <2> SUFFICES ASSUME NEW c \in Actors, task'[c].at \in {"op", "sent", "append"},
                        task'[c].seen # Blank, task'[c].msg \in DOMAIN rows'
                 PROVE  rows'[task'[c].msg].bid = task'[c].seen.bid
      BY DEF SeenStays, SeenOf, Numbers
    <2>1. CASE c = a
      <3>1. task'[c].msg \in Numbers  BY <2>1 DEF RowsKept, GoesOn, Changes
      <3> QED  BY <2>1, <3>1 DEF RowsKept, GoesOn, SeenOf, Changes
    <2>2. CASE c # a
      <3>1. task'[c] = task[c]  BY <2>2, IdleFacts DEF Changes
      <3>2. task[c].msg \in Numbers
        BY <2>2, <3>1 DEF RowsKept, HandedOnce, Of
      <3> QED  BY <3>1, <3>2 DEF RowsKept, SeenStays, SeenOf
    <2> QED  BY <2>1, <2>2
  <1> QED  BY <1>1, <1>3, <1>4, <1>5, <1>6, <1>7, <1>8

-----------------------------------------------------------------------------
(***************************************************************************)
(* Paths.                                                                  *)
(***************************************************************************)

\* What a step has to keep of the records: a row gets status F, or a pair becomes
\* known, only with the entry about to be written; a path loses nothing that is
\* not noted as torn; an entry that waits is written, lost, or waits on.
MarkedPending ==
  \A i \in DOMAIN rows' : rows'[i].status = "F" =>
    \/ i \in Numbers /\ rows[i].status = "F"
    \/ \E b \in Links : Pending(task'[b], "", i)

KnownPending ==
  \A k \in known' : k[2] \in DOMAIN rows' =>
    \/ k \in known /\ k[2] \in Numbers
    \/ \E b \in Links : Pending(task'[b], k[1], k[2])

PathsStay ==
  \A i \in Numbers \cap DOMAIN rows' : rows[i].path \subseteq rows'[i].path \/ i \in torn'

PendingStays ==
  \A b \in Links, n \in Neighbours \cup {""}, i \in Ids :
    Pending(task[b], n, i) /\ i \in DOMAIN rows' =>
      \/ i \in torn'
      \/ Node \in rows'[i].path
      \/ n # "" /\ n \in rows'[i].path
      \/ \E c \in Links : Pending(task'[c], n, i)

LEMMA Paths ==
  ASSUME ForwardedRecorded, KnownRecorded, TableSound', known' \subseteq Neighbours \X Ids,
         torn \subseteq torn', MarkedPending, KnownPending, PathsStay, PendingStays
  PROVE  ForwardedRecorded' /\ KnownRecorded'
  <1>1. ASSUME NEW i \in DOMAIN rows', rows'[i].status = "F"
        PROVE  \/ Node \in rows'[i].path \/ i \in torn'
               \/ \E b \in Links : Pending(task'[b], "", i)
    <2>1. i \in Ids  BY DEF TableSound, Numbers
    <2>2. CASE i \in Numbers /\ rows[i].status = "F"
      <3>1. CASE Node \in rows[i].path \/ i \in torn
        BY <2>2, <3>1 DEF PathsStay
      <3>2. CASE \E b \in Links : Pending(task[b], "", i)
        BY <2>1, <3>2 DEF PendingStays
      <3> QED  BY <2>2, <3>1, <3>2 DEF ForwardedRecorded
    <2> QED  BY <1>1, <2>2 DEF MarkedPending
  <1>2. ASSUME NEW k \in known', k[2] \in DOMAIN rows'
        PROVE  \/ {Node, k[1]} \cap rows'[k[2]].path # {} \/ k[2] \in torn'
               \/ \E b \in Links : Pending(task'[b], k[1], k[2])
    <2>1. k[1] \in Neighbours /\ k[2] \in Ids  OBVIOUS
    <2>2. CASE k \in known /\ k[2] \in Numbers
      <3>1. CASE {Node, k[1]} \cap rows[k[2]].path # {} \/ k[2] \in torn
        BY <1>2, <2>2, <3>1 DEF PathsStay
      <3>2. CASE \E b \in Links : Pending(task[b], k[1], k[2])
        BY <1>2, <2>1, <3>2 DEF PendingStays
      <3> QED  BY <2>2, <3>1, <3>2 DEF KnownRecorded
    <2> QED  BY <1>2, <2>2 DEF KnownPending
  <1> QED  BY <1>1, <1>2 DEF ForwardedRecorded, KnownRecorded, Numbers

\* A step that only looks: an entry that waited in the task's hand waits on, is
\* noted as torn, or its message is gone.
LEMMA LookStep ==
  ASSUME MailboxInv, NEW a \in Actors, NEW t, Becomes(a, t), GoesOn(a, t), RestSound',
         rows' = rows, lastId' = lastId, known' = known, torn \subseteq torn',
         \A n \in Neighbours \cup {""}, i \in Ids :
           Pending(task[a], n, i) => Pending(t, n, i) \/ i \in torn' \/ i \notin Numbers
  PROVE  MailboxInv'
  <1>1. Changes(a, t)
    BY BecomesChanges DEF MailboxInv, GoesOn, TaskSound
  <1>2. RowsKept(a)
    BY DEF MailboxInv, TableSound, RowsKept, Numbers
  <1>3. KnownGrows(a)  BY DEF KnownGrows
  <1>4. /\ TasksSound' /\ TableSound' /\ RoomIsLeft' /\ Bounded' /\ HandedOnce'
        /\ BidsAreUnique' /\ SeenStays'
    <2>1. Handed(t) => task[a].msg \notin DOMAIN rows'
      BY DEF MailboxInv, HandedOnce, GoesOn, Numbers
    <2>2. DOMAIN rows' \subseteq Numbers  BY DEF Numbers
    <2> QED  BY <1>1, <1>2, <1>3, <2>1, <2>2, Moves
  <1>5. ForwardedRecorded' /\ KnownRecorded'
    <2>1. MarkedPending  BY DEF MarkedPending, Numbers
    <2>2. KnownPending  BY DEF KnownPending, Numbers
    <2>3. PathsStay  BY DEF PathsStay
    <2>4. PendingStays
      <3>1. ASSUME NEW b \in Links, NEW n \in Neighbours \cup {""}, NEW i \in Ids,
                   Pending(task[b], n, i), i \in DOMAIN rows'
            PROVE  i \in torn' \/ \E c \in Links : Pending(task'[c], n, i)
        <4>1. CASE b = a  BY <1>1, <3>1, <4>1 DEF Changes, Numbers
        <4>2. CASE b # a
          <5>1. task'[b] = task[b]
            BY <4>2, ActorFacts DEF Becomes, MailboxInv, TasksSound
          <5> QED  BY <3>1, <5>1
        <4> QED  BY <4>1, <4>2
      <3> QED  BY <3>1 DEF PendingStays
    <2>5. known' \subseteq Neighbours \X Ids  BY DEF RestSound
    <2> QED  BY <1>4, <2>1, <2>2, <2>3, <2>4, <2>5, Paths DEF MailboxInv
  <1> QED  BY <1>4, <1>5 DEF MailboxInv

-----------------------------------------------------------------------------
(***************************************************************************)
(* The steps that look, or end a task.                                     *)
(***************************************************************************)
LEMMA TaskOf ==
  ASSUME MailboxInv, NEW a \in Actors
  PROVE  task[a] \in Task /\ TaskSound(a, task[a])
  BY DEF MailboxInv, TasksSound

LEMMA GoesToIdle ==
  ASSUME NEW a PROVE GoesOn(a, Idle)
  BY IdleFacts DEF GoesOn, Of, SeenOf

\* What a read, or a write that changes only the lock, leaves of RestSound.
LEMMA RestKept ==
  ASSUME RestSound, lastId' = lastId, writer' \in Processes \cup {writer, "none"},
         tasks' \in 0 .. MaxTasks, torn' \subseteq Ids, known' \subseteq Neighbours \X Ids,
         UNCHANGED <<clock, crashes>>
  PROVE  RestSound'
  BY DEF RestSound

LEMMA LookOnly ==
  ASSUME MailboxInv, NEW a \in Actors, NEW t, Becomes(a, t), GoesOn(a, t),
         UNCHANGED <<rows, lastId, history, bounds>>, writer' \in Processes \cup {writer, "none"},
         task[a].at \notin {"path", "append"}
  PROVE  MailboxInv'
  <1>1. RestSound'  BY RestKept DEF MailboxInv, RestSound, history, bounds
  <1>2. \A n \in Neighbours \cup {""}, i \in Ids : ~Pending(task[a], n, i)
    BY DEF Pending
  <1> QED  BY <1>1, <1>2, LookStep DEF history

LEMMA EndStep ==
  ASSUME MailboxInv, NEW a \in Actors, CloseLink(a) \/ Break(a)
  PROVE  MailboxInv'
  <1>1. /\ Becomes(a, Idle) /\ UNCHANGED <<rows, lastId, history, bounds>> /\ writer' = writer
        /\ task[a].at \notin {"path", "append"}
    BY DEF CloseLink, Break, Reads
  <1> QED  BY <1>1, LookOnly, GoesToIdle

LEMMA GenerateStep ==
  ASSUME MailboxInv, NEW a \in Actors, generate_bid(a)
  PROVE  MailboxInv'
  <1> DEFINE t == task[a]
             U == Untaken(t)
             bid == CHOOSE b \in U : \A c \in U : b[3] <= c[3]
             s == [t.seen EXCEPT !.bid = bid]
             u == [t EXCEPT !.at = "insert", !.seen = s]
  <1>1. t \in Task /\ TaskSound(a, t) /\ t.at = "bid"  BY TaskOf DEF generate_bid
  <1>2. /\ U # {} /\ Becomes(a, [t EXCEPT !.at = "insert", !.seen.bid = bid])
        /\ UNCHANGED <<rows, lastId, history, bounds>> /\ writer' = writer
    BY DEF generate_bid, Reads
  <1>3. t.seen \in Row /\ t.msg \in Ids /\ t.seen.from \in Users /\ t.seen.born \div BidDays \in Periods
        /\ t.op \in {"compose", "copy", "reply", "receive"}
        /\ t.seen.status = "N" /\ t.seen.path = {}
    BY <1>1, TaskFields DEF TaskSound
  <1>4. U \subseteq LocalBid  BY <1>3 DEF Untaken, LocalBid
  <1>5. bid \in U
    <2>1. \A b \in U : b[3] \in Nat
      <3>1. BidSpace \in Nat  BY MailboxAssumption
      <3>2. 0 .. BidSpace - 1 \subseteq Nat  BY <3>1
      <3> QED  BY <1>4, <3>2 DEF LocalBid
    <2> DEFINE T == {b[3] : b \in U}
    <2>2. T \in SUBSET Nat /\ T # {}  BY <1>2, <2>1
    <2>3. \E x \in T : \A y \in T : x <= y
      <3> HIDE DEF T
      <3> QED  BY <2>2, MinNat
    <2>4. \E b \in U : \A c \in U : b[3] <= c[3]  BY <2>3
    <2> QED  BY <2>4
  <1> HIDE DEF bid, U
  <1>6. bid \in LocalBid /\ bid # NoBid
    <2>1. "" \notin Users  BY MailboxAssumption
    <2>2. bid \in LocalBid  BY <1>4, <1>5
    <2>3. bid[1] \in Users  BY <2>2 DEF LocalBid
    <2>4. NoBid[1] = ""  BY DEF NoBid
    <2> QED  BY <2>1, <2>2, <2>3, <2>4
  <1>7. s \in Row /\ s.status = "N" /\ s.path = {} /\ s.bid = bid
    <2>1. s \in Row  BY <1>3, <1>6, RowFields, Zenon DEF Row
    <2>2. s.status = t.seen.status /\ s.path = t.seen.path /\ s.bid = bid  BY <1>3 DEF Row
    <2> QED  BY <1>3, <2>1, <2>2
  <1>8. [t EXCEPT !.at = "insert", !.seen.bid = bid] = u  OBVIOUS
  <1> HIDE DEF s
  <1>9. u \in Task  BY <1>1, <1>7, TaskFields, StageFacts, Zenon DEF Task
  <1>10. u.at = "insert" /\ u.msg = t.msg /\ u.todo = t.todo /\ u.seen = s /\ u.op = t.op /\ u.nbr = t.nbr
    BY <1>1 DEF Task
  <1> HIDE DEF u
  <1>11. TaskSound(a, u)  BY <1>1, <1>3, <1>6, <1>7, <1>9, <1>10 DEF TaskSound
  <1>12. GoesOn(a, u)  BY <1>1, <1>10, <1>11 DEF GoesOn, Of, Handed, SeenOf
  <1> QED  BY <1>1, <1>2, <1>8, <1>12, LookOnly

LEMMA ReadPathStep ==
  ASSUME MailboxInv, NEW a \in Actors, ReadPath(a)
  PROVE  MailboxInv'
  <1> DEFINE t == task[a]
  <1>1. t \in Task /\ TaskSound(a, t) /\ t.at = "path"  BY TaskOf DEF ReadPath
  <1>2. /\ UNCHANGED <<rows, lastId, history, bounds>> /\ writer' = writer
    BY DEF ReadPath, Reads
  <1>3. RestSound'  BY <1>2, RestKept DEF MailboxInv, RestSound, history, bounds
  <1>4. CASE t.msg \in Numbers
    <2> DEFINE r == rows[t.msg]
               s == [Named(r) EXCEPT !.path = r.path]
               u == [t EXCEPT !.at = "append", !.seen = s]
    <2>1. Becomes(a, u)  BY <1>4 DEF ReadPath
    <2>2. r \in Row  BY <1>4 DEF MailboxInv, TableSound
    <2>3. s \in Row /\ s.bid = r.bid
      <3> HIDE DEF r
      <3>1. r.path \in SUBSET (Neighbours \cup {Node})  BY <2>2, RowFields
      <3> QED  BY <2>2, <3>1, NamedFacts
    <2> HIDE DEF s
    <2>4. u \in Task  BY <1>1, <2>3, TaskFields, StageFacts, Zenon DEF Task
    <2>5. u.at = "append" /\ u.msg = t.msg /\ u.todo = t.todo /\ u.seen = s /\ u.op = t.op /\ u.nbr = t.nbr
      BY <1>1 DEF Task
    <2> HIDE DEF u
    <2>6. TaskSound(a, u)  BY <1>1, <2>4, <2>5 DEF TaskSound
    <2>7. GoesOn(a, u)  BY <1>1, <2>3, <2>5, <2>6 DEF GoesOn, Of, Handed, SeenOf
    <2>8. \A n \in Neighbours \cup {""}, i \in Ids : Pending(t, n, i) => Pending(u, n, i)
      BY <2>5 DEF Pending
    <2> QED  BY <1>2, <1>3, <2>1, <2>7, <2>8, LookStep DEF history
  <1>5. CASE t.msg \notin Numbers
    <2>1. Becomes(a, Done(t))  BY <1>5 DEF ReadPath
    <2>2. /\ TaskSound(a, Done(t)) /\ Done(t).at \in {"idle", "next", "transfer"}
          /\ Of(Done(t)) \subseteq Of(t) \cup {0}
      <3>1. \/ t.op \in {"send", "receive"} /\ a \in Links /\ t.nbr \in Neighbours
            \/ t.op = "drop" /\ t.todo = {}
        BY <1>1 DEF TaskSound
      <3> QED  BY <1>1, <3>1, DoneFacts
    <2>3. GoesOn(a, Done(t))  BY <2>2 DEF GoesOn, Handed, SeenOf
    <2>4. \A n \in Neighbours \cup {""}, i \in Ids : Pending(t, n, i) => i \notin Numbers
      BY <1>5 DEF Pending
    <2> QED  BY <1>2, <1>3, <2>1, <2>3, <2>4, LookStep DEF history
  <1> QED  BY <1>4, <1>5

LEMMA ContinueStep ==
  ASSUME MailboxInv, NEW a \in Actors, Continue(a)
  PROVE  MailboxInv'
  <1> DEFINE t == task[a]
  <1>1. t \in Task /\ TaskSound(a, t) /\ t.at \in {"next", "bulk"} /\ t.op \in {"read", "kill"}
    BY TaskOf DEF Continue, TaskSound
  <1>2. PICK i \in t.todo : \E x \in Looked(a, [t EXCEPT !.todo = @ \ {i}], i) : Becomes(a, x)
    BY DEF Continue
  <1> DEFINE u == [t EXCEPT !.todo = @ \ {i}]
  <1>3. PICK x : x \in Looked(a, u, i) /\ Becomes(a, x)  BY <1>2
  <1>4. i \in Ids  BY <1>1, TaskFields
  <1>5. t.todo \ {i} \in SUBSET Ids  BY <1>1, TaskFields
  <1>6. u \in Task /\ u.op = t.op /\ u.todo = t.todo \ {i} /\ u.msg = t.msg
    <2>1. u \in Task  BY <1>1, <1>5, TaskFields, Zenon DEF Task
    <2>2. u.op = t.op /\ u.todo = t.todo \ {i} /\ u.msg = t.msg  BY <1>1 DEF Task
    <2> QED  BY <2>1, <2>2
  <1> HIDE DEF u
  <1>7. /\ TaskSound(a, x) /\ Of(x) \subseteq Of(u) \cup {i, 0}
        /\ x.at \in {"idle", "next", "transfer", "op", "number"} /\ x.at # "number"
        /\ SeenOf(x)
    <2>1. TableSound  BY DEF MailboxInv
    <2>2. u.op \in {"read", "kill"}  BY <1>1, <1>6
    <2>3. /\ u.op \in {"read", "kill", "edit", "move", "copy", "reply"}
          /\ u.op \notin {"read", "kill"} => u.todo = {}
          /\ u.op \in {"copy", "reply"} => a \in Clients
      BY <2>2
    <2>4. u \in Task  BY <1>6
    <2>5. /\ TaskSound(a, x) /\ Of(x) \subseteq Of(u) \cup {i, 0}
          /\ x.at \in {"idle", "next", "transfer", "op", "number"}
          /\ x.at = "number" => u.op \in {"copy", "reply"}
          /\ SeenOf(x)
      <3>1. x \in Looked(a, u, i)  BY <1>3
      <3> QED  BY <2>1, <2>3, <2>4, <1>4, <3>1, LookedFacts
    <2> QED  BY <2>2, <2>5
  <1>8. GoesOn(a, x)  BY <1>1, <1>6, <1>7 DEF GoesOn, Of, Handed
  <1> QED  BY <1>1, <1>3, <1>8, LookOnly DEF Continue, Reads

LEMMA LinkStep ==
  ASSUME MailboxInv, NEW a \in Actors, Exchange(a) \/ Send(a) \/ Receive(a)
  PROVE  MailboxInv'
  <1> DEFINE t == task[a]
  <1>1. t \in Task /\ TaskSound(a, t) /\ t.at \in {"answer", "transfer"}
    BY TaskOf DEF Exchange, Send, Receive
  <1>2. a \in Links /\ t.op = "link" /\ t.nbr \in Neighbours  BY <1>1 DEF TaskSound
  <1>3. UNCHANGED <<rows, lastId, history, bounds>> /\ writer' = writer
    BY DEF Exchange, Send, Receive, Reads
  <1>4. CASE Exchange(a)
    <2>1. PICK granted \in SUBSET t.todo, offered \in SUBSET RemoteMail :
            Becomes(a, [t EXCEPT !.at = "transfer", !.todo = granted,
                                 !.inc = {m \in offered : FarLetter(m).bid \notin Bids}])
      BY <1>4 DEF Exchange
    <2> DEFINE w == {m \in offered : FarLetter(m).bid \notin Bids}
               u == [t EXCEPT !.at = "transfer", !.todo = granted, !.inc = w]
    <2>2. w \in SUBSET RemoteMail  OBVIOUS
    <2>3. granted \in SUBSET Ids  BY <1>1, TaskFields
    <2> HIDE DEF w
    <2>4. u \in Task  BY <1>1, <2>2, <2>3, StageFacts, TaskFields, Zenon DEF Task
    <2>5. u.at = "transfer" /\ u.op = t.op /\ u.todo = granted /\ u.msg = t.msg /\ u.nbr = t.nbr
      BY <1>1 DEF Task
    <2>6. Becomes(a, u)  BY <2>1 DEF w
    <2> HIDE DEF u
    <2>7. TaskSound(a, u)  BY <1>2, <2>4, <2>5 DEF TaskSound
    <2>8. GoesOn(a, u)  BY <2>5, <2>7 DEF GoesOn, Of, Handed, SeenOf
    <2> QED  BY <1>1, <1>3, <2>6, <2>8, LookOnly
  <1>5. CASE Send(a)
    <2> DEFINE i == Min(t.todo)
               s == IF i \in Numbers THEN Named(rows[i]) ELSE Blank
               w == t.todo \ {i}
               u == [t EXCEPT !.at = "sent", !.op = "send", !.todo = w, !.msg = i, !.seen = s]
    <2>1. t.todo \in SUBSET Ids /\ t.todo # {}  BY <1>1, <1>5, TaskFields DEF Send
    <2>2. i \in t.todo /\ i \in Ids  BY <2>1, IdsNat, MinFacts
    <2>3. Becomes(a, u)  BY <1>5 DEF Send
    <2> HIDE DEF i
    <2>4. s \in Row /\ (s # Blank /\ i \in Numbers => s.bid = rows[i].bid)
      BY BlankFacts, NamedFacts DEF MailboxInv, TableSound
    <2>5. w \in SUBSET Ids  BY <2>1
    <2> HIDE DEF s, w
    <2>6. u \in Task  BY <1>1, <2>2, <2>4, <2>5, StageFacts, TaskFields, Zenon DEF Task
    <2>7. /\ u.at = "sent" /\ u.op = "send" /\ u.todo = w /\ u.msg = i /\ u.seen = s
          /\ u.nbr = t.nbr
      BY <1>1 DEF Task
    <2> HIDE DEF u
    <2>8. TaskSound(a, u)  BY <1>2, <2>2, <2>6, <2>7 DEF TaskSound
    <2>9. GoesOn(a, u)  BY <1>1, <2>2, <2>4, <2>7, <2>8 DEF GoesOn, Of, Handed, SeenOf, w
    <2> QED  BY <1>1, <1>3, <2>3, <2>9, LookOnly
  <1>6. CASE Receive(a)
    <2> DEFINE m == Min(t.inc)
               w == t.inc \ {m}
               u == [t EXCEPT !.inc = w]
               v == [t EXCEPT !.op = "receive", !.inc = w]
               x == FarLetter(m)
    <2>1. t.inc \in SUBSET RemoteMail /\ t.inc # {} /\ t.todo = {}
      BY <1>1, <1>6, TaskFields DEF Receive
    <2>2. m \in RemoteMail
      <3>1. t.inc \in SUBSET Nat  BY <2>1, MailboxAssumption
      <3> QED  BY <2>1, <3>1, MinFacts
    <2>3. \/ Becomes(a, u)
          \/ Room /\ Becomes(a, HandLetter(v, x))
      BY <1>6 DEF Receive
    <2> HIDE DEF m
    <2>4. w \in SUBSET RemoteMail  BY <2>1
    <2> HIDE DEF w
    <2>5. u \in Task /\ v \in Task
      BY <1>1, <2>4, StageFacts, TaskFields, Zenon DEF Task
    <2>6. /\ u.at = t.at /\ u.op = t.op /\ u.todo = t.todo /\ u.msg = t.msg /\ u.nbr = t.nbr
          /\ v.op = "receive" /\ v.todo = t.todo /\ v.msg = t.msg /\ v.nbr = t.nbr
      BY <1>1 DEF Task
    <2>7. t.at = "transfer"  BY <1>6 DEF Receive
    <2> HIDE DEF u, v
    <2>8. TaskSound(a, u)  BY <1>2, <2>5, <2>6, <2>7 DEF TaskSound
    <2>9. GoesOn(a, u)  BY <2>6, <2>7, <2>8 DEF GoesOn, Of, Handed, SeenOf
    <2>10. Room => GoesOn(a, HandLetter(v, x))
      <3> DEFINE h == HandLetter(v, x)
      <3>1. TaskSound(a, h) /\ Of(h) = Of(v) /\ h.at = "number"
        <4>1. x \in Row /\ x.status = "N" /\ x.path = {} /\ x.bid # NoBid
          BY <2>2, LetterFacts
        <4> HIDE DEF x
        <4> QED  BY <1>2, <2>5, <2>6, <4>1, LetterInHand
      <3>2. Room => GoesOn(a, h)
        <4> HIDE DEF h
        <4> QED  BY <2>6, <3>1 DEF GoesOn, Of, Handed, SeenOf
      <3> QED  BY <3>2
    <2> QED  BY <1>1, <1>3, <2>3, <2>9, <2>10, LookOnly
  <1> QED  BY <1>4, <1>5, <1>6

LEMMA LockedStep ==
  ASSUME MailboxInv, NEW a \in Actors, DatabaseLocked(a)
  PROVE  MailboxInv'
  <1> DEFINE t == task[a]
             u == IF t.op = "send" THEN Done(t) ELSE Idle
  <1>1. t \in Task /\ TaskSound(a, t)  BY TaskOf
  <1>2. /\ UNCHANGED <<rows, lastId, writer, known, bounds>> /\ Becomes(a, u)
        /\ torn' = torn \cup IF PathPending(a) THEN {t.msg} ELSE {}
    BY DEF DatabaseLocked
  <1>3. t.at \in {"path", "append"} => t.msg \in Ids  BY <1>1 DEF TaskSound
  <1>4. torn' \subseteq Ids  BY <1>2, <1>3 DEF MailboxInv, RestSound, PathPending
  <1>5. RestSound'  BY <1>2, <1>4, RestKept DEF MailboxInv, RestSound, bounds
  <1>6. GoesOn(a, u)
    <2>1. CASE t.op = "send"
      <3>1. a \in Links /\ t.nbr \in Neighbours  BY <1>1, <2>1 DEF TaskSound
      <3>2. /\ TaskSound(a, Done(t)) /\ Done(t).at \in {"idle", "next", "transfer"}
            /\ Of(Done(t)) \subseteq Of(t) \cup {0}
        BY <1>1, <2>1, <3>1, DoneFacts
      <3> QED  BY <2>1, <3>2 DEF GoesOn, Handed, SeenOf
    <2>2. CASE t.op # "send"  BY <2>2, GoesToIdle
    <2> QED  BY <2>1, <2>2
  <1>7. \A n \in Neighbours \cup {""}, i \in Ids : Pending(t, n, i) => i \in torn'
    BY <1>1, <1>2 DEF Pending, PathPending, TaskSound
  <1> HIDE DEF u
  <1> QED  BY <1>2, <1>5, <1>6, <1>7, LookStep

-----------------------------------------------------------------------------
(***************************************************************************)
(* Tasks that start.                                                       *)
(***************************************************************************)
LEMMA StartStep ==
  ASSUME MailboxInv, NEW a \in Actors, NEW t, Starts(a, t), Reads(a),
         TaskSound(a, t), Of(t) \subseteq Numbers \cup {0}, t.at = "number" => Room,
         ~Handed(t), SeenOf(t), UNCHANGED <<rows, lastId, history, clock, crashes>>
  PROVE  MailboxInv'
  <1>1. task[a].at = "idle" /\ tasks < MaxTasks /\ tasks' = tasks + 1 /\ Becomes(a, t)
    BY DEF Starts
  <1>2. tasks' \in 0 .. MaxTasks
    <2>1. MaxTasks \in Nat  BY MailboxAssumption
    <2>2. tasks \in 0 .. MaxTasks  BY DEF MailboxInv, RestSound
    <2> QED  BY <1>1, <2>1, <2>2
  <1>3. RestSound'  BY <1>2, RestKept DEF MailboxInv, RestSound, history, Reads
  <1>4. GoesOn(a, t)  BY <1>1 DEF GoesOn, Handed
  <1>5. \A n \in Neighbours \cup {""}, i \in Ids : ~Pending(task[a], n, i)
    BY <1>1 DEF Pending
  <1> QED  BY <1>1, <1>3, <1>4, <1>5, LookStep DEF history

LEMMA PostStep ==
  ASSUME MailboxInv, NEW a \in Actors, Compose(a) \/ SendMessage(a) \/ PageSysop(a)
  PROVE  MailboxInv'
  <1>1. PICK x : /\ Posts(a, x)
                 /\ x \in Letters(User(a)) \/ x = [Blank EXCEPT !.from = User(a), !.to = Sysop]
    BY DEF Compose, SendMessage, PageSysop
  <1> DEFINE t == [Idle EXCEPT !.op = "compose"]
             h == HandLetter(t, x)
  <1>2. a \in Clients /\ Room /\ Reads(a) /\ Starts(a, h)
        /\ UNCHANGED <<rows, lastId, history, clock, crashes>>
    BY <1>1 DEF Posts
  <1>3. User(a) \in Users  BY <1>2, ActorFacts
  <1>4. x \in Row /\ x.status = "N" /\ x.path = {} /\ x.from \in Users
    <2>1. CASE x \in Letters(User(a))  BY <1>3, <2>1, LetterFacts
    <2>2. CASE x = [Blank EXCEPT !.from = User(a), !.to = Sysop]
      <3>1. Sysop \in Users  BY MailboxAssumption
      <3> QED  BY <1>3, <2>2, <3>1, BlankFacts DEF Row
    <2> QED  BY <1>1, <2>1, <2>2
  <1>5. t \in Task /\ t.op = "compose" /\ t.todo = {} /\ t.msg = 0
    BY IdleFacts, StageFacts DEF Task
  <1> HIDE DEF t
  <1>6. TaskSound(a, h) /\ Of(h) = Of(t) /\ h.at = "number"
    BY <1>4, <1>5, LetterInHand
  <1> HIDE DEF h
  <1>7. Of(h) \subseteq {0} /\ ~Handed(h) /\ SeenOf(h)
    BY <1>5, <1>6 DEF Of, Handed, SeenOf
  <1> QED  BY <1>2, <1>6, <1>7, StartStep

LEMMA CommandStep ==
  ASSUME MailboxInv, NEW a \in Actors, Command(a)
  PROVE  MailboxInv'
  <1>1. PICK op \in {"read", "kill", "edit", "move", "copy", "reply"}, w \in SUBSET Numbers \ {{}} :
          /\ Cardinality(w) > 1 => Terminal(a) /\ op \in {"read", "kill"}
          /\ op \in {"copy", "reply"} => Room
          /\ \E i \in w : \E t \in Looked(a, [Idle EXCEPT !.op = op, !.todo = w \ {i}], i) :
               t # Idle /\ Starts(a, t)
    BY DEF Command
  <1>2. PICK i \in w : \E t \in Looked(a, [Idle EXCEPT !.op = op, !.todo = w \ {i}], i) :
               t # Idle /\ Starts(a, t)
    BY <1>1
  <1> DEFINE v == w \ {i}
             u == [Idle EXCEPT !.op = op, !.todo = v]
  <1>3. PICK t : t \in Looked(a, u, i) /\ Starts(a, t)  BY <1>2
  <1>4. i \in Ids /\ i \in Numbers /\ v \in SUBSET Ids /\ v \subseteq Numbers
    BY DEF MailboxInv, TableSound
  <1>5. op \notin {"read", "kill"} => v = {}
    <2> SUFFICES ASSUME ~(Cardinality(w) > 1) PROVE v = {}  BY <1>1
    <2>1. IsFiniteSet(w)
      <3>1. MaxId \in Nat \ {0}  BY MailboxAssumption
      <3>2. IsFiniteSet(Ids)  BY <3>1, FS_Interval DEF Ids
      <3>3. w \subseteq Ids  BY DEF MailboxInv, TableSound
      <3> QED  BY <3>2, <3>3, FS_Subset
    <2>2. IsFiniteSet(v) /\ Cardinality(v) = Cardinality(w) - 1  BY <2>1, FS_RemoveElement
    <2>3. Cardinality(w) \in Nat /\ Cardinality(v) \in Nat  BY <2>1, <2>2, FS_CardinalityType
    <2>4. Cardinality(v) = 0  BY <2>2, <2>3
    <2> QED  BY <2>2, <2>4, FS_EmptySet
  <1> HIDE DEF v
  <1>6. u \in Task /\ u.op = op /\ u.todo = v /\ u.msg = 0
    <2>1. u \in Task
      <3>1. op \in Ops  BY <1>1, StageFacts
      <3> QED  BY <1>4, <3>1, IdleFacts, TaskFields, Zenon DEF Task
    <2>2. u.op = op /\ u.todo = v /\ u.msg = 0  BY IdleFacts DEF Task
    <2> QED  BY <2>1, <2>2
  <1>7. a \in Clients /\ Reads(a) /\ UNCHANGED <<rows, lastId, history, clock, crashes>>
    BY DEF Command
  <1> HIDE DEF u
  <1>8. /\ TaskSound(a, t) /\ Of(t) \subseteq Of(u) \cup {i, 0}
        /\ t.at \in {"idle", "next", "transfer", "op", "number"}
        /\ t.at = "number" => u.op \in {"copy", "reply"}
        /\ SeenOf(t)
    <2>1. TableSound  BY DEF MailboxInv
    <2>2. /\ u.op \in {"read", "kill", "edit", "move", "copy", "reply"}
          /\ u.op \notin {"read", "kill"} => u.todo = {}
      BY <1>5, <1>6
    <2> QED  BY <2>1, <2>2, <1>3, <1>4, <1>6, <1>7, LookedFacts
  <1>9. Of(t) \subseteq Numbers \cup {0}  BY <1>4, <1>6, <1>8 DEF Of
  <1>10. t.at = "number" => Room  BY <1>1, <1>6, <1>8
  <1>11. ~Handed(t)  BY <1>8 DEF Handed
  <1> QED  BY <1>3, <1>7, <1>8, <1>9, <1>10, <1>11, StartStep

LEMMA DropStep ==
  ASSUME MailboxInv, NEW a \in Actors, ForwardDrop(a)
  PROVE  MailboxInv'
  <1>1. PICK i \in Numbers, n \in Neighbours :
          Starts(a, [Idle EXCEPT !.at = "path", !.op = "drop", !.msg = i, !.nbr = n,
                                 !.seen = Named(rows[i])])
    BY DEF ForwardDrop
  <1> DEFINE s == Named(rows[i])
             t == [Idle EXCEPT !.at = "path", !.op = "drop", !.msg = i, !.nbr = n, !.seen = s]
  <1>2. i \in Ids /\ s \in Row  BY NamedFacts DEF MailboxInv, TableSound
  <1>3. Starts(a, t)  BY <1>1
  <1> HIDE DEF s
  <1>4. t \in Task  BY <1>2, IdleFacts, StageFacts, TaskFields, Zenon DEF Task
  <1>5. t.at = "path" /\ t.op = "drop" /\ t.msg = i /\ t.nbr = n /\ t.todo = {}
    BY IdleFacts DEF Task
  <1> HIDE DEF t
  <1>6. TaskSound(a, t)  BY <1>2, <1>4, <1>5 DEF TaskSound
  <1>7. Of(t) \subseteq Numbers /\ ~Handed(t) /\ SeenOf(t) /\ t.at # "number"
    BY <1>5 DEF Of, Handed, SeenOf
  <1> QED  BY <1>3, <1>6, <1>7, StartStep DEF ForwardDrop

LEMMA ListStep ==
  ASSUME MailboxInv, NEW a \in Actors, ReadAll(a) \/ KillMine(a) \/ KillKind(a)
  PROVE  MailboxInv'
  <1>1. PICK op \in {"read", "kill", "bulk"}, w \in SUBSET Numbers : Lists(a, op, w)
    <2>1. \A c, v : list_messages(c, v) \subseteq Numbers  BY DEF list_messages
    <2>2. CASE ReadAll(a)  BY <2>1, <2>2 DEF ReadAll
    <2>3. CASE KillMine(a)  BY <2>1, <2>3 DEF KillMine
    <2>4. CASE KillKind(a)
      <3>1. PICK c, v : Lists(a, "bulk", list_messages(c, v))  BY <2>4 DEF KillKind
      <3> QED  BY <2>1, <3>1
    <2> QED  BY <2>2, <2>3, <2>4
  <1> DEFINE t == [Idle EXCEPT !.at = "bulk", !.op = op, !.todo = w]
  <1>2. Starts(a, t) /\ Reads(a) /\ UNCHANGED <<rows, lastId, history, clock, crashes>>
    BY <1>1 DEF Lists
  <1>3. w \in SUBSET Ids  BY DEF MailboxInv, TableSound
  <1>4. t \in Task
    <2>1. op \in Ops  BY StageFacts
    <2> QED  BY <1>3, <2>1, IdleFacts, StageFacts, TaskFields, Zenon DEF Task
  <1>5. t.at = "bulk" /\ t.op = op /\ t.msg = 0 /\ t.todo = w  BY IdleFacts DEF Task
  <1> HIDE DEF t
  <1>6. TaskSound(a, t)  BY <1>4, <1>5 DEF TaskSound
  <1>7. Of(t) \subseteq Numbers \cup {0} /\ ~Handed(t) /\ SeenOf(t) /\ t.at # "number"
    BY <1>5 DEF Of, Handed, SeenOf
  <1> QED  BY <1>2, <1>6, <1>7, StartStep

LEMMA SelectStep ==
  ASSUME MailboxInv, NEW a \in Actors, Select(a)
  PROVE  MailboxInv'
  <1>1. PICK n \in Neighbours :
          Starts(a, [Idle EXCEPT !.at = "answer", !.op = "link", !.todo = Selected(n), !.nbr = n])
    BY DEF Select
  <1> DEFINE w == Selected(n)
             t == [Idle EXCEPT !.at = "answer", !.op = "link", !.todo = w, !.nbr = n]
  <1>2. a \in Links /\ Reads(a) /\ Starts(a, t) /\ UNCHANGED <<rows, lastId, history, clock, crashes>>
    BY <1>1 DEF Select
  <1>3. w \subseteq Numbers /\ w \in SUBSET Ids  BY DEF MailboxInv, TableSound, Selected
  <1> HIDE DEF w
  <1>4. t \in Task  BY <1>3, IdleFacts, StageFacts, TaskFields, Zenon DEF Task
  <1>5. t.at = "answer" /\ t.op = "link" /\ t.msg = 0 /\ t.todo = w /\ t.nbr = n
    BY IdleFacts DEF Task
  <1> HIDE DEF t
  <1>6. TaskSound(a, t)  BY <1>2, <1>4, <1>5 DEF TaskSound
  <1>7. Of(t) \subseteq Numbers \cup {0} /\ ~Handed(t) /\ SeenOf(t) /\ t.at # "number"
    BY <1>3, <1>5 DEF Of, Handed, SeenOf
  <1> QED  BY <1>2, <1>6, <1>7, StartStep

-----------------------------------------------------------------------------
(***************************************************************************)
(* Steps that write rows.                                                  *)
(***************************************************************************)

\* Every row that stays keeps its BID and its path, and none gets status F.
RowsAltered ==
  /\ DOMAIN rows' \subseteq Numbers
  /\ \A i \in DOMAIN rows' :
       /\ rows'[i] \in Row /\ rows'[i].bid = rows[i].bid /\ rows'[i].path = rows[i].path
       /\ rows'[i].status = "F" => rows[i].status = "F"

LEMMA AlterStep ==
  ASSUME MailboxInv, NEW a \in Actors, NEW t, Changes(a, t), GoesOn(a, t),
         \A b \in Actors \ {a} : task'[b] = task[b],
         \A n \in Neighbours \cup {""}, i \in Ids : Pending(task[a], n, i) => Pending(t, n, i),
         RestSound', lastId' = lastId, known' = known, torn' = torn, RowsAltered
  PROVE  MailboxInv'
  <1>1. RowsKept(a)  BY DEF RowsAltered, RowsKept
  <1>2. KnownGrows(a)  BY DEF KnownGrows
  <1>3. /\ TasksSound' /\ TableSound' /\ RoomIsLeft' /\ Bounded' /\ HandedOnce'
        /\ BidsAreUnique' /\ SeenStays'
    <2>1. Handed(t) => task[a].msg \notin DOMAIN rows'
      BY DEF MailboxInv, HandedOnce, GoesOn, RowsAltered
    <2>2. DOMAIN rows' \subseteq Numbers  BY DEF RowsAltered
    <2> QED  BY <1>1, <1>2, <2>1, <2>2, Moves
  <1>4. MarkedPending  BY DEF MarkedPending, RowsAltered
  <1>5. KnownPending  BY DEF KnownPending, RowsAltered
  <1>6. PathsStay  BY DEF PathsStay, RowsAltered
  <1>7. PendingStays
    <2>1. ASSUME NEW b \in Links, NEW n \in Neighbours \cup {""}, NEW i \in Ids,
                 Pending(task[b], n, i), i \in DOMAIN rows'
          PROVE  \E c \in Links : Pending(task'[c], n, i)
      <3>1. CASE b = a  BY <2>1, <3>1 DEF Changes
      <3>2. CASE b # a
        <4>1. task'[b] = task[b]  BY <3>2, ActorFacts
        <4> QED  BY <2>1, <4>1
      <3> QED  BY <3>1, <3>2
    <2> QED  BY <2>1, Zenon DEF PendingStays
  <1>8. ForwardedRecorded' /\ KnownRecorded'
    BY <1>3, <1>4, <1>5, <1>6, <1>7, Paths DEF MailboxInv, RestSound
  <1> QED  BY <1>3, <1>8 DEF MailboxInv

\* The same when the tasks stay as they are.
LEMMA AlterRows ==
  ASSUME MailboxInv, task' = task,
         RestSound', lastId' = lastId, known' = known, torn' = torn, RowsAltered
  PROVE  MailboxInv'
  <1> DEFINE a == <<"core", "FORWARD">>
  <1>1. a \in Actors  BY DEF Actors, Links, Processes
  <1> HIDE DEF a
  <1>2. Changes(a, task[a])  BY <1>1 DEF Changes, MailboxInv, TasksSound
  <1>3. GoesOn(a, task[a])
    <2>1. task[a].at \in {"op", "sent", "append"} => ~Handed(task[a])  BY DEF Handed
    <2> QED  BY <1>1, <2>1 DEF GoesOn, MailboxInv, TasksSound, SeenStays
  <1> QED  BY <1>1, <1>2, <1>3, AlterStep

LEMMA SetStatusFacts ==
  ASSUME TableSound, NEW i, NEW s \in Statuses, SetStatus(i, s)
  PROVE  /\ DOMAIN rows' = Numbers
         /\ \A j \in Numbers :
              /\ rows'[j] \in Row /\ rows'[j].bid = rows[j].bid /\ rows'[j].path = rows[j].path
              /\ rows'[j].status = IF j = i THEN s ELSE rows[j].status
  <1>1. CASE i \in Numbers
    <2> DEFINE r == [rows[i] EXCEPT !.status = s]
    <2>1. rows' = [rows EXCEPT ![i] = r]  BY <1>1 DEF SetStatus
    <2>2. \A j \in Numbers : rows[j] \in Row  BY DEF TableSound
    <2>3. r \in Row
      <3>1. rows[i] \in Row  BY <1>1, <2>2
      <3> QED  BY <3>1, RowFields, Zenon DEF Row
    <2>4. r.bid = rows[i].bid /\ r.path = rows[i].path /\ r.status = s
      BY <1>1, <2>2 DEF Row
    <2> HIDE DEF r
    <2>5. DOMAIN rows' = Numbers  BY <2>1 DEF Numbers
    <2>6. \A j \in Numbers : rows'[j] = IF j = i THEN r ELSE rows[j]  BY <2>1 DEF Numbers
    <2> QED  BY <2>2, <2>3, <2>4, <2>5, <2>6
  <1>2. CASE i \notin Numbers
    <2>1. rows' = rows  BY <1>2 DEF SetStatus
    <2> QED  BY <1>2, <2>1 DEF TableSound, Numbers
  <1> QED  BY <1>1, <1>2

LEMMA BulkStep ==
  ASSUME MailboxInv, NEW a \in Actors, KillBulk(a)
  PROVE  MailboxInv'
  <1> DEFINE t == task[a]
  <1>1. t \in Task /\ TaskSound(a, t) /\ t.at = "bulk" /\ t.op = "bulk"  BY TaskOf DEF KillBulk
  <1>2. PICK i \in t.todo :
          /\ SetStatus(i, "K")
          /\ Becomes(a, IF t.todo = {i} THEN Idle ELSE [t EXCEPT !.todo = @ \ {i}])
    BY DEF KillBulk
  <1> DEFINE w == t.todo \ {i}
             v == [t EXCEPT !.todo = w]
             u == IF t.todo = {i} THEN Idle ELSE v
  <1>3. v \in Task /\ v.at = "bulk" /\ v.op = "bulk" /\ v.msg = t.msg /\ v.todo \subseteq t.todo
        /\ v.nbr = t.nbr
    <2>1. w \in SUBSET Ids  BY <1>1, TaskFields
    <2>2. v \in Task  BY <1>1, <2>1, TaskFields, Zenon DEF Task
    <2> QED  BY <1>1, <2>2 DEF Task
  <1> HIDE DEF v
  <1>4. GoesOn(a, u)
    <2>1. TaskSound(a, v)  BY <1>3 DEF TaskSound
    <2>2. GoesOn(a, v)  BY <1>3, <2>1 DEF GoesOn, Of, Handed, SeenOf
    <2> QED  BY <2>2, GoesToIdle
  <1>5. Becomes(a, u)  BY <1>2 DEF v
  <1> HIDE DEF u
  <1>6. Changes(a, u)  BY <1>4, <1>5, BecomesChanges DEF MailboxInv, GoesOn, TaskSound
  <1>7. \A b \in Actors \ {a} : task'[b] = task[b]  BY <1>5 DEF Becomes, MailboxInv, TasksSound
  <1>8. RowsAltered
    <2>1. "K" \in Statuses  BY DEF Statuses
    <2> QED  BY <1>2, <2>1, SetStatusFacts DEF MailboxInv, RowsAltered
  <1>9. /\ UNCHANGED <<lastId, history, bounds>> /\ writer' = "none"
    BY DEF KillBulk, Writes
  <1>10. RestSound'  BY <1>9 DEF MailboxInv, RestSound, history, bounds
  <1>11. \A n \in Neighbours \cup {""}, j \in Ids : ~Pending(t, n, j)  BY <1>1 DEF Pending
  <1> QED  BY <1>4, <1>6, <1>7, <1>8, <1>9, <1>10, <1>11, AlterStep DEF history

LEMMA SysopStep ==
  ASSUME MailboxInv, NEW a \in Actors, SysopHold(a) \/ SysopRelease(a) \/ HoldRelease(a)
  PROVE  MailboxInv'
  <1>1. PICK s \in {"H", "N"} : SysopSets(a, s)  BY DEF SysopHold, SysopRelease, HoldRelease
  <1>2. PICK i \in Numbers : SetStatus(i, s)  BY <1>1 DEF SysopSets
  <1>3. RowsAltered
    <2>1. s \in Statuses  BY DEF Statuses
    <2> QED  BY <1>2, <2>1, SetStatusFacts DEF MailboxInv, RowsAltered
  <1>4. UNCHANGED <<lastId, task, history, bounds>> /\ writer' = "none"
    BY <1>1 DEF SysopSets, Writes
  <1>5. RestSound'  BY <1>4 DEF MailboxInv, RestSound, history, bounds
  <1> QED  BY <1>3, <1>4, <1>5, AlterRows DEF history

LEMMA CleanupStep ==
  ASSUME MailboxInv, cleanup_expired
  PROVE  MailboxInv'
  <1>1. PICK expired \in SUBSET Numbers : rows' = [i \in Numbers \ expired |-> rows[i]]
    BY DEF cleanup_expired
  <1>2. UNCHANGED <<lastId, writer, task, history, bounds>>  BY DEF cleanup_expired
  <1>3. RowsAltered  BY <1>1 DEF RowsAltered, MailboxInv, TableSound
  <1>4. RestSound'  BY <1>2 DEF MailboxInv, RestSound, history, bounds
  <1> QED  BY <1>2, <1>3, <1>4, AlterRows DEF history

LEMMA TickStep ==
  ASSUME MailboxInv, Tick
  PROVE  MailboxInv'
  <1>1. /\ UNCHANGED <<rows, lastId, writer, task, history, tasks, crashes>>
        /\ clock < MaxClock /\ clock' = clock + 1
    BY DEF Tick
  <1>2. clock' \in 0 .. MaxClock
    <2>1. MaxClock \in Nat  BY MailboxAssumption
    <2>2. clock \in 0 .. MaxClock  BY DEF MailboxInv, RestSound
    <2> QED  BY <1>1, <2>1, <2>2
  <1>3. RestSound'  BY <1>1, <1>2 DEF MailboxInv, RestSound, history
  <1>4. RowsAltered  BY <1>1 DEF RowsAltered, MailboxInv, TableSound, Numbers
  <1> QED  BY <1>1, <1>3, <1>4, AlterRows DEF history

LEMMA OperateStep ==
  ASSUME MailboxInv, NEW a \in Actors, Operate(a)
  PROVE  MailboxInv'
  <1> DEFINE t == task[a]
             u == Done(t)
  <1>1. t \in Task /\ TaskSound(a, t) /\ t.at = "op"  BY TaskOf DEF Operate
  <1>2. /\ UNCHANGED <<lastId, history, bounds>> /\ writer' = "none" /\ Becomes(a, u)
    BY DEF Operate, Writes
  <1>3. RestSound'  BY <1>2 DEF MailboxInv, RestSound, history, bounds
  <1>4. /\ TaskSound(a, u) /\ u.at \in {"idle", "next", "transfer"}
        /\ Of(u) \subseteq Of(t) \cup {0}
    <2>1. \/ t.op \in {"read", "kill"}
          \/ t.op \notin {"send", "receive"} /\ t.todo = {}
      BY <1>1 DEF TaskSound
    <2> QED  BY <1>1, <2>1, DoneFacts
  <1> HIDE DEF u
  <1>5. GoesOn(a, u)  BY <1>4 DEF GoesOn, Handed, SeenOf
  <1>6. Changes(a, u)  BY <1>2, <1>4, BecomesChanges DEF MailboxInv, TaskSound
  <1>7. \A b \in Actors \ {a} : task'[b] = task[b]  BY <1>2 DEF Becomes, MailboxInv, TasksSound
  <1>8. \A n \in Neighbours \cup {""}, j \in Ids : ~Pending(t, n, j)  BY <1>1 DEF Pending
  <1>9. RowsAltered
    <2> DEFINE i == t.msg
    <2>1. \/ mark_read(i) \/ kill_message(i) \/ update_message(i) \/ Move(i)
      <3>1. t.op \in {"read", "kill", "edit", "move"}  BY <1>1 DEF TaskSound
      <3>2. CASE t.op = "read"  BY <3>2 DEF Operate
      <3>3. CASE t.op = "kill"  BY <3>3 DEF Operate
      <3>4. CASE t.op = "edit"  BY <3>4 DEF Operate
      <3>5. CASE t.op = "move"  BY <3>5 DEF Operate
      <3> QED  BY <3>1, <3>2, <3>3, <3>4, <3>5
    <2> HIDE DEF i
    <2>2. CASE rows' = rows  BY <2>2 DEF RowsAltered, MailboxInv, TableSound, Numbers
    <2>3. ASSUME NEW s \in {"Y", "K"}, SetStatus(i, s) PROVE RowsAltered
      <3>1. s \in Statuses  BY DEF Statuses
      <3> QED  BY <2>3, <3>1, SetStatusFacts DEF MailboxInv, RowsAltered
    <2>4. CASE mark_read(i)
      <3>1. rows' = rows \/ SetStatus(i, "Y")  BY <2>4 DEF mark_read, SetStatus
      <3> QED  BY <2>2, <2>3, <3>1
    <2>5. CASE kill_message(i)  BY <2>3, <2>5 DEF kill_message
    <2>6. CASE update_message(i)  BY <2>2, <2>6 DEF update_message
    <2>7. CASE Move(i)
      <3>1. PICK x \in Addressed.here \cup Addressed.away :
              rows' = IF i \in Numbers THEN [rows EXCEPT ![i].to = x.to, ![i].at = x.at] ELSE rows
        BY <2>7 DEF Move
      <3>2. x.to \in Users \cup {"FAR", "ALL", ""} /\ x.at \in Neighbours \cup {""}
        BY AddressFacts
      <3>3. CASE i \in Numbers
        <4> DEFINE r == [rows[i] EXCEPT !.to = x.to, !.at = x.at]
        <4>1. rows' = [rows EXCEPT ![i] = r]  BY <3>1, <3>3 DEF Numbers
        <4>2. \A j \in Numbers : rows[j] \in Row  BY DEF MailboxInv, TableSound
        <4>3. r \in Row
          <5>1. rows[i] \in Row  BY <3>3, <4>2
          <5> QED  BY <3>2, <5>1, RowFields, Zenon DEF Row
        <4>4. r.bid = rows[i].bid /\ r.path = rows[i].path /\ r.status = rows[i].status
          BY <3>3, <4>2 DEF Row
        <4> HIDE DEF r
        <4>5. DOMAIN rows' = Numbers  BY <4>1 DEF Numbers
        <4>6. \A j \in Numbers : rows'[j] = IF j = i THEN r ELSE rows[j]  BY <4>1 DEF Numbers
        <4> QED  BY <4>2, <4>3, <4>4, <4>5, <4>6 DEF RowsAltered
      <3> QED  BY <2>2, <3>1, <3>3
    <2> QED  BY <2>1, <2>4, <2>5, <2>6, <2>7
  <1> QED  BY <1>2, <1>3, <1>5, <1>6, <1>7, <1>8, <1>9, AlterStep DEF history

LEMMA WritePathStep ==
  ASSUME MailboxInv, NEW a \in Actors, WritePath(a)
  PROVE  MailboxInv'
  <1> DEFINE t == task[a]
             u == Done(t)
             i == t.msg
             p == t.seen.path \cup {Entry(t)}
  <1>1. t \in Task /\ TaskSound(a, t) /\ t.at = "append"  BY TaskOf DEF WritePath
  <1>2. /\ UNCHANGED <<lastId, known, bounds>> /\ writer' = "none" /\ Becomes(a, u)
        /\ torn' = torn \cup {j \in Numbers \cap {i} : ~(rows[j].path \subseteq t.seen.path)}
        /\ rows' = IF i \in Numbers THEN [rows EXCEPT ![i].path = p] ELSE rows
    BY DEF WritePath, Writes
  <1>3. /\ t.op \in {"send", "receive", "drop"} /\ i \in Ids /\ t.nbr \in Neighbours
        /\ t.op \in {"send", "receive"} => a \in Links
        /\ t.op = "drop" => t.todo = {}
    BY <1>1 DEF TaskSound
  <1>4. TableSound /\ \A j \in Numbers : j \in Ids /\ rows[j] \in Row
    BY DEF MailboxInv, TableSound
  <1>5. RestSound'
    <2>1. torn' \subseteq Ids  BY <1>2, <1>4 DEF MailboxInv, RestSound
    <2> QED  BY <1>2, <2>1 DEF MailboxInv, RestSound, bounds
  <1>6. /\ TaskSound(a, u) /\ u.at \in {"idle", "next", "transfer"}
        /\ Of(u) \subseteq Of(t) \cup {0}
    BY <1>1, <1>3, DoneFacts
  <1>7. p \in SUBSET (Neighbours \cup {Node}) /\ Entry(t) = IF t.op = "send" THEN Node ELSE t.nbr
    <2>1. t.seen \in Row  BY <1>1, TaskFields
    <2>2. t.seen.path \in SUBSET (Neighbours \cup {Node})  BY <2>1, RowFields
    <2> QED  BY <1>3, <2>2 DEF Entry
  <1>8. /\ DOMAIN rows' = Numbers
        /\ \A j \in Numbers :
             /\ rows'[j] \in Row /\ rows'[j].bid = rows[j].bid /\ rows'[j].status = rows[j].status
             /\ rows'[j].path = IF j = i THEN p ELSE rows[j].path
    <2>1. CASE i \in Numbers
      <3> DEFINE r == [rows[i] EXCEPT !.path = p]
      <3>1. rows' = [rows EXCEPT ![i] = r]  BY <1>2, <2>1
      <3> HIDE DEF p
      <3>2. r \in Row
        <4>1. rows[i] \in Row /\ p \in SUBSET (Neighbours \cup {Node})  BY <1>4, <1>7, <2>1
        <4> QED  BY <4>1, RowFields, Zenon DEF Row
      <3>3. r.bid = rows[i].bid /\ r.path = p /\ r.status = rows[i].status
        BY <1>4, <2>1 DEF Row
      <3> HIDE DEF r
      <3>4. DOMAIN rows' = Numbers  BY <3>1 DEF Numbers
      <3>5. \A j \in Numbers : rows'[j] = IF j = i THEN r ELSE rows[j]  BY <3>1 DEF Numbers
      <3> QED  BY <1>4, <3>2, <3>3, <3>4, <3>5
    <2>2. CASE i \notin Numbers
      <3>1. rows' = rows  BY <1>2, <2>2
      <3> QED  BY <1>4, <2>2, <3>1 DEF Numbers
    <2> QED  BY <2>1, <2>2
  <1> HIDE DEF u
  <1>9. GoesOn(a, u)  BY <1>6 DEF GoesOn, Handed, SeenOf
  <1>10. Changes(a, u)  BY <1>2, <1>6, BecomesChanges DEF MailboxInv, TaskSound
  <1>11. RowsKept(a) /\ KnownGrows(a)  BY <1>2, <1>8 DEF RowsKept, KnownGrows
  <1>12. ~Handed(u)  BY <1>6 DEF Handed
  <1>13. /\ TasksSound' /\ TableSound' /\ RoomIsLeft' /\ Bounded' /\ HandedOnce'
         /\ BidsAreUnique' /\ SeenStays'
    BY <1>2, <1>8, <1>9, <1>10, <1>11, <1>12, Moves
  <1>14. MarkedPending /\ KnownPending  BY <1>2, <1>8 DEF MarkedPending, KnownPending
  <1>15. torn \subseteq torn'  BY <1>2
  <1>16. PathsStay
    <2>1. ASSUME NEW j \in Numbers, j \notin torn' PROVE rows[j].path \subseteq rows'[j].path
      <3>1. CASE j = i
        <4>1. rows[i].path \subseteq t.seen.path  BY <1>2, <2>1, <3>1
        <4> QED  BY <1>8, <3>1, <4>1
      <3>2. CASE j # i  BY <1>8, <3>2
      <3> QED  BY <3>1, <3>2
    <2> QED  BY <2>1 DEF PathsStay
  <1>17. PendingStays
    <2>1. ASSUME NEW b \in Links, NEW n \in Neighbours \cup {""}, NEW j \in Ids,
                 Pending(task[b], n, j), j \in DOMAIN rows'
          PROVE  \/ Node \in rows'[j].path
                 \/ n # "" /\ n \in rows'[j].path
                 \/ \E c \in Links : Pending(task'[c], n, j)
      <3>1. CASE b = a
        <4>1. j = i /\ (t.op = "send" \/ (t.op = "receive" /\ t.nbr = n))
          BY <2>1, <3>1 DEF Pending
        <4>2. rows'[j].path = p  BY <1>8, <2>1, <4>1
        <4>3. "" \notin Neighbours  BY MailboxAssumption
        <4> QED  BY <1>3, <1>7, <4>1, <4>2, <4>3
      <3>2. CASE b # a
        <4>1. task'[b] = task[b]
          BY <1>2, <3>2, ActorFacts DEF Becomes, MailboxInv, TasksSound
        <4> QED  BY <2>1, <4>1
      <3> QED  BY <3>1, <3>2
    <2> QED  BY <2>1, Zenon DEF PendingStays
  <1>18. ForwardedRecorded' /\ KnownRecorded'
    BY <1>5, <1>13, <1>14, <1>15, <1>16, <1>17, Paths DEF MailboxInv, RestSound
  <1> QED  BY <1>5, <1>13, <1>18 DEF MailboxInv

LEMMA MarkStep ==
  ASSUME MailboxInv, NEW a \in Actors, Mark(a)
  PROVE  MailboxInv'
  <1> DEFINE t == task[a]
             i == t.msg
             u == [t EXCEPT !.at = "path"]
  <1>1. t \in Task /\ TaskSound(a, t) /\ t.at = "sent"  BY TaskOf DEF Mark
  <1>2. /\ UNCHANGED <<lastId, torn, bounds>> /\ writer' = "none" /\ Becomes(a, u)
        /\ SetStatus(i, "F") /\ known' = known \cup {<<t.nbr, i>>}
    BY DEF Mark, Writes
  <1>3. i \in Ids /\ t.op = "send" /\ t.nbr \in Neighbours /\ a \in Links
    BY <1>1 DEF TaskSound
  <1>4. RestSound'
    <2>1. known' \subseteq Neighbours \X Ids  BY <1>2, <1>3 DEF MailboxInv, RestSound
    <2> QED  BY <1>2, <2>1 DEF MailboxInv, RestSound, bounds
  <1>5. /\ DOMAIN rows' = Numbers
        /\ \A j \in Numbers :
             /\ rows'[j] \in Row /\ rows'[j].bid = rows[j].bid /\ rows'[j].path = rows[j].path
             /\ rows'[j].status = IF j = i THEN "F" ELSE rows[j].status
    <2>1. "F" \in Statuses /\ TableSound  BY DEF Statuses, MailboxInv
    <2> QED  BY <1>2, <2>1, SetStatusFacts
  <1>6. u \in Task  BY <1>1, StageFacts, TaskFields, Zenon DEF Task
  <1>7. u.at = "path" /\ u.op = t.op /\ u.msg = i /\ u.todo = t.todo /\ u.nbr = t.nbr
    BY <1>1 DEF Task
  <1> HIDE DEF u
  <1>8. TaskSound(a, u)  BY <1>3, <1>6, <1>7 DEF TaskSound
  <1>9. GoesOn(a, u) /\ ~Handed(u)  BY <1>7, <1>8 DEF GoesOn, Of, Handed, SeenOf
  <1>10. Changes(a, u)  BY <1>2, <1>6, BecomesChanges DEF MailboxInv
  <1>11. RowsKept(a)  BY <1>5 DEF RowsKept
  <1>12. KnownGrows(a)  BY <1>2, <1>3, <1>9, <1>10 DEF KnownGrows, Changes
  <1>13. /\ TasksSound' /\ TableSound' /\ RoomIsLeft' /\ Bounded' /\ HandedOnce'
         /\ BidsAreUnique' /\ SeenStays'
    BY <1>2, <1>5, <1>9, <1>10, <1>11, <1>12, Moves
  <1>14. \A n : Pending(task'[a], n, i)
    BY <1>3, <1>7, <1>10 DEF Pending, Changes
  <1>15. MarkedPending  BY <1>3, <1>5, <1>14 DEF MarkedPending
  <1>16. KnownPending  BY <1>2, <1>3, <1>5, <1>14 DEF KnownPending
  <1>17. PathsStay  BY <1>5 DEF PathsStay
  <1>18. PendingStays
    <2>1. ASSUME NEW b \in Links, NEW n \in Neighbours \cup {""}, NEW j \in Ids,
                 Pending(task[b], n, j), j \in DOMAIN rows'
          PROVE  \E c \in Links : Pending(task'[c], n, j)
      <3>1. b # a  BY <1>1, <2>1 DEF Pending
      <3>2. task'[b] = task[b]
        BY <1>2, <3>1, ActorFacts DEF Becomes, MailboxInv, TasksSound
      <3> QED  BY <2>1, <3>2
    <2> QED  BY <2>1, Zenon DEF PendingStays
  <1>19. ForwardedRecorded' /\ KnownRecorded'
    BY <1>2, <1>4, <1>13, <1>15, <1>16, <1>17, <1>18, Paths DEF MailboxInv, RestSound
  <1> QED  BY <1>4, <1>13, <1>19 DEF MailboxInv

LEMMA InsertStep ==
  ASSUME MailboxInv, NEW a \in Actors, Insert(a)
  PROVE  MailboxInv'
  <1> DEFINE t == task[a]
             i == t.msg
             u == [t EXCEPT !.at = "path"]
             v == IF t.op = "receive" THEN u ELSE Idle
             K == IF t.op = "receive" THEN {<<t.nbr, i>>} ELSE {}
  <1>1. t \in Task /\ TaskSound(a, t) /\ t.at = "insert"  BY TaskOf DEF Insert
  <1>2. UNCHANGED <<lastId, torn, bounds>>  BY DEF Insert
  <1>3. CASE Becomes(a, Idle) /\ UNCHANGED <<rows, known>> /\ writer' = a[1]
    <2>1. a[1] \in Processes  BY ActorFacts
    <2> QED  BY <1>1, <1>2, <1>3, <2>1, GoesToIdle, LookOnly DEF history
  <1>4. CASE /\ t.seen.bid \notin Bids /\ writer' = "none" /\ Becomes(a, v)
             /\ rows' = [j \in Numbers \cup {i} |-> IF j = i THEN t.seen ELSE rows[j]]
             /\ known' = known \cup K
    <2>1. /\ i \in Ids /\ t.seen \in Row /\ t.seen.status = "N"
          /\ t.op = "receive" => t.nbr \in Neighbours /\ a \in Links
      BY <1>1, TaskFields DEF TaskSound
    <2>2. /\ i \notin Numbers /\ \A k \in known : k[2] # i
      BY <1>1 DEF MailboxInv, HandedOnce, Handed
    <2>3. K \subseteq Neighbours \X {i}  BY <2>1
    <2>4. RestSound'
      <3>1. known' \subseteq Neighbours \X Ids  BY <1>4, <2>1, <2>3 DEF MailboxInv, RestSound
      <3> QED  BY <1>2, <1>4, <3>1 DEF MailboxInv, RestSound, bounds
    <2>5. u \in Task  BY <1>1, StageFacts, TaskFields, Zenon DEF Task
    <2>6. u.at = "path" /\ u.op = t.op /\ u.msg = i /\ u.todo = t.todo /\ u.nbr = t.nbr
      BY <1>1 DEF Task
    <2> HIDE DEF u
    <2>7. t.op = "receive" => TaskSound(a, u)  BY <2>1, <2>5, <2>6 DEF TaskSound
    <2>8. t.op = "receive" => GoesOn(a, u) /\ ~Handed(u)
      BY <2>6, <2>7 DEF GoesOn, Of, Handed, SeenOf
    <2>9. GoesOn(a, v) /\ ~Handed(v) /\ v \in Task  BY <2>5, <2>8, GoesToIdle, IdleFacts
    <2>10. t.op = "receive" => v = u  OBVIOUS
    <2> HIDE DEF v
    <2>11. Changes(a, v)  BY <1>4, <2>9, BecomesChanges DEF MailboxInv
    <2>12. /\ DOMAIN rows' = Numbers \cup {i} /\ rows'[i] = t.seen
           /\ \A j \in Numbers : j # i /\ rows'[j] = rows[j]
      BY <1>4, <2>2
    <2>13. \A j \in Numbers : rows[j] \in Row  BY DEF MailboxInv, TableSound
    <2>14. RowsKept(a)
      BY <1>1, <2>1, <2>12, <2>13 DEF RowsKept, Handed
    <2>15. KnownGrows(a)  BY <1>4, <2>3, <2>9, <2>11 DEF KnownGrows, Changes
    <2>16. BidsAreUnique'
      BY <1>4, <2>12 DEF BidsAreUnique, Bids, Numbers, MailboxInv
    <2>17. /\ TasksSound' /\ TableSound' /\ RoomIsLeft' /\ Bounded' /\ HandedOnce'
           /\ BidsAreUnique' /\ SeenStays'
      BY <1>2, <2>9, <2>11, <2>14, <2>15, <2>16, Moves
    <2>18. MarkedPending  BY <2>1, <2>12 DEF MarkedPending
    <2>19. KnownPending
      <3>1. ASSUME NEW k \in known', k[2] \in DOMAIN rows', k \notin known
            PROVE  \E b \in Links : Pending(task'[b], k[1], k[2])
        <4>1. k = <<t.nbr, i>> /\ t.op = "receive"  BY <1>4, <3>1
        <4>2. Pending(task'[a], t.nbr, i)
          BY <2>6, <2>10, <2>11, <4>1 DEF Pending, Changes
        <4> QED  BY <2>1, <4>1, <4>2
      <3>2. ASSUME NEW k \in known, k[2] \in DOMAIN rows' PROVE k[2] \in Numbers
        BY <2>2, <2>12, <3>2
      <3> QED  BY <3>1, <3>2 DEF KnownPending
    <2>20. PathsStay  BY <2>12 DEF PathsStay
    <2>21. PendingStays
      <3>1. ASSUME NEW b \in Links, NEW n \in Neighbours \cup {""}, NEW j \in Ids,
                   Pending(task[b], n, j), j \in DOMAIN rows'
            PROVE  \E c \in Links : Pending(task'[c], n, j)
        <4>1. b # a  BY <1>1, <3>1 DEF Pending
        <4>2. task'[b] = task[b]
          BY <1>4, <4>1, ActorFacts DEF Becomes, MailboxInv, TasksSound
        <4> QED  BY <3>1, <4>2
      <3> QED  BY <3>1, Zenon DEF PendingStays
    <2>22. ForwardedRecorded' /\ KnownRecorded'
      BY <1>2, <2>4, <2>17, <2>18, <2>19, <2>20, <2>21, Paths DEF MailboxInv, RestSound
    <2> QED  BY <2>4, <2>17, <2>22 DEF MailboxInv
  <1> QED  BY <1>3, <1>4 DEF Insert, Collides, Writes

\* The one step that hands out a number: there was room for it, and nobody has it.
LEMMA NumberStep ==
  ASSUME MailboxInv, NEW a \in Actors, next_message_id(a)
  PROVE  MailboxInv'
  <1> DEFINE t == task[a]
             i == lastId + 1
             s == [t.seen EXCEPT !.born = clock]
             e == IF t.seen.bid = NoBid THEN "bid" ELSE "insert"
             u == [t EXCEPT !.at = e, !.msg = i, !.seen = s]
  <1>1. t \in Task /\ TaskSound(a, t) /\ t.at = "number"  BY TaskOf DEF next_message_id
  <1>2. /\ UNCHANGED <<rows, history, bounds>> /\ writer' = "none" /\ lastId' = i
        /\ Becomes(a, u)
    BY DEF next_message_id, Writes
  <1>3. /\ t.op \in {"compose", "copy", "reply", "receive"}
        /\ t.seen.status = "N" /\ t.seen.path = {} /\ t.seen \in Row
        /\ t.seen.bid = NoBid => t.seen.from \in Users
    BY <1>1, TaskFields DEF TaskSound
  <1>4. lastId \in Nat /\ MaxId \in Nat /\ i \in Nat
    <2>1. MaxId \in Nat \ {0}  BY MailboxAssumption
    <2>2. lastId \in Nat  BY IdsNat DEF MailboxInv, RestSound
    <2> QED  BY <2>1, <2>2
  <1>5. IsFiniteSet(Waiting) /\ a \in Waiting
    BY <1>1, ActorFacts, FS_Subset DEF Waiting
  <1>6. clock \in 0 .. MaxClock /\ clock \div BidDays \in Periods
    BY DEF MailboxInv, RestSound, Periods
  <1>7. s \in Row /\ s.status = "N" /\ s.path = {} /\ s.bid = t.seen.bid /\ s.from = t.seen.from
        /\ s.born = clock
    <2>1. s \in Row  BY <1>3, <1>6, RowFields, Zenon DEF Row
    <2>2. s.status = t.seen.status /\ s.path = t.seen.path /\ s.bid = t.seen.bid
          /\ s.from = t.seen.from /\ s.born = clock
      BY <1>3 DEF Row
    <2> QED  BY <1>3, <2>1, <2>2
  <1>8. i \in Ids /\ i <= MaxId /\ lastId + Cardinality(Waiting \ {a}) <= MaxId - 1
    <2> DEFINE n == Cardinality(Waiting)
               m == Cardinality(Waiting \ {a})
    <2>1. m = n - 1 /\ IsFiniteSet(Waiting \ {a})  BY <1>5, FS_RemoveElement
    <2>2. n \in Nat /\ m \in Nat  BY <1>5, <2>1, FS_CardinalityType
    <2>3. lastId + n <= MaxId  BY DEF MailboxInv, RoomIsLeft
    <2> HIDE DEF n, m
    <2>4. i <= MaxId /\ 1 <= i /\ lastId + m <= MaxId - 1  BY <1>4, <2>1, <2>2, <2>3
    <2> QED  BY <1>4, <2>4 DEF Ids, m
  <1> HIDE DEF s
  <1>9. e \in {"bid", "insert"} /\ (e = "bid" => t.seen.bid = NoBid)  OBVIOUS
  <1> HIDE DEF e
  <1>10. u \in Task
    <2>1. e \in Stages  BY <1>9, StageFacts
    <2>2. i \in Ids \cup {0}  BY <1>8
    <2> HIDE DEF i
    <2> QED  BY <1>1, <1>7, <2>1, <2>2, TaskFields, Zenon DEF Task
  <1>11. u.at = e /\ u.op = t.op /\ u.msg = i /\ u.todo = t.todo /\ u.seen = s /\ u.nbr = t.nbr
    BY <1>1 DEF Task
  <1>12. \A j \in Ids \cup {0} : j <= lastId => j # i /\ j <= i
    BY <1>4, IdsNat
  <1>13. 0 <= i /\ i # 0 /\ i <= i  BY <1>4
  <1> HIDE DEF u, i
  <1>14. TaskSound(a, u)
    BY <1>1, <1>3, <1>6, <1>7, <1>8, <1>9, <1>10, <1>11 DEF TaskSound
  <1>15. task' = [task EXCEPT ![a] = u] /\ task \in [Actors -> Task]
    BY <1>2 DEF Becomes, MailboxInv, TasksSound
  <1>16. TasksSound'
    BY <1>10, <1>14, <1>15 DEF MailboxInv, TasksSound
  <1>17. TableSound' /\ BidsAreUnique'
    BY <1>2 DEF MailboxInv, TableSound, BidsAreUnique, Numbers
  <1>18. RestSound'
    BY <1>2, <1>8 DEF MailboxInv, RestSound, history, bounds
  <1>19. RoomIsLeft'
    <2>1. Waiting' = Waiting \ {a}  BY <1>9, <1>11, <1>15 DEF Waiting
    <2> DEFINE m == Cardinality(Waiting \ {a})
    <2>2. m \in Nat
      <3>1. IsFiniteSet(Waiting \ {a})  BY <1>5, FS_RemoveElement
      <3> QED  BY <3>1, FS_CardinalityType
    <2>3. lastId' + m <= MaxId
      <3>1. lastId' = lastId + 1  BY <1>2 DEF i
      <3>2. lastId + m <= MaxId - 1  BY <1>8
      <3> HIDE DEF m
      <3> QED  BY <1>4, <2>2, <3>1, <3>2
    <2> QED  BY <2>1, <2>3 DEF RoomIsLeft
  <1>20. Numbers' = Numbers /\ known' = known /\ torn' = torn /\ rows' = rows
    BY <1>2 DEF history, Numbers
  <1>21. /\ \A j \in Numbers : j \in Ids /\ j <= lastId
         /\ \A b \in Actors : \A j \in Of(task[b]) : j \in Ids \cup {0} /\ j <= lastId
         /\ \A k \in known : k[2] \in Ids /\ k[2] <= lastId
    <2>1. \A b \in Actors : \A j \in Of(task[b]) : j \in Ids \cup {0}
      BY TaskFields DEF MailboxInv, TasksSound, Of
    <2> QED  BY <2>1 DEF MailboxInv, Bounded, TableSound, RestSound
  <1>22. Of(u) \subseteq Of(t) \cup {i}  BY <1>11 DEF Of
  <1>23. Bounded'
    BY <1>2, <1>12, <1>13, <1>15, <1>20, <1>21, <1>22 DEF Bounded
  <1>24. HandedOnce'
    <2>1. i \notin Numbers /\ i \notin t.todo /\ \A k \in known : k[2] # i
      BY <1>12, <1>21 DEF Of
    <2>2. ASSUME NEW b \in Actors PROVE i \notin Of(task[b])  BY <1>12, <1>21
    <2>3. ASSUME NEW c \in Actors, c # a, Handed(task[c])
          PROVE  task[c].msg # i /\ \A b \in Actors \ {c} : task[c].msg \notin Of(task'[b])
      <3>1. task[c].msg # i  BY <2>2 DEF Of
      <3>2. ASSUME NEW b \in Actors \ {c} PROVE task[c].msg \notin Of(task'[b])
        <4>1. task[c].msg \notin Of(task[b])  BY <2>3 DEF MailboxInv, HandedOnce
        <4> QED  BY <1>15, <1>22, <3>1, <4>1
      <3> QED  BY <3>1, <3>2
    <2>4. ASSUME NEW c \in Actors, Handed(task'[c])
          PROVE  /\ task'[c].msg \notin Numbers /\ task'[c].msg \notin task'[c].todo
                 /\ \A k \in known : k[2] # task'[c].msg
                 /\ \A b \in Actors \ {c} : task'[c].msg \notin Of(task'[b])
      <3>1. CASE c = a  BY <1>11, <1>15, <2>1, <2>2, <3>1
      <3>2. CASE c # a
        <4>1. task'[c] = task[c]  BY <1>15, <3>2
        <4> QED  BY <2>3, <2>4, <3>2, <4>1 DEF MailboxInv, HandedOnce
      <3> QED  BY <3>1, <3>2
    <2> QED  BY <1>20, <2>4 DEF HandedOnce
  <1>25. SeenStays'
    BY <1>9, <1>11, <1>15, <1>20 DEF MailboxInv, SeenStays, SeenOf
  <1>26. ForwardedRecorded' /\ KnownRecorded'
    <2>1. MarkedPending /\ KnownPending /\ PathsStay
      BY <1>20 DEF MarkedPending, KnownPending, PathsStay, Numbers
    <2>2. PendingStays
      <3>1. ASSUME NEW b \in Links, NEW n \in Neighbours \cup {""}, NEW j \in Ids,
                   Pending(task[b], n, j)
            PROVE  \E c \in Links : Pending(task'[c], n, j)
        <4>1. b # a  BY <1>1, <3>1 DEF Pending
        <4>2. task'[b] = task[b]  BY <1>15, <4>1, ActorFacts
        <4> QED  BY <3>1, <4>2
      <3> QED  BY <3>1, Zenon DEF PendingStays
    <2> QED  BY <1>17, <1>18, <1>20, <2>1, <2>2, Paths DEF MailboxInv, RestSound
  <1> QED  BY <1>16, <1>17, <1>18, <1>19, <1>23, <1>24, <1>25, <1>26 DEF MailboxInv

LEMMA CrashStep ==
  ASSUME MailboxInv, NEW p \in Processes, Crash(p)
  PROVE  MailboxInv'
  <1> DEFINE a == <<"core", "FORWARD">>
             T == {task[b].msg : b \in {b \in Actors : b[1] = p /\ PathPending(b)}}
  <1>1. a \in Actors  BY DEF Actors, Links, Processes
  <1> HIDE DEF a
  <1>2. /\ crashes < MaxCrashes /\ crashes' = crashes + 1
        /\ task' = [b \in Actors |-> IF b[1] = p THEN Idle ELSE task[b]]
        /\ writer' \in {writer, "none"} /\ torn' = torn \cup T
        /\ UNCHANGED <<rows, lastId, known, clock, tasks>>
    BY DEF Crash
  <1>3. T \subseteq Ids  BY DEF PathPending, MailboxInv, TasksSound, TaskSound
  <1>4. RestSound'
    <2>1. crashes' \in 0 .. MaxCrashes
      <3>1. MaxCrashes \in Nat  BY MailboxAssumption
      <3>2. crashes \in 0 .. MaxCrashes  BY DEF MailboxInv, RestSound
      <3> QED  BY <1>2, <3>1, <3>2
    <2> QED  BY <1>2, <1>3, <2>1 DEF MailboxInv, RestSound
  <1>5. task'[a] \in {task[a], Idle} /\ Changes(a, task'[a])
    BY <1>1, <1>2, IdleFacts DEF Changes, MailboxInv, TasksSound
  <1>6. GoesOn(a, task'[a])
    <2>1. GoesOn(a, task[a])
      <3>1. task[a].at \in {"op", "sent", "append"} => ~Handed(task[a])  BY DEF Handed
      <3> QED  BY <1>1, <3>1 DEF GoesOn, MailboxInv, TasksSound, SeenStays
    <2> QED  BY <1>5, <2>1, GoesToIdle
  <1>7. RowsKept(a) /\ KnownGrows(a)
    BY <1>2 DEF RowsKept, KnownGrows, MailboxInv, TableSound, Numbers
  <1>8. /\ TasksSound' /\ TableSound' /\ RoomIsLeft' /\ Bounded' /\ HandedOnce'
        /\ BidsAreUnique' /\ SeenStays'
    <2>1. Handed(task'[a]) => task[a].msg \notin DOMAIN rows'
      BY <1>1, <1>2, <1>5, IdleFacts DEF MailboxInv, HandedOnce, Numbers
    <2>2. DOMAIN rows' \subseteq Numbers  BY <1>2 DEF Numbers
    <2> QED  BY <1>1, <1>2, <1>5, <1>6, <1>7, <2>1, <2>2, Moves
  <1>9. MarkedPending /\ KnownPending /\ PathsStay
    BY <1>2 DEF MarkedPending, KnownPending, PathsStay, Numbers
  <1>10. PendingStays
    <2>1. ASSUME NEW b \in Links, NEW n \in Neighbours \cup {""}, NEW j \in Ids,
                 Pending(task[b], n, j)
          PROVE  j \in torn' \/ \E c \in Links : Pending(task'[c], n, j)
      <3>1. b \in Actors  BY ActorFacts
      <3>2. CASE b[1] = p
        <4>1. PathPending(b) /\ task[b].msg = j  BY <2>1 DEF Pending, PathPending
        <4>2. j \in T  BY <3>1, <3>2, <4>1
        <4> QED  BY <1>2, <4>2
      <3>3. CASE b[1] # p
        <4>1. task'[b] = task[b]  BY <1>2, <3>1, <3>3
        <4> QED  BY <2>1, <4>1
      <3> QED  BY <3>2, <3>3
    <2> QED  BY <2>1, Zenon DEF PendingStays
  <1>11. ForwardedRecorded' /\ KnownRecorded'
    <2>1. torn \subseteq torn'  BY <1>2
    <2> QED  BY <1>4, <1>8, <1>9, <1>10, <2>1, Paths DEF MailboxInv, RestSound
  <1> QED  BY <1>4, <1>8, <1>11 DEF MailboxInv

-----------------------------------------------------------------------------
(***************************************************************************)
(* The invariant, and what follows from it.                                *)
(***************************************************************************)
LEMMA MailboxInvInit ==
  ASSUME Init
  PROVE  MailboxInv
  <1>0. PICK u \in Users : \E x \in Letters(u) : rows = [i \in {1} |-> [x EXCEPT !.bid = <<u, 0, 0>>]]
    BY DEF Init
  <1>1. PICK x \in Letters(u) : rows = [i \in {1} |-> [x EXCEPT !.bid = <<u, 0, 0>>]]
    BY <1>0
  <1> DEFINE r == [x EXCEPT !.bid = <<u, 0, 0>>]
  <1>2. /\ lastId = 1 /\ writer = "none" /\ task = [a \in Actors |-> Idle]
        /\ clock = 0 /\ tasks = 0 /\ crashes = 0 /\ torn = {} /\ known = {}
    BY DEF Init
  <1>3. x \in Row /\ x.status = "N" /\ x.path = {}  BY LetterFacts
  <1>4. <<u, 0, 0>> \in LocalBid
    <2>1. BidSpace \in Nat \ {0} /\ BidDays \in Nat \ {0} /\ MaxClock \in Nat
      BY MailboxAssumption
    <2>2. 0 \in 0 .. MaxClock /\ 0 \in 0 .. BidSpace - 1 /\ 0 = 0 \div BidDays  BY <2>1
    <2>3. 0 \in Periods  BY <2>2 DEF Periods
    <2> QED  BY <2>2, <2>3 DEF LocalBid
  <1>5. r \in Row /\ r.status = "N"
    <2>1. r \in Row  BY <1>3, <1>4, RowFields, Zenon DEF Row
    <2> QED  BY <1>3, <2>1 DEF Row
  <1>6. rows = [i \in {1} |-> r]  BY <1>1
  <1> HIDE DEF r
  <1>7. Numbers = {1} /\ rows[1] = r  BY <1>6 DEF Numbers
  <1>8. 1 \in Ids /\ MaxId \in Nat \ {0}  BY IdsNat, MailboxAssumption
  <1>9. \A a \in Actors : task[a] = Idle  BY <1>2
  <1>10. TasksSound  BY <1>2, IdleFacts DEF TasksSound
  <1>11. TableSound  BY <1>5, <1>7, <1>8 DEF TableSound
  <1>12. RestSound
    <2>1. MaxClock \in Nat /\ MaxTasks \in Nat /\ MaxCrashes \in Nat  BY MailboxAssumption
    <2>2. 0 \in 0 .. MaxClock /\ 0 \in 0 .. MaxTasks /\ 0 \in 0 .. MaxCrashes  BY <2>1
    <2> QED  BY <1>2, <1>8, <2>2 DEF RestSound
  <1>13. RoomIsLeft
    <2>1. Waiting = {}  BY <1>9, IdleFacts DEF Waiting
    <2> QED  BY <1>2, <1>8, <2>1, FS_EmptySet DEF RoomIsLeft
  <1>14. Bounded /\ HandedOnce /\ SeenStays
    <2>1. \A a \in Actors : Of(task[a]) = {0}  BY <1>9, IdleFacts DEF Of
    <2>2. Bounded  BY <1>2, <1>7, <2>1 DEF Bounded
    <2>3. HandedOnce  BY <1>9, IdleFacts DEF HandedOnce
    <2>4. SeenStays  BY <1>9, IdleFacts DEF SeenStays, SeenOf
    <2> QED  BY <2>2, <2>3, <2>4
  <1>15. BidsAreUnique  BY <1>7 DEF BidsAreUnique
  <1>16. ForwardedRecorded /\ KnownRecorded
    BY <1>2, <1>5, <1>7 DEF ForwardedRecorded, KnownRecorded
  <1> QED  BY <1>10, <1>11, <1>12, <1>13, <1>14, <1>15, <1>16 DEF MailboxInv

LEMMA StutterStep ==
  ASSUME MailboxInv, UNCHANGED vars
  PROVE  MailboxInv'
  <1> USE DEF vars
  <1>1. TasksSound' /\ TableSound' /\ RestSound' /\ RoomIsLeft' /\ Bounded'
    BY DEF MailboxInv, TasksSound, TableSound, RestSound, RoomIsLeft, Waiting, Bounded, Numbers
  <1>2. HandedOnce' /\ BidsAreUnique' /\ SeenStays'
    BY DEF MailboxInv, HandedOnce, BidsAreUnique, SeenStays, SeenOf, Numbers
  <1>3. ForwardedRecorded' /\ KnownRecorded'
    BY DEF MailboxInv, ForwardedRecorded, KnownRecorded, Numbers
  <1> QED  BY <1>1, <1>2, <1>3 DEF MailboxInv

LEMMA MailboxInvStep ==
  ASSUME MailboxInv, [Next]_vars
  PROVE  MailboxInv'
  <1>1. ASSUME NEW a \in Actors, Steps(a) PROVE MailboxInv'
    BY <1>1, NumberStep, GenerateStep, InsertStep, ReadPathStep, WritePathStep, ContinueStep,
       BulkStep, OperateStep, LinkStep, MarkStep, EndStep, LockedStep
    DEF Steps
  <1>2. ASSUME NEW a \in Actors, Begins(a) PROVE MailboxInv'
    BY <1>2, PostStep, CommandStep, DropStep, ListStep, SysopStep, SelectStep DEF Begins
  <1>3. ASSUME NEW a \in Actors, Break(a) PROVE MailboxInv'  BY <1>3, EndStep
  <1>4. ASSUME NEW p \in Processes, Crash(p) PROVE MailboxInv'  BY <1>4, CrashStep
  <1>5. CASE cleanup_expired  BY <1>5, CleanupStep
  <1>6. CASE Tick  BY <1>6, TickStep
  <1>7. CASE UNCHANGED vars  BY <1>7, StutterStep
  <1> QED  BY <1>1, <1>2, <1>3, <1>4, <1>5, <1>6, <1>7 DEF Next

\* The inductive invariant holds of every behaviour.
THEOREM Invariance == Spec => []MailboxInv
  <1>1. Init => MailboxInv  BY MailboxInvInit
  <1>2. MailboxInv /\ [Next]_vars => MailboxInv'  BY MailboxInvStep
  <1> QED  BY <1>1, <1>2, PTL DEF Spec

\* The types: every row, every task and both histories are of their sets.
THEOREM TypeCorrect == Spec => []TypeOK
  <1>1. MailboxInv => TypeOK
    BY DEF MailboxInv, TypeOK, TableSound, RestSound, TasksSound
  <1> QED  BY <1>1, Invariance, PTL

\* insert_message looks a BID up in one transaction and stores it in another, in
\* any process: no two messages ever carry one BID.
THEOREM BidsStayUnique == Spec => []BidsAreUnique
  <1>1. MailboxInv => BidsAreUnique  BY DEF MailboxInv
  <1> QED  BY <1>1, Invariance, PTL

\* A command, a session or an insert that holds a number across transactions
\* holds the message it saw, or a number that is in no use.
THEOREM NumbersStay == Spec => []NumbersKeepTheirMessage
  <1>1. MailboxInv => NumbersKeepTheirMessage
    BY DEF MailboxInv, NumbersKeepTheirMessage, SeenStays, SeenOf, HandedOnce, Handed
  <1> QED  BY <1>1, Invariance, PTL

\* A message marked F bears this node in its path, or the entry is about to be
\* written, or the history names it as lost.
THEOREM PathsTellTruth == Spec => []PathTellsTruth
  <1>1. ASSUME MailboxInv PROVE PathTellsTruth
    <2>1. ASSUME NEW a \in Links, NEW i, Pending(task[a], "", i)
          PROVE  PathPending(a) /\ task[a].msg = i
      BY <2>1 DEF Pending, PathPending
    <2> QED  BY <1>1, <2>1 DEF MailboxInv, ForwardedRecorded, PathTellsTruth
  <1> QED  BY <1>1, Invariance, PTL

-----------------------------------------------------------------------------
(***************************************************************************)
(* What no step does.                                                      *)
(***************************************************************************)

\* How a status leaves K: by the sysop's UPDATE, or the mark of a message that was
\* sent before it was killed.
LEMMA KilledStep ==
  ASSUME MailboxInv, [Next]_vars, NEW i \in Numbers, i \in DOMAIN rows',
         rows[i].status = "K", rows'[i].status # "K"
  PROVE  \/ rows'[i].status \in {"N", "H"}
         \/ \E a \in Links : task[a].at = "sent" /\ task[a].msg = i
  <1>1. rows' # rows  OBVIOUS
  <1>2. ASSUME NEW j, NEW s \in Statuses, SetStatus(j, s)
        PROVE  j = i /\ rows'[i].status = s
    BY <1>2, SetStatusFacts DEF MailboxInv
  <1>3. \A j \in Numbers : rows[j] \in Row  BY DEF MailboxInv, TableSound
  <1>4. CASE \E a \in Actors : Steps(a)
    <2>1. PICK a \in Actors : Steps(a)  BY <1>4
    <2>2. \/ Insert(a) \/ WritePath(a) \/ KillBulk(a) \/ Operate(a) \/ Mark(a)
      BY <1>1, <2>1
      DEF Steps, next_message_id, generate_bid, ReadPath, Continue, Exchange, Send, Receive,
          CloseLink, DatabaseLocked
    <2>3. CASE Insert(a)
      <3>1. rows' = [j \in Numbers \cup {task[a].msg} |->
                       IF j = task[a].msg THEN task[a].seen ELSE rows[j]]
        BY <1>1, <2>3 DEF Insert
      <3>2. task[a].msg \notin Numbers
        BY <2>3 DEF Insert, MailboxInv, HandedOnce, Handed
      <3> QED  BY <3>1, <3>2
    <2>4. CASE WritePath(a)
      <3>1. PICK j, p : rows' = IF j \in Numbers THEN [rows EXCEPT ![j].path = p] ELSE rows
        BY <2>4 DEF WritePath
      <3>2. rows'[i].status = rows[i].status  BY <1>3, <3>1 DEF Numbers, Row
      <3> QED  BY <3>2
    <2>5. CASE KillBulk(a)
      <3>1. PICK j : SetStatus(j, "K")  BY <2>5 DEF KillBulk
      <3> QED  BY <1>2, <3>1 DEF Statuses
    <2>6. CASE Operate(a)
      <3> DEFINE t == task[a]
                 j == t.msg
      <3>1. \/ mark_read(j) \/ kill_message(j) \/ update_message(j) \/ Move(j)
        <4>1. t.op \in {"read", "kill", "edit", "move"}
          BY <2>6, TaskOf DEF Operate, TaskSound
        <4>2. CASE t.op = "read"  BY <2>6, <4>2 DEF Operate
        <4>3. CASE t.op = "kill"  BY <2>6, <4>3 DEF Operate
        <4>4. CASE t.op = "edit"  BY <2>6, <4>4 DEF Operate
        <4>5. CASE t.op = "move"  BY <2>6, <4>5 DEF Operate
        <4> QED  BY <4>1, <4>2, <4>3, <4>4, <4>5
      <3> HIDE DEF j
      <3>2. CASE mark_read(j)
        <4>1. j \in Numbers /\ rows[j].status # "K" /\ SetStatus(j, "Y")
          BY <1>1, <3>2 DEF mark_read, SetStatus
        <4> QED  BY <1>2, <4>1 DEF Statuses
      <3>3. CASE kill_message(j)  BY <1>2, <3>3 DEF kill_message, Statuses
      <3>4. CASE update_message(j)  BY <1>1, <3>4 DEF update_message
      <3>5. CASE Move(j)
        <4>1. PICK x : rows' = IF j \in Numbers THEN [rows EXCEPT ![j].to = x.to, ![j].at = x.at] ELSE rows
          BY <3>5 DEF Move
        <4>2. rows'[i].status = rows[i].status  BY <1>3, <4>1 DEF Numbers, Row
        <4> QED  BY <4>2
      <3> QED  BY <3>1, <3>2, <3>3, <3>4, <3>5
    <2>7. CASE Mark(a)
      <3>1. SetStatus(task[a].msg, "F") /\ task[a].at = "sent"  BY <2>7 DEF Mark
      <3>2. task[a].msg = i  BY <1>2, <3>1 DEF Statuses
      <3>3. a \in Links  BY <3>1, TaskOf DEF TaskSound
      <3> QED  BY <3>1, <3>2, <3>3
    <2> QED  BY <2>2, <2>3, <2>4, <2>5, <2>6, <2>7
  <1>5. CASE \E a \in Actors : Begins(a)
    <2>1. PICK a \in Actors : SysopHold(a) \/ SysopRelease(a) \/ HoldRelease(a)
      BY <1>1, <1>5
      DEF Begins, Compose, SendMessage, PageSysop, Posts, Command, ForwardDrop, ReadAll, KillMine,
          KillKind, Lists, Select
    <2>2. PICK s \in {"H", "N"} : \E j \in Numbers : SetStatus(j, s)
      BY <2>1 DEF SysopHold, SysopRelease, HoldRelease, SysopSets
    <2> QED  BY <1>2, <2>2 DEF Statuses
  <1>6. CASE cleanup_expired
    <2>1. rows'[i] = rows[i]  BY <1>6 DEF cleanup_expired
    <2> QED  BY <2>1
  <1>7. CASE \/ \E a \in Actors : Break(a)
             \/ \E p \in Processes : Crash(p)
             \/ Tick \/ UNCHANGED vars
    BY <1>1, <1>7 DEF Break, Crash, Tick, vars
  <1> QED  BY <1>4, <1>5, <1>6, <1>7 DEF Next

\* mark_read and the others keep a kill: only hold, release and the mark of a
\* message that was sent already take a message out of status K.
THEOREM KillsStay == Spec => KilledStaysKilled
  <1>1. MailboxInv /\ [Next]_vars =>
          \A i \in Numbers \cap DOMAIN rows' :
            rows[i].status = "K" /\ rows'[i].status # "K" =>
              \/ rows'[i].status \in {"N", "H"}
              \/ \E a \in Links : task[a].at = "sent" /\ task[a].msg = i
    BY KilledStep
  <1> QED  BY <1>1, Invariance, PTL DEF Spec, KilledStaysKilled

\* Offers are made by _select_outgoing alone.
LEMMA OfferStep ==
  ASSUME MailboxInv, [Next]_vars, NEW a \in Links, task[a].at = "idle", task'[a].at = "answer"
  PROVE  Select(a)
  <1>1. a \in Actors /\ task[a] \in Task  BY ActorFacts, TaskOf
  <1>2. task \in [Actors -> Task]  BY DEF MailboxInv, TasksSound
  <1>3. ASSUME NEW b \in Actors, NEW t, Becomes(b, t) PROVE b = a /\ t.at = "answer"
    BY <1>1, <1>2, <1>3 DEF Becomes
  <1>4. \A b \in Actors : ~Steps(b) /\ ~Break(b)
    <2>1. ASSUME NEW b \in Actors, Steps(b) \/ Break(b) PROVE FALSE
      <3>1. \E t : Becomes(b, t)
        BY <2>1
        DEF Steps, next_message_id, generate_bid, Insert, ReadPath, WritePath, Continue, KillBulk,
            Operate, Exchange, Send, Mark, Receive, CloseLink, DatabaseLocked, Break
      <3>2. task[b].at # "idle"
        BY <2>1
        DEF Steps, next_message_id, generate_bid, Insert, ReadPath, WritePath, Continue, KillBulk,
            Operate, Exchange, Send, Mark, Receive, CloseLink, DatabaseLocked, Break, Writing
      <3> QED  BY <1>3, <3>1, <3>2
    <2> QED  BY <2>1
  <1>5. ASSUME NEW b \in Actors, Begins(b) PROVE Select(a)
    <2>1. ~SysopHold(b) /\ ~SysopRelease(b) /\ ~HoldRelease(b)
      BY DEF SysopHold, SysopRelease, HoldRelease, SysopSets
    <2>2. b \in Clients => b # a  BY ActorFacts
    <2>3. ASSUME NEW t, Starts(b, t) PROVE b = a  BY <1>3, <2>3 DEF Starts
    <2>4. \A t : b \in Clients => ~Starts(b, t)  BY <2>2, <2>3
    <2>5. Select(b)
      BY <1>5, <2>1, <2>4
      DEF Begins, Compose, SendMessage, PageSysop, Posts, Command, ForwardDrop, ReadAll, KillMine,
          KillKind, Lists
    <2>6. b = a  BY <2>3, <2>5 DEF Select
    <2> QED  BY <2>5, <2>6
  <1>6. ASSUME NEW p \in Processes, Crash(p) PROVE FALSE
    <2>1. task'[a] \in {Idle, task[a]}  BY <1>1, <1>6 DEF Crash
    <2> QED  BY <2>1, IdleFacts
  <1>7. task' # task  OBVIOUS
  <1> QED  BY <1>4, <1>5, <1>6, <1>7 DEF Next, cleanup_expired, Tick, vars

\* _select_outgoing never picks for a neighbour what was sent to it or came from it,
\* released by the sysop or not, unless the entry in its path is lost or waits.
THEOREM OffersAreMadeOnce == Spec => OfferedOnce
  <1>1. ASSUME MailboxInv, [Next]_vars
        PROVE  \A a \in Links :
                 task[a].at = "idle" /\ task'[a].at = "answer" =>
                   \A i \in task'[a].todo :
                     <<task'[a].nbr, i>> \in known =>
                       i \in torn \/ \E b \in Links : PathPending(b) /\ task[b].msg = i
    <2> SUFFICES ASSUME NEW a \in Links, task[a].at = "idle", task'[a].at = "answer",
                        NEW i \in task'[a].todo, <<task'[a].nbr, i>> \in known
                 PROVE  i \in torn \/ \E b \in Links : PathPending(b) /\ task[b].msg = i
      OBVIOUS
    <2>1. Select(a)  BY <1>1, OfferStep
    <2>2. PICK n \in Neighbours :
            Starts(a, [Idle EXCEPT !.at = "answer", !.op = "link", !.todo = Selected(n), !.nbr = n])
      BY <2>1 DEF Select
    <2> DEFINE w == Selected(n)
               t == [Idle EXCEPT !.at = "answer", !.op = "link", !.todo = w, !.nbr = n]
    <2>3. task'[a] = t
      BY <1>1, <2>2, ActorFacts DEF Starts, Becomes, MailboxInv, TasksSound
    <2>4. t.todo = w /\ t.nbr = n
      <3> HIDE DEF w
      <3> QED  BY IdleFacts DEF Task
    <2>5. i \in Selected(n) /\ <<n, i>> \in known  BY <2>3, <2>4
    <2>6. i \in Numbers /\ {Node, n} \cap rows[i].path = {}  BY <2>5 DEF Selected
    <2>7. i \in torn \/ \E b \in Links : Pending(task[b], n, i)
      BY <1>1, <2>5, <2>6 DEF MailboxInv, KnownRecorded
    <2> QED  BY <2>7 DEF Pending, PathPending
  <1> QED  BY <1>1, Invariance, PTL DEF Spec, OfferedOnce

==============================================================================
