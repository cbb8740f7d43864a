----------------------------- MODULE AX25Router -----------------------------
(***************************************************************************)
(* The life of the connections of one remote station in ax25/router.py:    *)
(* the table of connections, the task that runs each session, and the      *)
(* callback that cleans up after it.  The tables are dictionaries keyed by *)
(* the station's callsign and a frame touches only its sender's entries,   *)
(* so one station is enough.                                               *)
(*                                                                         *)
(* AX25Link models a connection's sequence numbers and retries.  Here a    *)
(* connection is its state and its count of DISC retries; T1 may give up a *)
(* connected link at any time, as it may whenever a frame is unacknowledged.*)
(*                                                                         *)
(* Connections are numbered in the order the router makes them.            *)
(***************************************************************************)
EXTENDS Integers, Sequences

CONSTANTS
  MaxCalls,    \* bound: SABM frames the station sends
  MaxHangups,  \* bound: DISC frames the station sends, and times it vanishes
  MaxAir,      \* bound: frames the path holds per direction, more are lost
  MaxRetries   \* T1 expiries before a release is given up (_MAX_RETRIES)

ASSUME RouterAssumption ==
  /\ MaxCalls \in Nat /\ MaxHangups \in Nat
  /\ MaxAir \in Nat \ {0} /\ MaxRetries \in Nat

VARIABLES
  table,     \* _connections: the connection listed for the station, or None
  sessTask,  \* _session_tasks: the connection whose session task is listed, or None
  made,      \* connections made so far
  link,      \* link[i]: connection i
  task,      \* task[i]: the task of connection i's session
  bye,       \* bye[i]: a line that ends session i waits to be read
  peer,      \* the station's own view of its link
  toPeer, toBBS,  \* frames on the path
  calls, hangups

vars == <<table, sessTask, made, link, task, bye, peer, toPeer, toBBS, calls, hangups>>

bbs == <<table, sessTask, made, link, task, bye>>
station == <<peer, calls, hangups>>

None == 0
Ids  == 1 .. MaxCalls

Link == [state : {"DISCONNECTED", "CONNECTED", "AWAITING_RELEASE"},
         retry : 0 .. MaxRetries]

Tasks == {"none", "running", "cancelled", "done", "reaped"}

Init ==
  /\ table = None /\ sessTask = None /\ made = 0
  /\ link = [i \in Ids |-> [state |-> "DISCONNECTED", retry |-> 0]]
  /\ task = [i \in Ids |-> "none"]
  /\ bye  = [i \in Ids |-> FALSE]
  /\ peer = "down" /\ toPeer = <<>> /\ toBBS = <<>>
  /\ calls = 0 /\ hangups = 0

\* The path loses the frames it has no room for.
Put(q, f) == IF Len(q) < MaxAir THEN Append(q, f) ELSE q

LosePeerBound == toPeer # <<>> /\ toPeer' = Tail(toPeer) /\ UNCHANGED <<bbs, station, toBBS>>
LoseBBSBound  == toBBS # <<>> /\ toBBS' = Tail(toBBS) /\ UNCHANGED <<bbs, station, toPeer>>

-----------------------------------------------------------------------------
(***************************************************************************)
(* Frames reach the router.                                                *)
(***************************************************************************)
Received(f) == toBBS # <<>> /\ Head(toBBS) = f

\* The router or a connection answers the frame it has taken, or does not.
Reply(f) == toBBS' = Tail(toBBS) /\ toPeer' = Put(toPeer, f)
Quiet    == toBBS' = Tail(toBBS) /\ UNCHANGED toPeer

Down(i) == link' = [link EXCEPT ![i].state = "DISCONNECTED"]

\* Faulty variants: any listed connection takes the SABM, or none does.
ResetsAny  == table # None
ResetsNone == FALSE

\* A connection that is up takes the SABM as a request to start over.
Resets == table # None /\ link[table].state = "CONNECTED"

SabmAgain ==
  /\ Received("SABM") /\ Resets
  /\ Reply("UA")
  /\ link' = [link EXCEPT ![table] = [state |-> "CONNECTED", retry |-> 0]]
  /\ UNCHANGED <<table, sessTask, made, task, bye, station>>

\* Otherwise the session task still listed is cancelled, and a new connection
\* and a new session replace what was listed.  (No more are made than called for.)
SabmNew ==
  /\ Received("SABM") /\ ~Resets /\ made < MaxCalls
  /\ LET i == made + 1 IN
     /\ Reply("UA")
     /\ made' = i /\ table' = i /\ sessTask' = i
     /\ link' = [link EXCEPT ![i] = [state |-> "CONNECTED", retry |-> 0]]
     /\ task' = [j \in Ids |-> IF j = i THEN "running"
                               ELSE IF j = sessTask /\ task[j] = "running" THEN "cancelled"
                               ELSE task[j]]
  /\ UNCHANGED <<bye, station>>

\* Any other frame of a station that is not listed is answered with DM.
NotListed ==
  /\ toBBS # <<>> /\ Head(toBBS) # "SABM" /\ table = None
  /\ Reply("DM")
  /\ UNCHANGED <<bbs, station>>

Disc ==
  /\ Received("DISC") /\ table # None
  /\ Reply("UA") /\ Down(table)
  /\ UNCHANGED <<table, sessTask, made, task, bye, station>>

Dm ==
  /\ Received("DM") /\ table # None
  /\ Quiet /\ Down(table)
  /\ UNCHANGED <<table, sessTask, made, task, bye, station>>

Ua ==
  /\ Received("UA") /\ table # None
  /\ Quiet
  /\ IF link[table].state = "AWAITING_RELEASE" THEN Down(table) ELSE UNCHANGED link
  /\ UNCHANGED <<table, sessTask, made, task, bye, station>>

\* A line that will end the session: BYE, or a third failed login.
Line ==
  /\ Received("BYE") /\ table # None
  /\ IF link[table].state = "CONNECTED"
     THEN Quiet /\ bye' = [bye EXCEPT ![table] = TRUE]
     ELSE Reply("DM") /\ UNCHANGED bye
  /\ UNCHANGED <<table, sessTask, made, link, task, station>>

-----------------------------------------------------------------------------
(***************************************************************************)
(* The session task, and the timers of its connection.  When the link goes *)
(* down under it, the session reads an empty line and goes on waiting: it  *)
(* ends only by a line that ends it or by being cancelled.                 *)
(***************************************************************************)

\* A faulty variant: the session ends and the connection is left as it is.
LeaveUp(i) == UNCHANGED <<link, toPeer>>

\* The end of _run_session, however it ends: a connection that is up is released.
Release(i) ==
  IF link[i].state = "CONNECTED"
  THEN /\ link' = [link EXCEPT ![i].state = "AWAITING_RELEASE"]
       /\ toPeer' = Put(toPeer, "DISC")
  ELSE UNCHANGED <<link, toPeer>>

Finish(i) ==
  /\ task[i] = "running" /\ bye[i]
  /\ Release(i)
  /\ task' = [task EXCEPT ![i] = "done"]
  /\ bye' = [bye EXCEPT ![i] = FALSE]
  /\ UNCHANGED <<table, sessTask, made, station, toBBS>>

Cancelled(i) ==
  /\ task[i] = "cancelled"
  /\ Release(i)
  /\ task' = [task EXCEPT ![i] = "done"]
  /\ UNCHANGED <<table, sessTask, made, bye, station, toBBS>>

\* The done callback pops whatever the tables list for the station.
Cleanup(i) ==
  /\ task[i] = "done"
  /\ task' = [task EXCEPT ![i] = "reaped"]
  /\ table' = None /\ sessTask' = None
  /\ UNCHANGED <<made, link, bye, station, toPeer, toBBS>>

\* Session output, a retransmission or a poll.
Transmit(i) ==
  /\ link[i].state = "CONNECTED"
  /\ toPeer' = Put(toPeer, "I")
  /\ UNCHANGED <<bbs, station, toBBS>>

\* A faulty variant: DISC is sent once more than the limit allows.
T1ReleaseOnceMore(i) ==
  /\ link[i].state = "AWAITING_RELEASE"
  /\ IF link[i].retry <= MaxRetries
     THEN /\ link' = [link EXCEPT ![i].retry = @ + 1]
          /\ toPeer' = Put(toPeer, "DISC")
     ELSE Down(i) /\ UNCHANGED toPeer
  /\ UNCHANGED <<table, sessTask, made, task, bye, station, toBBS>>

T1Release(i) ==
  /\ link[i].state = "AWAITING_RELEASE"
  /\ IF link[i].retry < MaxRetries
     THEN /\ link' = [link EXCEPT ![i].retry = @ + 1]
          /\ toPeer' = Put(toPeer, "DISC")
     ELSE Down(i) /\ UNCHANGED toPeer
  /\ UNCHANGED <<table, sessTask, made, task, bye, station, toBBS>>

LinkFailure(i) ==
  /\ link[i].state = "CONNECTED"
  /\ Down(i)
  /\ UNCHANGED <<table, sessTask, made, task, bye, station, toPeer, toBBS>>

-----------------------------------------------------------------------------
(***************************************************************************)
(* The remote station, of any make: it calls, says BYE, hangs up, or       *)
(* vanishes, and answers what it hears.                                    *)
(***************************************************************************)
Says(f) == toBBS' = Put(toBBS, f) /\ UNCHANGED <<bbs, toPeer>>

Call ==
  /\ peer \in {"down", "calling"} /\ calls < MaxCalls
  /\ peer' = "calling" /\ calls' = calls + 1
  /\ Says("SABM") /\ UNCHANGED hangups

SayBye == peer = "up" /\ Says("BYE") /\ UNCHANGED station

HangUp ==
  /\ peer \in {"up", "releasing"} /\ hangups < MaxHangups
  /\ peer' = "releasing" /\ hangups' = hangups + 1
  /\ Says("DISC") /\ UNCHANGED calls

Vanish ==
  /\ peer # "down" /\ hangups < MaxHangups
  /\ peer' = "down" /\ hangups' = hangups + 1
  /\ UNCHANGED <<bbs, calls, toPeer, toBBS>>

Hears ==
  /\ toPeer # <<>> /\ toPeer' = Tail(toPeer)
  /\ LET f == Head(toPeer)
         next == CASE f = "UA" /\ peer = "calling"   -> "up"
                   [] f = "UA" /\ peer = "releasing" -> "down"
                   [] f \in {"DISC", "DM"}           -> "down"
                   [] OTHER                          -> peer
     IN /\ peer' = next
        /\ toBBS' = CASE f = "DISC" /\ peer = "up" -> Put(toBBS, "UA")
                      [] f \in {"DISC", "I"} /\ peer = "down" -> Put(toBBS, "DM")
                      [] OTHER -> toBBS
  /\ UNCHANGED <<bbs, calls, hangups>>

-----------------------------------------------------------------------------
HandleFrame == SabmAgain \/ SabmNew \/ NotListed \/ Disc \/ Dm \/ Ua \/ Line

Station == Call \/ SayBye \/ HangUp \/ Vanish \/ Hears

Session(i) == Finish(i) \/ Cancelled(i) \/ Cleanup(i)

Timer(i) == Transmit(i) \/ T1Release(i) \/ LinkFailure(i)

Next ==
  \/ HandleFrame \/ Station \/ LosePeerBound \/ LoseBBSBound
  \/ \E i \in Ids : Session(i) \/ Timer(i)

Spec == Init /\ [][Next]_vars

\* asyncio runs a task that can go on and a callback that is due.
FairSpec == Spec /\ \A i \in Ids : WF_vars(Session(i)) /\ WF_vars(T1Release(i))

-----------------------------------------------------------------------------
(***************************************************************************)
(* What the router promises.                                               *)
(***************************************************************************)
\* The tables list connections that were made, and every state is one of the
\* code's.
TypeOK ==
  /\ table \in Ids \cup {None} /\ sessTask \in Ids \cup {None}
  /\ made \in 0 .. MaxCalls
  /\ link \in [Ids -> Link] /\ task \in [Ids -> Tasks] /\ bye \in [Ids -> BOOLEAN]
  /\ peer \in {"down", "calling", "up", "releasing"}
  /\ toPeer \in Seq({"UA", "DM", "DISC", "I"})
  /\ toBBS \in Seq({"SABM", "UA", "DM", "DISC", "BYE"})
  /\ calls \in 0 .. MaxCalls /\ hangups \in 0 .. MaxHangups

\* Whoever the router lists as connected is being served: its session runs, is
\* not being cancelled and is the task listed (router.py _handle_sabm passes a
\* SABM to a listed connection only when that is up).
ServedWhileConnected ==
  table # None /\ link[table].state = "CONNECTED" =>
    task[table] = "running" /\ sessTask = table

\* A session that is being cancelled has no link to release, so ending it sends
\* nothing: a station that calls again is never hung up on by the session it
\* replaces (the finally clause of _run_session).
CancelledIsDown == \A i \in Ids : task[i] = "cancelled" => link[i].state # "CONNECTED"

\* A session never ends with its link left up, whichever way it ends.
EndedIsReleased ==
  \A i \in Ids : task[i] \in {"done", "reaped"} => link[i].state # "CONNECTED"

\* The two tables list the same connection: popped and replaced together, so the
\* task cancelled for a new call is the one whose connection is given up.
TablesAgree == table = sessTask

\* Goodbye is carried out: a line that ends a session brings its link down, by
\* the station's answer or by T1's giving up, whatever frames are lost.
GoodbyeEnds ==
  \A i \in Ids : bye[i] /\ task[i] = "running" ~> link[i].state = "DISCONNECTED"

\* Every link that is up is listed, so that its frames reach it ("Active
\* connections keyed by remote callsign string", router.py:72).
ActiveIsListed == \A i \in Ids : link[i].state = "CONNECTED" => table = i
=============================================================================
