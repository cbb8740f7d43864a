----------------------------- MODULE Conference -----------------------------
(***************************************************************************)
(* The conference of src/pybulletin/transport/conference.py, with the two  *)
(* kinds of client that use it: terminals, served by a task each under the *)
(* telnet server's limits (transport/telnet.py), and browsers, served by   *)
(* the WebSocket handler of web/app.py with a task that drains the queue.  *)
(*                                                                         *)
(* All run on one event loop.  A step goes from one suspension to the      *)
(* next; no lock of the hub is ever held across one, so looking a room up, *)
(* joining or leaving it and telling its members is one step.              *)
(***************************************************************************)
EXTENDS Naturals, Sequences, FiniteSets

CONSTANTS
  Terminals,   \* sessions of the telnet server
  Browsers,    \* WebSocket connections
  Rooms,       \* names of rooms, normalised
  Depth,       \* _QUEUE_DEPTH
  MaxClients,  \* TelnetServer._max_clients
  MaxEntries,  \* bound: entries into rooms
  MaxSaid      \* bound: lines said

ASSUME ConferenceAssumption ==
  /\ Terminals \cap Browsers = {}
  /\ Depth \in Nat /\ MaxClients \in Nat /\ MaxEntries \in Nat /\ MaxSaid \in Nat

VARIABLES
  net,     \* the rooms and the queues: see NoNet
  at,      \* where each client's task is suspended
  room,    \* the room a client entered last
  key,     \* the session key it got there
  text,    \* the line its task or its drain is sending
  line,    \* the input it has read and not yet handled
  stopped, \* terminals whose time is over: they were cancelled
  lost,    \* clients whose connection is gone
  dead,    \* browsers whose drain task has ended with an exception
  listed,  \* Application._ws_clients
  said,    \* lines said
  wreck    \* history: what failures left behind

confVars == <<net, at, room, key, text, line, stopped, lost, dead, listed, said, wreck>>

Clients == Terminals \cup Browsers
Keys == 1 .. MaxEntries
Texts == [kind : {"joined", "left", "said"}, of : Keys, nth : 0 .. MaxSaid]
Lines == {"none", "exit", "say"}
NoRoom == ""

(***************************************************************************)
(* The hub: _rooms maps a name to the keys of its participants; each has a *)
(* bounded queue.  owed and full are history: the lines told in the room   *)
(* of a client since the last one it was sent, and whether its queue has   *)
(* overflowed.                                                             *)
(***************************************************************************)
NoNet == [hub |-> <<>>, queue |-> [c \in Clients |-> <<>>], owed |-> [c \in Clients |-> <<>>],
          full |-> [c \in Clients |-> FALSE], keys |-> 0]

Inside(c) == at[c] \in {"welcome", "wait", "reap", "text", "echo", "room"}

\* _get_or_create and the registration: a new key and an empty queue.
Joined(n, c, r) ==
  [n EXCEPT !.keys = @ + 1,
            !.hub = [x \in DOMAIN @ \cup {r} |->
                       (IF x \in DOMAIN @ THEN @[x] ELSE {}) \cup (IF x = r THEN {n.keys + 1} ELSE {})],
            !.queue[c] = <<>>, !.owed[c] = <<>>, !.full[c] = FALSE]

\* Faulty variants: a queue takes any number of lines; nobody is left out.
Broadcast_Unbounded(n, r, m, except) ==
  [n EXCEPT !.queue = [c \in Clients |-> IF r \in DOMAIN n.hub /\ key[c] \in n.hub[r] \ except
                                         THEN Append(@[c], m) ELSE @[c]]]
Broadcast_All(n, r, m, except) ==
  [n EXCEPT !.queue = [c \in Clients |->
                         IF r \in DOMAIN n.hub /\ key[c] \in n.hub[r] /\ Len(@[c]) < Depth
                         THEN Append(@[c], m) ELSE @[c]]]

\* _broadcast: a full queue drops the line.
Broadcast(n, r, m, except) ==
  LET members == {c \in Clients : r \in DOMAIN n.hub /\ key[c] \in n.hub[r] \ except}
      fits(c) == Len(n.queue[c]) < Depth
  IN [n EXCEPT !.queue = [c \in Clients |-> IF c \in members /\ fits(c) THEN Append(@[c], m) ELSE @[c]],
               !.full = [c \in Clients |-> @[c] \/ (c \in members /\ ~fits(c))]]

\* The line m is told in room r, to all but the clients of apart.
Tell(n, r, m, apart) ==
  [Broadcast(n, r, m, {key[c] : c \in apart}) EXCEPT
     !.owed = [c \in Clients |->
                 IF Inside(c) /\ room[c] = r /\ c \notin apart THEN Append(@[c], m) ELSE @[c]]]

\* The participant's entry is popped and the others are told.
Popped(n, c) == [n EXCEPT !.hub[room[c]] = @ \ {key[c]},
                          !.queue[c] = <<>>, !.owed[c] = <<>>, !.full[c] = FALSE]
Notice(kind, c) == [kind |-> kind, of |-> key[c], nth |-> 0]
Parted(n, c) == Tell(Popped(n, c), room[c], Notice("left", c), {c})

\* A faulty variant: the room goes with whoever leaves it.
Swept_Any(n, r) == [n EXCEPT !.hub = [x \in DOMAIN @ \ {r} |-> @[x]]]

\* _maybe_remove.
Swept(n, r) ==
  IF r \in DOMAIN n.hub /\ n.hub[r] = {}
  THEN [n EXCEPT !.hub = [x \in DOMAIN @ \ {r} |-> @[x]]]
  ELSE n

Init ==
  /\ net = NoNet
  /\ at = [c \in Clients |-> "off"]
  /\ room = [c \in Clients |-> NoRoom]
  /\ key = [c \in Clients |-> 0]
  /\ text = [c \in Clients |-> <<>>]
  /\ line = [c \in Clients |-> "none"]
  /\ stopped = {} /\ lost = {} /\ dead = {} /\ listed = {} /\ said = 0
  /\ wreck = [ghosts |-> {}, rooms |-> {}, browsers |-> {}, deaf |-> {}]

(***************************************************************************)
(* Terminals: sessions of the telnet server.  AX25Router serves callers    *)
(* the same way with no limit and no timeout, and cancels one only when    *)
(* its station calls again.                                                *)
(***************************************************************************)
Active == {s \in Terminals : at[s] # "off"}

\* TelnetServer._accept, and the session up to its prompt; a connection over
\* the limit is refused and nothing changes.
Accept(s) ==
  /\ at[s] = "off" /\ Cardinality(Active) < MaxClients
  /\ at' = [at EXCEPT ![s] = "prompt"]
  /\ UNCHANGED <<net, room, key, text, line, stopped, lost, dead, listed, said, wreck>>

\* The C command: enter_room and run_session up to the welcome being sent.
EnterRoom(s, r) ==
  /\ at[s] = "prompt" /\ net.keys < MaxEntries
  /\ net' = Joined(net, s, r)
  /\ key' = [key EXCEPT ![s] = net.keys + 1]
  /\ room' = [room EXCEPT ![s] = r]
  /\ at' = [at EXCEPT ![s] = "welcome"]
  /\ UNCHANGED <<text, line, stopped, lost, dead, listed, said, wreck>>

\* The welcome is sent and the others are told.
Welcomed(s) ==
  /\ at[s] = "welcome"
  /\ net' = Tell(net, room[s], Notice("joined", s), {s})
  /\ at' = [at EXCEPT ![s] = "wait"]
  /\ UNCHANGED <<room, key, text, line, stopped, lost, dead, listed, said, wreck>>

\* The loop ends, by a command (a request to switch rooms is one: run_session
\* discards the room), or by an exception or cancellation, which goes on after
\* the finally clause.
Quits(s, way) ==
  /\ net' = Parted(net, s)
  /\ at' = [at EXCEPT ![s] = way]
  /\ text' = [text EXCEPT ![s] = <<>>]
  /\ line' = [line EXCEPT ![s] = "none"]

\* Input l is handled: a line said is echoed first.  A blank line waits again,
\* as /W and /L do once answered.
Handles(n, s, l) ==
  IF l = "exit"
  THEN Quits(s, "goodbye") /\ said' = said
  ELSE /\ net' = n
       /\ at' = [at EXCEPT ![s] = IF l = "say" THEN "echo" ELSE "wait"]
       /\ text' = [text EXCEPT ![s] = <<>>]
       /\ line' = [line EXCEPT ![s] = "none"]
       /\ said' = IF l = "say" THEN said + 1 ELSE said

\* asyncio.wait returns: with a line from the queue, with input, or with both.
\* A task that is not done is cancelled and awaited; its line stays queued.  A
\* blank line is none; at end of input every line is, and a read that fails
\* ends the loop.
Wakes(s) ==
  /\ at[s] = "wait"
  /\ \E l \in Lines, done \in {{"input"}, {"recv"}, {"input", "recv"}} :
       /\ "recv" \in done => net.queue[s] # <<>>
       /\ l # "none" => "input" \in done
       /\ l = "say" => s \notin lost /\ said < MaxSaid
       /\ line' = [line EXCEPT ![s] = l]
       /\ IF "recv" \in done
          THEN /\ net' = [net EXCEPT !.queue[s] = Tail(@)]
               /\ text' = [text EXCEPT ![s] = <<Head(net.queue[s])>>]
          ELSE UNCHANGED <<net, text>>
       /\ at' = [at EXCEPT ![s] = IF done = {"input", "recv"} THEN "text" ELSE "reap"]
  /\ UNCHANGED <<room, key, stopped, lost, dead, listed, said, wreck>>

\* The task that was cancelled has ended.
Reaped(s) ==
  /\ at[s] = "reap"
  /\ line[s] = "say" => said < MaxSaid
  /\ IF text[s] = <<>>
     THEN Handles(net, s, line[s])
     ELSE at' = [at EXCEPT ![s] = "text"] /\ UNCHANGED <<net, text, line, said>>
  /\ UNCHANGED <<room, key, stopped, lost, dead, listed, wreck>>

\* The line from the queue is sent, then the input read with it is handled.
After(q, m) == LET i == CHOOSE j \in DOMAIN q : q[j] = m /\ \A k \in 1 .. j - 1 : q[k] # m
               IN SubSeq(q, i + 1, Len(q))
Heard(n, c, m) == [n EXCEPT !.owed[c] = After(@, m)]
TextSent(s) ==
  /\ at[s] = "text"
  /\ line[s] = "say" => said < MaxSaid
  /\ Handles(Heard(net, s, text[s][1]), s, line[s])
  /\ UNCHANGED <<room, key, stopped, lost, dead, listed, wreck>>

\* The echo is sent and the line told to the others.
Echoed(s) ==
  /\ at[s] = "echo"
  /\ net' = Tell(net, room[s], [kind |-> "said", of |-> key[s], nth |-> said], {s})
  /\ at' = [at EXCEPT ![s] = "wait"]
  /\ UNCHANGED <<room, key, text, line, stopped, lost, dead, listed, said, wreck>>

\* A session ends where no finally clause of the room guards it: during the
\* welcome the participant stays behind, during the farewell the room does.
Leaving(c) == at[c] \in {"goodbye", "thrown"}
Forgets(c) ==
  /\ key' = [key EXCEPT ![c] = 0]
  /\ room' = [room EXCEPT ![c] = NoRoom]
Ends(s) ==
  /\ at' = [at EXCEPT ![s] = "off"]
  /\ wreck' = [wreck EXCEPT !.ghosts = IF at[s] = "welcome" THEN @ \cup {key[s]} ELSE @,
                            !.rooms = IF Leaving(s) THEN @ \cup {room[s]} ELSE @,
                            !.deaf = @ \ {s}]
  /\ net' = [net EXCEPT !.queue[s] = <<>>, !.owed[s] = <<>>, !.full[s] = FALSE]
  /\ stopped' = stopped \ {s} /\ lost' = lost \ {s}
  /\ Forgets(s)
  /\ UNCHANGED <<text, line, dead, listed, said>>

\* The farewell is sent, the room is removed if it is empty, and the prompt
\* comes back.
Left(s) ==
  /\ at[s] = "goodbye"
  /\ at' = [at EXCEPT ![s] = "prompt"]
  /\ net' = Swept(net, room[s])
  /\ Forgets(s)
  /\ UNCHANGED <<text, line, stopped, lost, dead, listed, said, wreck>>

\* The farewell is sent and the exception goes on: enter_room does not remove
\* the room.
Thrown(s) == at[s] = "thrown" /\ Ends(s)

\* A send to a connection that is gone raises; at the prompt, and in the
\* handler of the error, the next send does too.
Breaks(s) ==
  /\ s \in lost
  /\ \/ at[s] \in {"prompt", "welcome", "goodbye", "thrown"} /\ Ends(s)
     \/ /\ at[s] \in {"text", "echo"} /\ Quits(s, "thrown")
        /\ UNCHANGED <<room, key, stopped, lost, dead, listed, said, wreck>>

\* A faulty variant: the time is looked at when a command is awaited.
Cancel_AtPrompt(s) == at[s] = "prompt" /\ Ends(s)

\* wait_for cancels the session when its time is over: once, wherever its task
\* is suspended.  While it awaits the task it cancelled, _run_loop takes its own
\* cancellation for that task's and goes on.
Cancel(s) ==
  /\ at[s] # "off" /\ s \notin stopped
  /\ \/ at[s] \in {"prompt", "welcome", "goodbye", "thrown"} /\ Ends(s)
     \/ /\ at[s] \in {"wait", "text", "echo"} /\ Quits(s, "thrown")
        /\ stopped' = stopped \cup {s}
        /\ UNCHANGED <<room, key, lost, dead, listed, said, wreck>>
     \/ /\ at[s] = "reap"
        /\ stopped' = stopped \cup {s} /\ wreck' = [wreck EXCEPT !.deaf = @ \cup {s}]
        /\ UNCHANGED <<net, at, room, key, text, line, lost, dead, listed, said>>

(***************************************************************************)
(* Browsers: Application.handle_ws.                                        *)
(***************************************************************************)
Open(b) ==
  /\ at[b] = "off" /\ b \notin listed
  /\ at' = [at EXCEPT ![b] = "open"]
  /\ listed' = listed \cup {b}
  /\ UNCHANGED <<net, room, key, text, line, stopped, lost, dead, said, wreck>>

\* _leave_conf: leave_room_ws, and the drain task is cancelled.
Out(n, b) == IF at[b] = "room" THEN Swept(Parted(n, b), room[b]) ELSE n

\* conference_join, and a switch asked for with /J: out of the old room first.
Join(b, r) ==
  /\ at[b] \in {"open", "room"} /\ b \notin dead \cup lost
  /\ net.keys < MaxEntries
  /\ net' = LET n == Joined(Out(net, b), b, r)
            IN [Tell(n, r, [kind |-> "joined", of |-> n.keys, nth |-> 0], {b})
                  EXCEPT !.owed[b] = <<>>, !.queue[b] = <<>>]
  /\ key' = [key EXCEPT ![b] = net.keys + 1]
  /\ room' = [room EXCEPT ![b] = r]
  /\ at' = [at EXCEPT ![b] = "room"]
  /\ UNCHANGED <<text, line, stopped, lost, dead, listed, said, wreck>>

\* conference_message: send_ws puts the line into the speaker's own queue too.
Say(b) ==
  /\ at[b] = "room" /\ b \notin lost /\ said < MaxSaid
  /\ said' = said + 1
  /\ net' = Tell(net, room[b], [kind |-> "said", of |-> key[b], nth |-> said + 1], {})
  /\ UNCHANGED <<at, room, key, text, line, stopped, lost, dead, listed, wreck>>

\* conference_leave.
LeaveConf(b) ==
  /\ at[b] = "room" /\ b \notin dead \cup lost
  /\ net' = Out(net, b)
  /\ at' = [at EXCEPT ![b] = "open"]
  /\ Forgets(b)
  /\ UNCHANGED <<text, line, stopped, lost, dead, listed, said, wreck>>

\* The connection ends, or a message that leaves the room meets a dead drain
\* task: _leave_conf raises its exception, and the socket stays listed.
CloseWs(b) ==
  /\ at[b] \in {"open", "room"}
  /\ net' = Out(net, b)
  /\ at' = [at EXCEPT ![b] = "off"]
  /\ lost' = lost \ {b} /\ dead' = dead \ {b}
  /\ Forgets(b)
  /\ IF b \in dead
     THEN listed' = listed /\ wreck' = [wreck EXCEPT !.browsers = @ \cup ({b} \cap listed)]
     ELSE listed' = listed \ {b} /\ wreck' = wreck
  /\ UNCHANGED <<text, line, stopped, said>>

\* The drain task sends the next line, or fails to.
Drain(b) ==
  /\ at[b] = "room" /\ b \notin dead /\ net.queue[b] # <<>>
  /\ net' = [Heard(net, b, Head(net.queue[b])) EXCEPT !.queue[b] = Tail(@)]
  /\ dead' \in {dead} \cup (IF b \in lost THEN {dead \cup {b}} ELSE {})
  /\ UNCHANGED <<at, room, key, text, line, stopped, lost, listed, said, wreck>>

\* A faulty variant: sockets that are slow are dropped as well.
WebBroadcast_Slow ==
  \E gone \in SUBSET listed :
    /\ gone # {}
    /\ listed' = listed \ gone
    /\ UNCHANGED <<net, at, room, key, text, line, stopped, lost, dead, said, wreck>>

\* Application.broadcast: sockets whose send raises are dropped from the list;
\* a closed one sends nothing and raises nothing.
WebBroadcast ==
  \E gone \in SUBSET {b \in listed : b \in lost /\ at[b] # "off"} :
    /\ gone # {}
    /\ listed' = listed \ gone
    /\ UNCHANGED <<net, at, room, key, text, line, stopped, lost, dead, said, wreck>>

\* A connection is gone; its task does not know yet.
Lose(c) ==
  /\ at[c] # "off" /\ c \notin lost
  /\ lost' = lost \cup {c}
  /\ UNCHANGED <<net, at, room, key, text, line, stopped, dead, listed, said, wreck>>

Terminal(s) ==
  \/ Accept(s) \/ Welcomed(s) \/ Wakes(s) \/ Reaped(s) \/ TextSent(s) \/ Echoed(s)
  \/ Left(s) \/ Thrown(s) \/ Breaks(s) \/ Cancel(s)
  \/ \E r \in Rooms : EnterRoom(s, r)
Browser(b) ==
  \/ Open(b) \/ Say(b) \/ LeaveConf(b) \/ CloseWs(b) \/ Drain(b)
  \/ \E r \in Rooms : Join(b, r)

Next ==
  \/ \E s \in Terminals : Terminal(s)
  \/ \E b \in Browsers : Browser(b)
  \/ WebBroadcast
  \/ \E c \in Clients : Lose(c)

(***************************************************************************)
(* A session's time runs out, a send to a connection that is gone raises,  *)
(* and so does receiving from it.  Nothing is assumed of a client that is  *)
(* there: it may never read, and a send to it may never return.            *)
(***************************************************************************)
Fairness ==
  /\ \A s \in Terminals : WF_confVars(Cancel(s) \/ Breaks(s))
  /\ \A b \in Browsers : WF_confVars(b \in lost /\ CloseWs(b))

Spec == Init /\ [][Next]_confVars
FairSpec == Spec /\ Fairness

-----------------------------------------------------------------------------
TypeOK ==
  /\ net.keys \in 0 .. MaxEntries
  /\ DOMAIN net.hub \subseteq Rooms /\ \A r \in DOMAIN net.hub : net.hub[r] \subseteq Keys
  /\ \A c \in Clients : /\ Len(net.queue[c]) <= Depth
                        /\ net.queue[c] \in Seq(Texts) /\ net.owed[c] \in Seq(Texts)
                        /\ text[c] \in Seq(Texts) /\ Len(text[c]) <= 1
  /\ at \in [Clients -> {"off", "prompt", "welcome", "wait", "reap", "text", "echo",
                         "goodbye", "thrown", "open", "room"}]
  /\ Cardinality(Active) <= MaxClients
  /\ room \in [Clients -> Rooms \cup {NoRoom}] /\ key \in [Clients -> 0 .. MaxEntries]
  /\ line \in [Clients -> Lines]
  /\ stopped \subseteq Terminals /\ lost \subseteq Clients
  /\ dead \subseteq Browsers /\ listed \subseteq Browsers
  /\ said \in 0 .. MaxSaid

\* The participants of a room are the clients whose tasks are in it, each under
\* its own key, and a room without any is gone once the last farewell is sent:
\* but for a participant whose welcome failed and a room left by a failure
\* (run_session, enter_room).
MembersArePresent ==
  /\ \A c \in Clients : Inside(c) => room[c] \in DOMAIN net.hub
  /\ \A r \in DOMAIN net.hub :
       /\ net.hub[r] \ wreck.ghosts = {key[c] : c \in {d \in Clients : Inside(d) /\ room[d] = r}}
       /\ net.hub[r] = {} => \/ r \in wreck.rooms
                             \/ \E c \in Terminals : Leaving(c) /\ room[c] = r

\* Whoever is in a room is sent every line told there since it came, once and
\* in order, and none from another room; only the lines that found its queue
\* full are missing (_broadcast, _run_loop, _drain).
Subsequence(s, t) ==
  \E f \in [DOMAIN s -> DOMAIN t] : /\ \A i \in DOMAIN s : s[i] = t[f[i]]
                                    /\ \A i, j \in DOMAIN s : i < j => f[i] < f[j]
HeardInOrder ==
  \A c \in Clients :
    Inside(c) => LET coming == text[c] \o net.queue[c]
                 IN IF net.full[c] THEN Subsequence(coming, net.owed[c]) ELSE coming = net.owed[c]

\* Events are broadcast to the sockets that are open, and to no others but
\* those whose drain task had failed when they closed (handle_ws).
ListedAreOpen ==
  /\ \A b \in listed : at[b] # "off" \/ b \in wreck.browsers
  /\ \A b \in Browsers : at[b] # "off" /\ b \notin lost => b \in listed

\* A client whose connection is gone ends up in no room, its slot free, even a
\* terminal that only ever reads blank lines, when its time is over: unless its
\* one cancellation was swallowed (_run_loop).
GoneIsForgotten == \A c \in Clients : c \in lost ~> at[c] = "off" \/ c \in wreck.deaf
=============================================================================
