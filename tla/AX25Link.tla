------------------------------ MODULE AX25Link ------------------------------
(***************************************************************************)
(* An AX.25 link: two stations that run the connection of ax25/connection  *)
(* over a radio path that keeps the order of frames and loses any of them. *)
(* Timers may expire at any moment while they are pending.                 *)
(***************************************************************************)
EXTENDS AX25Conn

CONSTANTS
  Station,      \* the two ends
  Callers,      \* the ends that may call connect()
  MaxAir,       \* bound: frames the path holds per direction, more are lost
  MaxConnects,  \* bound: calls of connect(), both ends together
  MaxDisconnects, \* bound: calls of disconnect(), both ends together
  MaxWrites,    \* bound: chunks written, both ends together
  MaxRNR        \* bound: receiver-not-ready frames of a foreign peer

ASSUME LinkAssumption ==
  /\ \E a, b \in Station : a # b /\ Station = {a, b}
  /\ Callers \subseteq Station
  /\ MaxAir \in Nat \ {0}
  /\ MaxConnects \in Nat /\ MaxDisconnects \in Nat
  /\ MaxWrites \in Nat /\ MaxRNR \in Nat

VARIABLES
  conn,      \* conn[s]: station s's AX25Connection
  air,       \* air[s]: frames sent by s that its peer has not received
  connects,  \* calls of connect()
  disconnects, \* calls of disconnect()
  written,   \* chunks passed to write()
  rnrs,      \* RNR frames sent by a peer that is not this program
  dialled    \* history: SABM frames sent, each has the next number

vars == <<conn, air, connects, disconnects, written, rnrs, dialled>>

Peer(s) == CHOOSE p \in Station : p # s

Init ==
  /\ conn = [s \in Station |-> NewConn]
  /\ air = [s \in Station |-> <<>>]
  /\ connects = 0 /\ disconnects = 0 /\ written = 0 /\ rnrs = 0 /\ dialled = 0

-----------------------------------------------------------------------------
(***************************************************************************)
(* The path.  A frame that finds it full is lost, as is one whose check    *)
(* sequence fails: Lose takes the oldest, any frame becomes the oldest.    *)
(***************************************************************************)
Put(q, out) ==
  LET all == q \o out IN SubSeq(all, 1, IF Len(all) < MaxAir THEN Len(all) ELSE MaxAir)

\* Station s becomes c and sends out.
Act(s, c, out) ==
  /\ conn' = [conn EXCEPT ![s] = c]
  /\ air' = [air EXCEPT ![s] = Put(@, out)]

\* Station s receives frame f, becomes c and sends out.
Arrived(s, type) == air[Peer(s)] # <<>> /\ Head(air[Peer(s)]).type = type

Arrival(s) == Head(air[Peer(s)])

React(s, c, out) ==
  /\ conn' = [conn EXCEPT ![s] = c]
  /\ air' = [air EXCEPT ![Peer(s)] = Tail(@), ![s] = Put(@, out)]
  /\ UNCHANGED <<connects, disconnects, written, rnrs, dialled>>

Lose(s) ==
  /\ air[s] # <<>>
  /\ air' = [air EXCEPT ![s] = Tail(@)]
  /\ UNCHANGED <<conn, connects, disconnects, written, rnrs, dialled>>

-----------------------------------------------------------------------------
(***************************************************************************)
(* The public interface: connect(), disconnect(), write().                 *)
(***************************************************************************)
Connect(s) ==
  /\ s \in Callers /\ connects < MaxConnects
  /\ conn[s].state = "DISCONNECTED"
  /\ Act(s, [conn[s] EXCEPT !.state = "AWAITING_CONNECT", !.retry = 0,
                            !.progress = 0, !.t1 = TRUE, !.sabm = dialled + 1],
            <<UFrame("SABM", dialled + 1)>>)
  /\ connects' = connects + 1
  /\ dialled' = dialled + 1
  /\ UNCHANGED <<disconnects, written, rnrs>>

Disconnect(s) ==
  /\ disconnects < MaxDisconnects
  /\ conn[s].state \in {"CONNECTED", "AWAITING_CONNECT"}
  /\ Act(s, [conn[s] EXCEPT !.state = "AWAITING_RELEASE", !.t1 = TRUE, !.t3 = FALSE],
            <<UFrame("DISC", 0)>>)
  /\ disconnects' = disconnects + 1
  /\ UNCHANGED <<connects, written, rnrs, dialled>>

Write(s) ==
  /\ conn[s].state = "CONNECTED"
  /\ \E n \in 1 .. MaxWrites - written :
       LET c == [conn[s] EXCEPT !.txq = @ + n] IN
       /\ Act(s, Pump(c), PumpFrames(c))
       /\ written' = written + n
  /\ UNCHANGED <<connects, disconnects, rnrs, dialled>>

-----------------------------------------------------------------------------
(***************************************************************************)
(* The frame handlers, one per frame type and state they tell apart.       *)
(***************************************************************************)
HandleSABM(s) ==
  /\ Arrived(s, "SABM")
  /\ React(s, Up(conn[s], Arrival(s).inc), <<UFrame("UA", Arrival(s).inc)>>)

HandleUA(s) ==
  /\ Arrived(s, "UA")
  /\ LET c == AfterUA(conn[s], Arrival(s).inc) IN
     \* What _pump_tx sends on the UA that completes a connect().
     React(s, c, IF conn[s].state = "AWAITING_CONNECT"
                 THEN PumpFrames([Up(conn[s], 0) EXCEPT !.t1 = FALSE]) ELSE <<>>)

HandleDISC(s) ==
  /\ Arrived(s, "DISC")
  /\ React(s, Down(conn[s]), <<UFrame("UA", 0)>>)

HandleDM(s) ==
  /\ Arrived(s, "DM")
  /\ React(s, Down(conn[s]), <<>>)

\* Data for an end that is not connected is refused.
RefuseI(s) ==
  /\ Arrived(s, "I")
  /\ conn[s].state # "CONNECTED"
  /\ React(s, conn[s], <<UFrame("DM", 0)>>)

HandleI(s) ==
  /\ Arrived(s, "I")
  /\ conn[s].state = "CONNECTED"
  /\ LET c == AfterI(conn[s], Arrival(s)) IN
     React(s, Pump(c), <<Answer(conn[s], Arrival(s))>> \o PumpFrames(c))

IgnoreS(s) ==
  /\ \E type \in {"RR", "RNR", "REJ"} : Arrived(s, type)
  /\ conn[s].state # "CONNECTED"
  /\ React(s, conn[s], <<>>)

HandleRR(s) ==
  /\ Arrived(s, "RR")
  /\ conn[s].state = "CONNECTED"
  /\ LET c == AfterRR(conn[s], Arrival(s)) IN React(s, Pump(c), PumpFrames(c))

HandleRNR(s) ==
  /\ Arrived(s, "RNR")
  /\ conn[s].state = "CONNECTED"
  /\ React(s, AfterRNR(conn[s], Arrival(s)), <<>>)

HandleREJ(s) ==
  /\ Arrived(s, "REJ")
  /\ conn[s].state = "CONNECTED"
  /\ \E out \in Retransmissions(UpdateVA(conn[s], Arrival(s).nr), Arrival(s).nr) :
       React(s, AfterREJ(conn[s], Arrival(s)), out)

-----------------------------------------------------------------------------
(***************************************************************************)
(* The timers.                                                             *)
(***************************************************************************)
\* Faulty variants: an expiry of T1 is not counted, or T1 is not restarted.
RetryUncounted(c) == c

RetryStopsT1(c) == [c EXCEPT !.retry = @ + 1, !.t1 = FALSE]

Retry(c) == [c EXCEPT !.retry = @ + 1]

T1Connect(s) ==
  /\ conn[s].t1 /\ conn[s].state = "AWAITING_CONNECT"
  /\ conn[s].retry < MaxRetries
  /\ Act(s, [Retry(conn[s]) EXCEPT !.sabm = dialled + 1], <<UFrame("SABM", dialled + 1)>>)
  /\ dialled' = dialled + 1
  /\ UNCHANGED <<connects, disconnects, written, rnrs>>

\* connect() gives up; nobody reads from a link that never came up.
T1NoAnswer(s) ==
  /\ conn[s].t1 /\ conn[s].state = "AWAITING_CONNECT"
  /\ conn[s].retry >= MaxRetries
  /\ Act(s, [Retry(conn[s]) EXCEPT !.state = "DISCONNECTED", !.t1 = FALSE], <<>>)
  /\ UNCHANGED <<connects, disconnects, written, rnrs, dialled>>

T1Release(s) ==
  /\ conn[s].t1 /\ conn[s].state = "AWAITING_RELEASE"
  /\ IF conn[s].retry < MaxRetries
     THEN Act(s, Retry(conn[s]), <<UFrame("DISC", 0)>>)
     ELSE Act(s, Down(Retry(conn[s])), <<>>)
  /\ UNCHANGED <<connects, disconnects, written, rnrs, dialled>>

T1Retransmit(s) ==
  /\ conn[s].t1 /\ conn[s].state = "CONNECTED"
  /\ Outstanding(conn[s]) # 0
  /\ conn[s].retry < MaxRetries
  /\ \E out \in Retransmissions(conn[s], conn[s].va) : Act(s, Retry(conn[s]), out)
  /\ UNCHANGED <<connects, disconnects, written, rnrs, dialled>>

LinkFailure(s) ==
  /\ conn[s].t1 /\ conn[s].state = "CONNECTED"
  /\ Outstanding(conn[s]) # 0
  /\ conn[s].retry >= MaxRetries
  /\ Act(s, Down(Retry(conn[s])), <<>>)
  /\ UNCHANGED <<connects, disconnects, written, rnrs, dialled>>

\* Nothing outstanding: ask with an RR and keep T1 running.
T1Poll(s) ==
  /\ conn[s].t1 /\ conn[s].state = "CONNECTED"
  /\ Outstanding(conn[s]) = 0
  /\ Act(s, conn[s], <<SFrame("RR", conn[s].vr)>>)
  /\ UNCHANGED <<connects, disconnects, written, rnrs, dialled>>

\* T3 has fired: an RR, and T1 takes over.
T3Expire(s) ==
  /\ conn[s].t3 /\ conn[s].state = "CONNECTED"
  /\ Act(s, [conn[s] EXCEPT !.t3 = FALSE, !.t1 = TRUE], <<SFrame("RR", conn[s].vr)>>)
  /\ UNCHANGED <<connects, disconnects, written, rnrs, dialled>>

-----------------------------------------------------------------------------
(***************************************************************************)
(* A peer that is not this program may say it is busy; this program never  *)
(* does (_local_busy is always False).  Its next RR says it is ready.      *)
(***************************************************************************)
ForeignRNR(s) ==
  /\ conn[s].state = "CONNECTED" /\ rnrs < MaxRNR
  /\ Act(s, conn[s], <<SFrame("RNR", conn[s].vr)>>)
  /\ rnrs' = rnrs + 1
  /\ UNCHANGED <<connects, disconnects, written, dialled>>

-----------------------------------------------------------------------------
Receive(s) ==
  \/ HandleSABM(s) \/ HandleUA(s) \/ HandleDISC(s) \/ HandleDM(s)
  \/ HandleI(s) \/ RefuseI(s)
  \/ HandleRR(s) \/ HandleRNR(s) \/ HandleREJ(s) \/ IgnoreS(s)

T1Expire(s) ==
  \/ T1Connect(s) \/ T1NoAnswer(s) \/ T1Release(s)
  \/ T1Retransmit(s) \/ LinkFailure(s) \/ T1Poll(s)

Step(s) ==
  \/ Connect(s) \/ Disconnect(s) \/ Write(s)
  \/ Receive(s) \/ T1Expire(s) \/ T3Expire(s)
  \/ ForeignRNR(s) \/ Lose(s)

Next == \E s \in Station : Step(s)

Spec == Init /\ [][Next]_vars

\* asyncio runs a timer task whose sleep is over; nothing is assumed of the
\* radio, the peer, or the users.
Fairness == \A s \in Station : WF_vars(T1Expire(s)) /\ WF_vars(T3Expire(s))

FairSpec == Spec /\ Fairness
-----------------------------------------------------------------------------
(***************************************************************************)
(* What the link promises.                                                 *)
(***************************************************************************)

\* Every connection field and every frame has the values the code gives it.
TypeOK ==
  /\ conn \in [Station -> Conn]
  /\ air \in [Station -> Seq(Frame)]
  /\ connects \in Nat /\ disconnects \in Nat /\ written \in Nat /\ rnrs \in Nat /\ dialled \in Nat

\* What is true of each connection by itself, whatever the other end and the
\* path do: timers and retries follow the state.
Sound(c) ==
  /\ c \in Conn
  /\ c.state = "DISCONNECTED" => ~c.t1 /\ ~c.t3 /\ c.woken
  /\ c.state = "AWAITING_CONNECT" => c.t1 /\ ~c.t3 /\ c.woken
  /\ c.state = "AWAITING_RELEASE" => c.t1 /\ ~c.t3
  /\ c.state # "DISCONNECTED" => c.retry <= MaxRetries

\* The inductive invariant behind TypeOK and TeardownComplete.
LinkInv == TypeOK /\ \A s \in Station : Sound(conn[s])

\* Both ends are up and count from the same exchange of SABM and UA: the end
\* that called took the UA of the last SABM it sent, and that is the SABM the
\* other end last answered.
Clean ==
  \A s \in Station : /\ conn[s].state = "CONNECTED"
                     /\ conn[s].inc # 0
                     /\ conn[s].inc = conn[Peer(s)].inc

\* Go-back-N does its work: on a clean link the chunks handed to the reader
\* are the chunks the other end framed, from the first, none missing, none
\* twice, in order, whatever was lost or sent again (_handle_i, _handle_rej,
\* _t1_expire).
InOrderDelivery ==
  Clean => \A s \in Station :
             /\ Len(conn[s].rcvd) <= conn[Peer(s)].sent
             /\ \A i \in DOMAIN conn[s].rcvd : conn[s].rcvd[i] = i

\* _update_va forgets a frame only when the other end has its chunk: on a
\* clean link every chunk framed is with the receiver or still held.
NothingForgottenEarly ==
  Clean => \A s \in Station : \A k \in 1 .. conn[s].sent :
             \/ k <= Len(conn[Peer(s)].rcvd)
             \/ \E n \in SeqNo : conn[s].unacked[n] = k

\* The window the counters describe is the window held: V(A) has not passed
\* V(S), so as many frames are held as are outstanding, the number framed last
\* among them, and no more than the window (_pump_tx, _update_va).
HeldNumbers(c) == {n \in SeqNo : c.unacked[n] # None}

WindowHeld(c) ==
  /\ Outstanding(c) <= Window
  /\ HeldNumbers(c) = {n \in SeqNo : Dist(c.va, n) < Outstanding(c)}

WindowIsHeld == Clean => \A s \in Station : WindowHeld(conn[s])

\* Whoever waits for an answer has T1 pending, so no loss can stall it: an end
\* that calls or releases always, an end of a clean link while a frame is
\* unacknowledged.
NoSilentStall ==
  \A s \in Station :
    /\ conn[s].state \in {"AWAITING_CONNECT", "AWAITING_RELEASE"} => conn[s].t1
    /\ Clean /\ Outstanding(conn[s]) # 0 => conn[s].t1

\* Teardown is complete: an end that is down has no timer pending, and if it
\* was up, b"" has been queued for the reader that may block on the link.
TeardownComplete ==
  \A s \in Station :
    conn[s].state = "DISCONNECTED" =>
      ~conn[s].t1 /\ ~conn[s].t3 /\ conn[s].woken

\* The retry limit is about silence: a link that was up is given up only after
\* MaxRetries + 1 expiries of T1 with no frame acknowledged in between ("Maximum
\* retransmit attempts before declaring link failure", connection.py:47).
FailsOnlyAfterSilence ==
  [][\A s \in Station :
       LinkFailure(s) => conn'[s].retry - conn'[s].progress > MaxRetries]_vars

\* A peer that is gone is noticed: if one end stays down for good, the other
\* does not stay connected ("Send RR poll to check if remote is still alive",
\* connection.py:462).
GonePeerNoticed ==
  \A s \in Station :
    <>[](conn[Peer(s)].state = "DISCONNECTED") => []<>(conn[s].state # "CONNECTED")

\* What is framed arrives or the link is seen to fail, with no assumption about
\* how many frames the radio loses: T1 retransmits and the retries are counted.
ArrivesOrFails ==
  \A s \in Station : \A k \in 1 .. MaxWrites :
    Clean /\ conn[s].sent >= k ~> ~Clean \/ Len(conn[Peer(s)].rcvd) >= k

\* No end waits for ever for an answer to its SABM or DISC.
CallsAndReleasesEnd ==
  \A s \in Station :
    /\ conn[s].state = "AWAITING_CONNECT" ~> conn[s].state # "AWAITING_CONNECT"
    /\ conn[s].state = "AWAITING_RELEASE" ~> conn[s].state # "AWAITING_RELEASE"

-----------------------------------------------------------------------------
(***************************************************************************)
(* The link implements ReliableLink: it is up while Clean, an end has sent *)
(* what it framed and got what it put in its receive queue.                *)
(***************************************************************************)
Service ==
  INSTANCE ReliableLink WITH
    up   <- Clean,
    sent <- [s \in Station |-> IF Clean THEN [i \in 1 .. conn[s].sent |-> i] ELSE <<>>],
    got  <- [s \in Station |-> IF Clean THEN conn[s].rcvd ELSE <<>>]

\* Every step of the two stations is a step of the service or invisible to it.
ImplementsReliableLink == Service!Spec
=============================================================================
