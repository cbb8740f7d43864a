------------------------------ MODULE AX25Conn ------------------------------
(***************************************************************************)
(* One end of an AX.25 link: the state an AX25Connection object keeps      *)
(* (ax25/connection.py) and the state-free parts of its handlers, as       *)
(* operators from a connection record to the next one and to the frames    *)
(* the handler puts on the air.  AX25Link composes two of them over a      *)
(* lossy medium.                                                           *)
(*                                                                         *)
(* A handler runs to completion without another task in between: its only  *)
(* await that could suspend is the transport's drain(), which returns at   *)
(* once while the TNC's socket buffer is below its high-water mark.        *)
(*                                                                         *)
(* A chunk of user data is named by its position in the stream of chunks   *)
(* this end has framed since its counters were last reset: 1, 2, 3, ...    *)
(* The fields sent, rcvd, inc, sabm, progress and woken are histories; no  *)
(* handler reads them.                                                     *)
(***************************************************************************)
EXTENDS Integers, Sequences, FiniteSets

CONSTANTS
  Mod,         \* sequence numbers are 0 .. Mod-1          (_MOD, 8)
  Window,      \* most I frames outstanding                (_WINDOW, 7)
  MaxRetries   \* T1 expiries before the link is given up  (_MAX_RETRIES, 10)

ASSUME ConnAssumption ==
  /\ Mod \in Nat /\ Mod >= 2
  /\ Window \in 1 .. Mod - 1
  /\ MaxRetries \in Nat

SeqNo == 0 .. Mod - 1

States == {"DISCONNECTED", "AWAITING_CONNECT", "CONNECTED", "AWAITING_RELEASE"}

\* No frame is held under this sequence number (the key is not in _unacked).
None == 0

FrameTypes == {"SABM", "UA", "DISC", "DM", "I", "RR", "RNR", "REJ"}

(***************************************************************************)
(* A frame: its sequence numbers where its type has them, the chunk an I   *)
(* frame carries, and (a history) the number of the SABM a SABM is or a    *)
(* UA answers.                                                             *)
(***************************************************************************)
Frame == [type : FrameTypes, ns : SeqNo, nr : SeqNo, data : Nat, inc : Nat]

UFrame(type, inc) == [type |-> type, ns |-> 0, nr |-> 0, data |-> None, inc |-> inc]
SFrame(type, nr)  == [type |-> type, ns |-> 0, nr |-> nr, data |-> None, inc |-> 0]
IFrame(ns, nr, k) == [type |-> "I", ns |-> ns, nr |-> nr, data |-> k, inc |-> 0]

Conn ==
  [state : States,
   vs : SeqNo, vr : SeqNo, va : SeqNo,
   retry    : 0 .. MaxRetries + 1,
   unacked  : [SeqNo -> Nat],   \* chunk held for retransmission, or None
   txq      : Nat,              \* chunks waiting in _tx_queue
   peerBusy : BOOLEAN,
   t1 : BOOLEAN, t3 : BOOLEAN,  \* the timer task is pending
   sent     : Nat,              \* chunks framed since the last reset
   rcvd     : Seq(Nat),         \* chunks put in _rx_queue since the last reset
   inc      : Nat,              \* number of the SABM this link came up with
   sabm     : Nat,              \* number of the last SABM this end sent
   progress : 0 .. MaxRetries + 1,  \* retry when V(A) last advanced
   woken    : BOOLEAN]          \* b"" put in _rx_queue since the link came up

NewConn ==
  [state |-> "DISCONNECTED", vs |-> 0, vr |-> 0, va |-> 0, retry |-> 0,
   unacked |-> [n \in SeqNo |-> None], txq |-> 0, peerBusy |-> FALSE,
   t1 |-> FALSE, t3 |-> FALSE, sent |-> 0, rcvd |-> <<>>, inc |-> 0,
   sabm |-> 0, progress |-> 0, woken |-> TRUE]

-----------------------------------------------------------------------------
(***************************************************************************)
(* Counters and the transmit window.                                       *)
(***************************************************************************)

\* Steps from sequence number m forward to n.
Dist(m, n) == (n - m) % Mod

Outstanding(c) == Dist(c.va, c.vs)

\* A faulty variant: frames of the old link stay held.
ResetKeepsUnacked(c) ==
  [c EXCEPT !.vs = 0, !.vr = 0, !.va = 0, !.retry = 0, !.peerBusy = FALSE,
            !.sent = 0, !.rcvd = <<>>, !.progress = 0]

Reset(c) ==
  [c EXCEPT !.vs = 0, !.vr = 0, !.va = 0, !.retry = 0,
            !.unacked = [n \in SeqNo |-> None], !.peerBusy = FALSE,
            !.sent = 0, !.rcvd = <<>>, !.progress = 0]

\* A faulty variant: the frame N(R) names is forgotten too.
AckOneTooMany(c, nr) ==
  [c EXCEPT !.unacked = [n \in SeqNo |->
                           IF Dist(c.va, n) <= Dist(c.va, nr) THEN None ELSE @[n]],
            !.va = nr,
            !.progress = IF nr = c.va THEN @ ELSE c.retry]

\* V(A) := N(R); every frame from the old V(A) up to N(R) is forgotten.  N(R)
\* is not compared with V(S).
UpdateVA(c, nr) ==
  [c EXCEPT !.unacked = [n \in SeqNo |->
                           IF Dist(c.va, n) < Dist(c.va, nr) THEN None ELSE @[n]],
            !.va = nr,
            !.progress = IF nr = c.va THEN @ ELSE c.retry]

\* T1 is stopped when nothing is outstanding any more.
StopT1IfIdle(c) == [c EXCEPT !.t1 = @ /\ c.va # c.vs]

\* A faulty variant: the window is one too wide.
WindowPlusOne(c) == IF Outstanding(c) > Window THEN 0 ELSE Window + 1 - Outstanding(c)
FreeWindow(c)    == IF Outstanding(c) >= Window THEN 0 ELSE Window - Outstanding(c)

\* How many queued chunks _pump_tx frames now.
PumpCount(c) ==
  IF c.state # "CONNECTED" \/ c.peerBusy THEN 0
  ELSE IF c.txq < FreeWindow(c) THEN c.txq ELSE FreeWindow(c)

PumpFrames(c) ==
  [i \in 1 .. PumpCount(c) |-> IFrame((c.vs + i - 1) % Mod, c.vr, c.sent + i)]

\* A faulty variant: T1 is not started.
PumpForgetsT1(c) ==
  LET k == PumpCount(c) IN
  [c EXCEPT !.txq = @ - k, !.sent = @ + k, !.vs = (@ + k) % Mod,
            !.unacked = [n \in SeqNo |->
                           IF Dist(c.vs, n) < k THEN c.sent + Dist(c.vs, n) + 1
                                                ELSE @[n]]]

Pump(c) ==
  LET k == PumpCount(c) IN
  [c EXCEPT !.txq = @ - k, !.sent = @ + k, !.vs = (@ + k) % Mod,
            !.unacked = [n \in SeqNo |->
                           IF Dist(c.vs, n) < k THEN c.sent + Dist(c.vs, n) + 1
                                                ELSE @[n]],
            !.t1 = @ \/ k > 0]

-----------------------------------------------------------------------------
(***************************************************************************)
(* Retransmission: the frames still held, from sequence number nr up to    *)
(* V(S), in that order, each with the current V(R).  Retransmissions is    *)
(* the set that holds just that sequence of frames.                        *)
(***************************************************************************)
HeldFrom(c, nr) ==
  {i \in 0 .. Dist(nr, c.vs) - 1 : c.unacked[(nr + i) % Mod] # None}

Increasing(S) ==
  {q \in [1 .. Cardinality(S) -> S] : \A i, j \in DOMAIN q : i < j => q[i] < q[j]}

Retransmissions(c, nr) ==
  {[i \in DOMAIN q |-> LET n == (nr + q[i]) % Mod
                       IN  IFrame(n, c.vr, c.unacked[n])] :
     q \in Increasing(HeldFrom(c, nr))}

-----------------------------------------------------------------------------
(***************************************************************************)
(* The handlers' effect on the connection.                                 *)
(***************************************************************************)

\* The link comes up: counters reset, T3 started.  A T1 still pending is left
\* pending by _handle_sabm and stopped by _handle_ua.
Up(c, inc) ==
  [Reset(c) EXCEPT !.state = "CONNECTED", !.t3 = TRUE, !.inc = inc, !.woken = FALSE]

\* A faulty variant: the reader is not woken.
DownLeavesReader(c) ==
  [c EXCEPT !.state = "DISCONNECTED", !.t1 = FALSE, !.t3 = FALSE]

\* The link is down: both timers stopped, b"" wakes the reader.
Down(c) ==
  [c EXCEPT !.state = "DISCONNECTED", !.t1 = FALSE, !.t3 = FALSE, !.woken = TRUE]

\* A faulty variant: the end that called does not reset its counters.
AfterUAKeepsCounters(c, inc) ==
  IF c.state = "AWAITING_CONNECT"
  THEN Pump([c EXCEPT !.state = "CONNECTED", !.t1 = FALSE, !.t3 = TRUE, !.woken = FALSE,
                      !.inc = IF inc = c.sabm THEN inc ELSE 0])
  ELSE c

AfterUA(c, inc) ==
  CASE c.state = "AWAITING_CONNECT" ->
         Pump(Up([c EXCEPT !.t1 = FALSE], IF inc = c.sabm THEN inc ELSE 0))
    [] c.state = "AWAITING_RELEASE" ->
         [c EXCEPT !.state = "DISCONNECTED", !.t1 = FALSE, !.woken = TRUE]
    [] OTHER -> c

\* Faulty variants: V(R) does not wrap, or any frame is taken.
AcceptUnwrapped(c, f) ==
  IF f.ns = c.vr THEN [c EXCEPT !.vr = @ + 1, !.rcvd = Append(@, f.data)]
                 ELSE c

AcceptAny(c, f) == [c EXCEPT !.vr = (f.ns + 1) % Mod, !.rcvd = Append(@, f.data)]

\* The receiver's half of _handle_i: take the frame only if it is the next one.
Accept(c, f) ==
  IF f.ns = c.vr THEN [c EXCEPT !.vr = (@ + 1) % Mod, !.rcvd = Append(@, f.data)]
                 ELSE c

Answer(c, f) ==
  IF f.ns = c.vr THEN SFrame("RR", (c.vr + 1) % Mod) ELSE SFrame("REJ", c.vr)

\* Before the final _pump_tx of _handle_i and _handle_rr.
AfterI(c, f) ==
  StopT1IfIdle(Accept(UpdateVA([c EXCEPT !.t3 = TRUE], f.nr), f))

AfterRR(c, f) ==
  [StopT1IfIdle(UpdateVA([c EXCEPT !.peerBusy = FALSE], f.nr)) EXCEPT !.t3 = TRUE]

AfterRNR(c, f) ==
  [UpdateVA([c EXCEPT !.peerBusy = TRUE], f.nr) EXCEPT !.t1 = TRUE]

AfterREJ(c, f) ==
  LET d == UpdateVA(c, f.nr) IN [d EXCEPT !.t1 = d.vs # d.va]
=============================================================================
