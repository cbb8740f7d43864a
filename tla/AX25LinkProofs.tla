--------------------------- MODULE AX25LinkProofs ---------------------------
(***************************************************************************)
(* Theorems about AX25Link, for every modulus, window, retry limit and     *)
(* bound: type correctness, and that an end that is down has no timer      *)
(* pending and has woken its reader.                                       *)
(***************************************************************************)
EXTENDS AX25Link, SequenceTheorems, FiniteSetTheorems, TLAPS

\* Arithmetic modulo Mod stays among the sequence numbers.
LEMMA ModInSeqNo == \A n \in Int : n % Mod \in SeqNo
  BY ConnAssumption DEF SeqNo

LEMMA SeqNoInt == SeqNo \subseteq Nat /\ 0 \in SeqNo
  BY ConnAssumption DEF SeqNo

LEMMA SumInSeqNo ==
  ASSUME NEW n \in SeqNo, NEW k \in Int
  PROVE  (n + k) % Mod \in SeqNo
  <1>1. n + k \in Int  BY SeqNoInt
  <1> QED  BY <1>1, ModInSeqNo

LEMMA PeerInStation ==
  ASSUME NEW s \in Station
  PROVE  Peer(s) \in Station /\ Peer(s) # s
  BY LinkAssumption DEF Peer

LEMMA DistType ==
  ASSUME NEW m \in SeqNo, NEW n \in SeqNo
  PROVE  Dist(m, n) \in SeqNo
  BY ModInSeqNo, SeqNoInt DEF Dist

-----------------------------------------------------------------------------
(***************************************************************************)
(* The connection operators yield connections, and keep what ties timers   *)
(* and retries to the state.                                               *)
(***************************************************************************)
LEMMA ConnFields ==
  ASSUME NEW c \in Conn
  PROVE  /\ c.state \in States
         /\ c.vs \in SeqNo /\ c.vr \in SeqNo /\ c.va \in SeqNo
         /\ c.retry \in 0 .. MaxRetries + 1 /\ c.progress \in 0 .. MaxRetries + 1
         /\ c.unacked \in [SeqNo -> Nat]
         /\ c.txq \in Nat /\ c.sent \in Nat /\ c.inc \in Nat /\ c.sabm \in Nat
         /\ c.peerBusy \in BOOLEAN /\ c.woken \in BOOLEAN
         /\ c.t1 \in BOOLEAN /\ c.t3 \in BOOLEAN
         /\ c.rcvd \in Seq(Nat)
  BY Zenon DEF Conn

LEMMA Zeros ==
  /\ 0 \in SeqNo /\ 0 \in 0 .. MaxRetries + 1 /\ 0 \in Nat
  /\ [n \in SeqNo |-> None] \in [SeqNo -> Nat]
  /\ << >> \in Seq(Nat)
  BY ConnAssumption DEF SeqNo, None

LEMMA NewConnSound == Sound(NewConn)
  <1>1. NewConn \in Conn  BY Zeros, Zenon DEF NewConn, Conn, States
  <1> QED  BY <1>1 DEF NewConn, Sound

LEMMA UpdateVASound ==
  ASSUME NEW c, Sound(c), NEW nr \in SeqNo
  PROVE  /\ Sound(UpdateVA(c, nr)) /\ UpdateVA(c, nr).state = c.state
         /\ UpdateVA(c, nr).vs = c.vs /\ UpdateVA(c, nr).vr = c.vr
  BY ConnAssumption DEF UpdateVA, Conn, None, Sound

LEMMA ResetType ==
  ASSUME NEW c \in Conn
  PROVE  Reset(c) \in Conn /\ Reset(c).retry = 0 /\ Reset(c).t1 = c.t1
  <1>1. Reset(c) \in Conn  BY Zeros, Zenon DEF Reset, Conn
  <1>2. Reset(c).retry = 0 /\ Reset(c).t1 = c.t1
    BY DEF Reset, Conn
  <1> QED  BY <1>1, <1>2

LEMMA UpSound ==
  ASSUME NEW c \in Conn, NEW inc \in Nat
  PROVE  Sound(Up(c, inc)) /\ Up(c, inc).t1 = c.t1
  <1> DEFINE r == Reset(c)
  <1>1. r \in Conn /\ r.retry = 0 /\ r.t1 = c.t1  BY ResetType
  <1>2. Up(c, inc) = [r EXCEPT !.state = "CONNECTED", !.t3 = TRUE, !.inc = inc,
                               !.woken = FALSE]
    BY DEF Up
  <1> HIDE DEF r
  <1>3. Up(c, inc) \in Conn  BY <1>1, <1>2, ZenonT(60) DEF Conn, States
  <1>4. Up(c, inc).state = "CONNECTED" /\ Up(c, inc).retry = 0 /\ Up(c, inc).t1 = r.t1
    BY <1>1, <1>2 DEF Conn
  <1> QED  BY <1>1, <1>3, <1>4, ConnAssumption DEF Sound

LEMMA DownSound ==
  ASSUME NEW c \in Conn
  PROVE  Sound(Down(c))
  <1>1. Down(c) \in Conn  BY Zenon DEF Down, Conn, States
  <1>2. /\ Down(c).state = "DISCONNECTED" /\ Down(c).t1 = FALSE
        /\ Down(c).t3 = FALSE /\ Down(c).woken = TRUE
    BY DEF Down, Conn
  <1> QED  BY <1>1, <1>2 DEF Sound

LEMMA PumpCountType ==
  ASSUME NEW c \in Conn
  PROVE  PumpCount(c) \in Nat /\ PumpCount(c) <= c.txq
                              /\ PumpCount(c) <= Window
  <1>1. Outstanding(c) \in SeqNo  BY DistType DEF Outstanding, Conn
  <1>2. FreeWindow(c) \in Nat /\ FreeWindow(c) <= Window
    BY <1>1, ConnAssumption DEF FreeWindow, SeqNo
  <1> QED  BY <1>2, ConnFields, ConnAssumption DEF PumpCount

LEMMA PumpSound ==
  ASSUME NEW c, Sound(c)
  PROVE  Sound(Pump(c))
  <1> DEFINE k == PumpCount(c)
             u == [n \in SeqNo |-> IF Dist(c.vs, n) < k THEN c.sent + Dist(c.vs, n) + 1
                                                       ELSE c.unacked[n]]
  <1>1. c \in Conn  BY DEF Sound
  <1>2. k \in Nat /\ k <= c.txq  BY <1>1, PumpCountType
  <1>3. c.state # "CONNECTED" => k = 0  BY DEF PumpCount
  <1>4. (c.vs + k) % Mod \in SeqNo
    <2>1. c.vs \in SeqNo  BY <1>1, ConnFields
    <2> HIDE DEF k
    <2> QED  BY <1>2, <2>1, SumInSeqNo
  <1>5. u \in [SeqNo -> Nat]
    <2> SUFFICES ASSUME NEW n \in SeqNo
                 PROVE  c.sent + Dist(c.vs, n) + 1 \in Nat /\ c.unacked[n] \in Nat
      OBVIOUS
    <2>1. c.vs \in SeqNo /\ c.sent \in Nat /\ c.unacked \in [SeqNo -> Nat]
      BY <1>1, ConnFields
    <2>2. Dist(c.vs, n) \in Nat  BY <2>1, DistType, SeqNoInt
    <2> QED  BY <2>1, <2>2
  <1>6. c.txq - k \in Nat /\ c.sent + k \in Nat  BY <1>1, <1>2, ConnFields
  <1>7. (c.t1 \/ k > 0) \in BOOLEAN  OBVIOUS
  <1>8. Pump(c) = [c EXCEPT !.txq = c.txq - k, !.sent = c.sent + k,
                            !.vs = (c.vs + k) % Mod, !.unacked = u,
                            !.t1 = c.t1 \/ k > 0]
    BY <1>1, Zenon DEF Pump, Conn
  <1> HIDE DEF k, u
  <1>9. Pump(c) \in Conn  BY <1>1, <1>4, <1>5, <1>6, <1>7, <1>8, ZenonT(60) DEF Conn
  <1>10. /\ Pump(c).state = c.state /\ Pump(c).t3 = c.t3 /\ Pump(c).retry = c.retry
         /\ Pump(c).woken = c.woken /\ Pump(c).t1 = (c.t1 \/ k > 0)
    BY <1>1, <1>8 DEF Conn
  <1>11. c.state # "CONNECTED" => Pump(c).t1 = c.t1
    <2>1. c.t1 \in BOOLEAN  BY <1>1, ConnFields
    <2>2. k = 0 => ~(k > 0)  OBVIOUS
    <2> QED  BY <1>3, <1>10, <2>1, <2>2, Zenon
  <1> QED  BY <1>9, <1>10, <1>11 DEF Sound

LEMMA PumpFramesType ==
  ASSUME NEW c \in Conn
  PROVE  PumpFrames(c) \in Seq(Frame)
  <1> DEFINE N == PumpCount(c)
  <1>1. N \in Nat  BY PumpCountType
  <1>2. ASSUME NEW i \in 1 .. N
        PROVE  IFrame((c.vs + i - 1) % Mod, c.vr, c.sent + i) \in Frame
    <2>1. (c.vs + i - 1) % Mod \in SeqNo  BY <1>1, ConnFields, ModInSeqNo, SeqNoInt
    <2>2. c.sent + i \in Nat /\ c.vr \in SeqNo /\ 0 \in Nat  BY <1>1, ConnFields
    <2> QED  BY <2>1, <2>2, Zenon DEF IFrame, Frame, FrameTypes
  <1> QED  BY <1>1, <1>2, IsASeq DEF PumpFrames

LEMMA AfterUASound ==
  ASSUME NEW c, Sound(c), NEW inc \in Nat
  PROVE  Sound(AfterUA(c, inc))
  <1>1. c \in Conn  BY DEF Sound
  <1>2. CASE c.state = "AWAITING_CONNECT"
    <2> DEFINE d == [c EXCEPT !.t1 = FALSE]
               i == IF inc = c.sabm THEN inc ELSE 0
    <2>1. d \in Conn  BY <1>1, Zenon DEF Conn
    <2>2. i \in Nat  OBVIOUS
    <2>3. Sound(Up(d, i))  BY <2>1, <2>2, UpSound
    <2>4. Sound(Pump(Up(d, i)))  BY <2>3, PumpSound
    <2> QED  BY <1>2, <2>4, Zenon DEF AfterUA
  <1>3. CASE c.state = "AWAITING_RELEASE"
    <2> DEFINE d == [c EXCEPT !.state = "DISCONNECTED", !.t1 = FALSE, !.woken = TRUE]
    <2>1. d \in Conn  BY <1>1, Zenon DEF Conn, States
    <2>2. d.state = "DISCONNECTED" /\ ~d.t1 /\ d.t3 = c.t3 /\ d.woken
      BY <1>1 DEF Conn
    <2>3. Sound(d)  BY <1>3, <2>1, <2>2 DEF Sound
    <2> QED  BY <1>3, <2>3 DEF AfterUA
  <1> QED  BY <1>2, <1>3 DEF AfterUA

LEMMA StopT1Sound ==
  ASSUME NEW c, Sound(c), c.state = "CONNECTED"
  PROVE  Sound(StopT1IfIdle(c)) /\ StopT1IfIdle(c).state = "CONNECTED"
  <1>1. c \in Conn  BY DEF Sound
  <1>2. (c.t1 /\ c.va # c.vs) \in BOOLEAN  OBVIOUS
  <1>3. StopT1IfIdle(c) \in Conn  BY <1>1, <1>2, Zenon DEF StopT1IfIdle, Conn
  <1>4. StopT1IfIdle(c).state = c.state /\ StopT1IfIdle(c).retry = c.retry
    BY <1>1 DEF StopT1IfIdle, Conn
  <1> QED  BY <1>3, <1>4 DEF Sound

LEMMA AcceptSound ==
  ASSUME NEW c, Sound(c), c.state = "CONNECTED", NEW f \in Frame
  PROVE  Sound(Accept(c, f)) /\ Accept(c, f).state = "CONNECTED"
  <1> DEFINE v == (c.vr + 1) % Mod
             r == Append(c.rcvd, f.data)
             d == [c EXCEPT !.vr = v, !.rcvd = r]
  <1>1. c \in Conn  BY DEF Sound
  <1>2. v \in SeqNo  BY <1>1, ConnFields, SumInSeqNo
  <1>3. f.data \in Nat  BY DEF Frame
  <1>4. r \in Seq(Nat)  BY <1>1, <1>3, ConnFields
  <1>5. Accept(c, f) = d \/ Accept(c, f) = c  BY Zenon DEF Accept
  <1> HIDE DEF v, r
  <1>6. d \in Conn  BY <1>1, <1>2, <1>4, Zenon DEF Conn
  <1>7. d.state = c.state /\ d.retry = c.retry  BY <1>1 DEF Conn
  <1> QED  BY <1>5, <1>6, <1>7 DEF Sound

LEMMA AfterISound ==
  ASSUME NEW c, Sound(c), c.state = "CONNECTED", NEW f \in Frame
  PROVE  Sound(AfterI(c, f))
  <1> DEFINE d == [c EXCEPT !.t3 = TRUE]
  <1>1. d \in Conn  BY Zenon DEF Conn, Sound
  <1>2. d.state = "CONNECTED" /\ d.retry = c.retry  BY DEF Conn, Sound
  <1>3. Sound(d)  BY <1>1, <1>2 DEF Sound
  <1>4. f.nr \in SeqNo  BY DEF Frame
  <1> HIDE DEF d
  <1>5. /\ Sound(UpdateVA(d, f.nr))
        /\ UpdateVA(d, f.nr).state = "CONNECTED"
    BY <1>2, <1>3, <1>4, UpdateVASound
  <1>6. /\ Sound(Accept(UpdateVA(d, f.nr), f))
        /\ Accept(UpdateVA(d, f.nr), f).state = "CONNECTED"
    BY <1>5, AcceptSound
  <1>7. Sound(StopT1IfIdle(Accept(UpdateVA(d, f.nr), f)))  BY <1>6, StopT1Sound
  <1> QED  BY <1>7 DEF AfterI, d

LEMMA AfterRRSound ==
  ASSUME NEW c, Sound(c), c.state = "CONNECTED", NEW f \in Frame
  PROVE  Sound(AfterRR(c, f))
  <1> DEFINE d == [c EXCEPT !.peerBusy = FALSE]
             e == StopT1IfIdle(UpdateVA(d, f.nr))
  <1>1. d \in Conn  BY Zenon DEF Conn, Sound
  <1>2. d.state = "CONNECTED" /\ d.retry = c.retry  BY DEF Conn, Sound
  <1>3. Sound(d)  BY <1>1, <1>2 DEF Sound
  <1>4. f.nr \in SeqNo  BY DEF Frame
  <1> HIDE DEF d
  <1>5. Sound(UpdateVA(d, f.nr)) /\ UpdateVA(d, f.nr).state = "CONNECTED"
    BY <1>2, <1>3, <1>4, UpdateVASound
  <1>6. Sound(e) /\ e.state = "CONNECTED"  BY <1>5, StopT1Sound
  <1>7. AfterRR(c, f) = [e EXCEPT !.t3 = TRUE]  BY DEF AfterRR, d
  <1> HIDE DEF e
  <1>8. e \in Conn  BY <1>6 DEF Sound
  <1>9. AfterRR(c, f) \in Conn  BY <1>7, <1>8, Zenon DEF Conn
  <1>10. AfterRR(c, f).state = e.state /\ AfterRR(c, f).retry = e.retry
    BY <1>7, <1>8 DEF Conn
  <1> QED  BY <1>6, <1>9, <1>10 DEF Sound

LEMMA AfterRNRSound ==
  ASSUME NEW c, Sound(c), c.state = "CONNECTED", NEW f \in Frame
  PROVE  Sound(AfterRNR(c, f))
  <1> DEFINE d == [c EXCEPT !.peerBusy = TRUE]
             e == UpdateVA(d, f.nr)
  <1>1. d \in Conn  BY Zenon DEF Conn, Sound
  <1>2. d.state = "CONNECTED" /\ d.retry = c.retry  BY DEF Conn, Sound
  <1>3. Sound(d)  BY <1>1, <1>2 DEF Sound
  <1>4. f.nr \in SeqNo  BY DEF Frame
  <1> HIDE DEF d
  <1>5. Sound(e) /\ e.state = "CONNECTED"  BY <1>2, <1>3, <1>4, UpdateVASound
  <1>6. AfterRNR(c, f) = [e EXCEPT !.t1 = TRUE]  BY DEF AfterRNR, d
  <1> HIDE DEF e
  <1>7. e \in Conn  BY <1>5 DEF Sound
  <1>8. AfterRNR(c, f) \in Conn  BY <1>6, <1>7, Zenon DEF Conn
  <1>9. AfterRNR(c, f).state = e.state /\ AfterRNR(c, f).retry = e.retry
    BY <1>6, <1>7 DEF Conn
  <1> QED  BY <1>5, <1>8, <1>9 DEF Sound

LEMMA AfterREJSound ==
  ASSUME NEW c, Sound(c), c.state = "CONNECTED", NEW f \in Frame
  PROVE  Sound(AfterREJ(c, f))
  <1> DEFINE d == UpdateVA(c, f.nr)
  <1>1. f.nr \in SeqNo  BY DEF Frame
  <1>2. Sound(d) /\ d.state = "CONNECTED"  BY <1>1, UpdateVASound
  <1>3. AfterREJ(c, f) = [d EXCEPT !.t1 = d.vs # d.va]  BY DEF AfterREJ
  <1> HIDE DEF d
  <1>4. d \in Conn  BY <1>2 DEF Sound
  <1>5. (d.vs # d.va) \in BOOLEAN  OBVIOUS
  <1>6. AfterREJ(c, f) \in Conn  BY <1>3, <1>4, <1>5, Zenon DEF Conn
  <1>7. AfterREJ(c, f).state = d.state /\ AfterREJ(c, f).retry = d.retry
    BY <1>3, <1>4 DEF Conn
  <1> QED  BY <1>2, <1>6, <1>7 DEF Sound

-----------------------------------------------------------------------------
(***************************************************************************)
(* What a handler sends is a sequence of frames.                           *)
(***************************************************************************)
LEMMA UFrameType ==
  ASSUME NEW type \in FrameTypes, NEW inc \in Nat
  PROVE  UFrame(type, inc) \in Frame
  BY Zeros, Zenon DEF UFrame, Frame, None

LEMMA SFrameType ==
  ASSUME NEW type \in FrameTypes, NEW nr \in SeqNo
  PROVE  SFrame(type, nr) \in Frame
  BY Zeros, Zenon DEF SFrame, Frame, None

LEMMA AnswerType ==
  ASSUME NEW c \in Conn, NEW f \in Frame
  PROVE  Answer(c, f) \in Frame
  <1>1. c.vr \in SeqNo /\ (c.vr + 1) % Mod \in SeqNo  BY ConnFields, SumInSeqNo
  <1>2. "RR" \in FrameTypes /\ "REJ" \in FrameTypes  BY DEF FrameTypes
  <1> QED  BY <1>1, <1>2, SFrameType DEF Answer

LEMMA RetransmissionsType ==
  ASSUME NEW c \in Conn, NEW nr \in SeqNo, NEW out \in Retransmissions(c, nr)
  PROVE  out \in Seq(Frame)
  <1> DEFINE S == HeldFrom(c, nr)
  <1>1. Dist(nr, c.vs) \in Nat  BY ConnFields, DistType, SeqNoInt
  <1>2. S \subseteq 0 .. Dist(nr, c.vs) - 1  BY DEF HeldFrom
  <1>3. IsFiniteSet(S) /\ Cardinality(S) \in Nat
    <2>1. 0 \in Int /\ Dist(nr, c.vs) - 1 \in Int  BY <1>1
    <2>2. IsFiniteSet(0 .. Dist(nr, c.vs) - 1)  BY <2>1, FS_Interval
    <2>3. IsFiniteSet(S)  BY <1>2, <2>2, FS_Subset
    <2> QED  BY <2>3, FS_CardinalityType
  <1> DEFINE g(n) == IFrame(n, c.vr, c.unacked[n])
  <1>4. PICK q \in [1 .. Cardinality(S) -> S] :
          out = [i \in DOMAIN q |-> g((nr + q[i]) % Mod)]
    BY Zenon DEF Retransmissions, Increasing
  <1>5. ASSUME NEW i \in 1 .. Cardinality(S)
        PROVE  g((nr + q[i]) % Mod) \in Frame
    <2>1. q[i] \in Int  BY <1>1, <1>2, SeqNoInt
    <2>2. (nr + q[i]) % Mod \in SeqNo  BY <2>1, SumInSeqNo
    <2> DEFINE m == (nr + q[i]) % Mod
    <2>3. c.unacked[m] \in Nat /\ c.vr \in SeqNo /\ 0 \in Nat
      BY <2>2, ConnFields
    <2> HIDE DEF m
    <2>4. IFrame(m, c.vr, c.unacked[m]) \in Frame
      BY <2>2, <2>3, Zenon DEF IFrame, Frame, FrameTypes, m
    <2> QED  BY <2>4 DEF m
  <1> HIDE DEF S, g
  <1>6. DOMAIN q = 1 .. Cardinality(S)  OBVIOUS
  <1> QED  BY <1>3, <1>4, <1>5, <1>6, IsASeq

LEMMA PutType ==
  ASSUME NEW q \in Seq(Frame), NEW out \in Seq(Frame)
  PROVE  Put(q, out) \in Seq(Frame)
  <1> DEFINE all == q \o out
             n == IF Len(all) < MaxAir THEN Len(all) ELSE MaxAir
  <1>1. all \in Seq(Frame) /\ Len(all) \in Nat  OBVIOUS
  <1>2. n \in 0 .. Len(all)  BY <1>1, LinkAssumption
  <1> HIDE DEF all, n
  <1>3. SubSeq(all, 1, n) \in Seq(Frame)  BY <1>1, <1>2
  <1> QED  BY <1>3 DEF Put, all, n

-----------------------------------------------------------------------------
(***************************************************************************)
(* The invariant.                                                          *)
(***************************************************************************)
LEMMA InvFacts ==
  ASSUME LinkInv, NEW s \in Station
  PROVE  /\ conn[s] \in Conn /\ Sound(conn[s])
         /\ air[s] \in Seq(Frame)
         /\ Peer(s) \in Station /\ Peer(s) # s
  BY PeerInStation DEF LinkInv, TypeOK, Sound

LEMMA ArrivalType ==
  ASSUME LinkInv, NEW s \in Station, air[Peer(s)] # <<>>
  PROVE  Arrival(s) \in Frame
  <1>1. air[Peer(s)] \in Seq(Frame)  BY InvFacts
  <1> QED  BY <1>1 DEF Arrival

\* A step that leaves station s with a sound connection and sends frames.
LEMMA ActPreserves ==
  ASSUME LinkInv, NEW s \in Station, NEW c, Sound(c), NEW out \in Seq(Frame),
         Act(s, c, out)
  PROVE  /\ conn' \in [Station -> Conn] /\ \A t \in Station : Sound(conn'[t])
         /\ air' \in [Station -> Seq(Frame)]
  <1>1. c \in Conn  BY DEF Sound
  <1>2. Put(air[s], out) \in Seq(Frame)  BY InvFacts, PutType
  <1>3. /\ conn \in [Station -> Conn] /\ \A t \in Station : Sound(conn[t])
        /\ air \in [Station -> Seq(Frame)]
    BY DEF LinkInv, TypeOK
  <1>4. conn' = [conn EXCEPT ![s] = c] /\ air' = [air EXCEPT ![s] = Put(air[s], out)]
    BY <1>3 DEF Act
  <1> QED  BY <1>1, <1>2, <1>3, <1>4

LEMMA ReactPreserves ==
  ASSUME LinkInv, NEW s \in Station, air[Peer(s)] # <<>>,
         NEW c, Sound(c), NEW out \in Seq(Frame), React(s, c, out)
  PROVE  LinkInv'
  <1>1. c \in Conn  BY DEF Sound
  <1>2. Put(air[s], out) \in Seq(Frame)  BY InvFacts, PutType
  <1>3. /\ conn \in [Station -> Conn] /\ \A t \in Station : Sound(conn[t])
        /\ air \in [Station -> Seq(Frame)]
    BY DEF LinkInv, TypeOK
  <1>4. Peer(s) \in Station /\ Peer(s) # s  BY PeerInStation
  <1>5. Tail(air[Peer(s)]) \in Seq(Frame)  BY <1>3, <1>4
  <1>6. /\ conn' = [conn EXCEPT ![s] = c]
        /\ air' = [air EXCEPT ![Peer(s)] = Tail(air[Peer(s)]), ![s] = Put(air[s], out)]
    BY <1>3, <1>4 DEF React
  <1>7. conn' \in [Station -> Conn] /\ \A t \in Station : Sound(conn'[t])
    BY <1>1, <1>3, <1>6
  <1>8. air' \in [Station -> Seq(Frame)]  BY <1>2, <1>3, <1>4, <1>5, <1>6
  <1> QED  BY <1>7, <1>8 DEF React, LinkInv, TypeOK

LEMMA InitInv == Init => LinkInv
  <1> SUFFICES ASSUME Init PROVE LinkInv  OBVIOUS
  <1>1. NewConn \in Conn  BY NewConnSound DEF Sound
  <1>2. conn \in [Station -> Conn] /\ \A s \in Station : Sound(conn[s])
    BY <1>1, NewConnSound DEF Init
  <1>3. << >> \in Seq(Frame)  OBVIOUS
  <1>4. air \in [Station -> Seq(Frame)]  BY <1>3 DEF Init
  <1> QED  BY <1>2, <1>4 DEF Init, LinkInv, TypeOK

LEMMA OneFrame ==
  ASSUME NEW f \in Frame
  PROVE  <<f>> \in Seq(Frame)
  OBVIOUS

\* connect(), disconnect() and write() keep the invariant.
LEMMA CallsKeepInv ==
  ASSUME LinkInv, NEW s \in Station, Connect(s) \/ Disconnect(s) \/ Write(s)
  PROVE  LinkInv'
  <1>1. conn[s] \in Conn /\ Sound(conn[s])  BY InvFacts
  <1>2. /\ connects \in Nat /\ disconnects \in Nat /\ written \in Nat
        /\ rnrs \in Nat /\ dialled \in Nat
    BY DEF LinkInv, TypeOK
  <1>3. CASE Connect(s)
    <2> DEFINE n == dialled + 1
               c == [conn[s] EXCEPT !.state = "AWAITING_CONNECT", !.retry = 0,
                                    !.progress = 0, !.t1 = TRUE, !.sabm = n]
    <2>1. n \in Nat  BY <1>2
    <2>2. Act(s, c, <<UFrame("SABM", n)>>)  BY <1>3 DEF Connect
    <2>3. <<UFrame("SABM", n)>> \in Seq(Frame)
      BY <2>1, UFrameType, OneFrame DEF FrameTypes
    <2> HIDE DEF n
    <2>4. c \in Conn  BY <1>1, <2>1, Zeros, Zenon DEF Conn, States
    <2>5. /\ c.state = "AWAITING_CONNECT" /\ c.retry = 0 /\ c.t1 = TRUE
          /\ c.t3 = conn[s].t3 /\ c.woken = conn[s].woken
      BY <1>1 DEF Conn
    <2>6. conn[s].state = "DISCONNECTED"  BY <1>3 DEF Connect
    <2>7. Sound(c)  BY <1>1, <2>4, <2>5, <2>6, ConnAssumption DEF Sound
    <2> HIDE DEF c
    <2>8. /\ conn' \in [Station -> Conn] /\ \A t \in Station : Sound(conn'[t])
          /\ air' \in [Station -> Seq(Frame)]
      BY <2>2, <2>3, <2>7, ActPreserves
    <2> QED  BY <1>2, <1>3, <2>8 DEF Connect, LinkInv, TypeOK
  <1>4. CASE Disconnect(s)
    <2> DEFINE c == [conn[s] EXCEPT !.state = "AWAITING_RELEASE", !.t1 = TRUE,
                                    !.t3 = FALSE]
    <2>1. Act(s, c, <<UFrame("DISC", 0)>>)  BY <1>4 DEF Disconnect
    <2>2. <<UFrame("DISC", 0)>> \in Seq(Frame)
      BY UFrameType, OneFrame DEF FrameTypes
    <2>3. c \in Conn  BY <1>1, Zenon DEF Conn, States
    <2>4. /\ c.state = "AWAITING_RELEASE" /\ c.t1 = TRUE /\ c.t3 = FALSE
          /\ c.retry = conn[s].retry
      BY <1>1 DEF Conn
    <2>5. conn[s].state # "DISCONNECTED"  BY <1>4 DEF Disconnect
    <2>6. Sound(c)  BY <1>1, <2>3, <2>4, <2>5 DEF Sound
    <2> HIDE DEF c
    <2>7. /\ conn' \in [Station -> Conn] /\ \A t \in Station : Sound(conn'[t])
          /\ air' \in [Station -> Seq(Frame)]
      BY <2>1, <2>2, <2>6, ActPreserves
    <2> QED  BY <1>2, <1>4, <2>7 DEF Disconnect, LinkInv, TypeOK
  <1>5. CASE Write(s)
    <2>1. PICK n \in 1 .. MaxWrites - written :
            /\ LET c == [conn[s] EXCEPT !.txq = @ + n]
               IN  Act(s, Pump(c), PumpFrames(c))
            /\ written' = written + n
      BY <1>5, Zenon DEF Write
    <2> DEFINE q == conn[s].txq + n
               c == [conn[s] EXCEPT !.txq = q]
    <2>2. q \in Nat  BY <1>1, <1>2, ConnFields, LinkAssumption
    <2>3. Act(s, Pump(c), PumpFrames(c))  BY <2>1
    <2> HIDE DEF q
    <2>4. c \in Conn  BY <1>1, <2>2, Zenon DEF Conn
    <2>5. /\ c.state = conn[s].state /\ c.t1 = conn[s].t1 /\ c.t3 = conn[s].t3
          /\ c.retry = conn[s].retry /\ c.woken = conn[s].woken
      BY <1>1 DEF Conn
    <2>6. Sound(c)  BY <1>1, <2>4, <2>5 DEF Sound
    <2> HIDE DEF c
    <2>7. Sound(Pump(c)) /\ PumpFrames(c) \in Seq(Frame)
      BY <2>4, <2>6, PumpSound, PumpFramesType
    <2>8. /\ conn' \in [Station -> Conn] /\ \A t \in Station : Sound(conn'[t])
          /\ air' \in [Station -> Seq(Frame)]
      BY <2>3, <2>7, ActPreserves
    <2>9. written' \in Nat  BY <1>2, <2>1, LinkAssumption
    <2> QED  BY <1>2, <1>5, <2>8, <2>9 DEF Write, LinkInv, TypeOK
  <1> QED  BY <1>3, <1>4, <1>5

\* Receiving a frame keeps the invariant.
LEMMA ReceiveKeepsInv ==
  ASSUME LinkInv, NEW s \in Station, Receive(s)
  PROVE  LinkInv'
  <1> DEFINE f == Arrival(s)
             c == conn[s]
  <1>1. c \in Conn /\ Sound(c)  BY InvFacts
  <1>2. air[Peer(s)] # <<>>
    BY Zenon DEF Receive, Arrived, HandleSABM, HandleUA, HandleDISC, HandleDM, HandleI,
           RefuseI, HandleRR, HandleRNR, HandleREJ, IgnoreS
  <1>3. f \in Frame  BY <1>2, ArrivalType
  <1>4. f.inc \in Nat /\ f.nr \in SeqNo  BY <1>3 DEF Frame
  <1>5. <<>> \in Seq(Frame)  OBVIOUS
  <1>6. 0 \in Nat /\ FrameTypes = {"SABM", "UA", "DISC", "DM", "I", "RR", "RNR", "REJ"}
    BY DEF FrameTypes
  <1>7. CASE HandleSABM(s)
    <2>1. React(s, Up(c, f.inc), <<UFrame("UA", f.inc)>>)  BY <1>7 DEF HandleSABM
    <2>2. Sound(Up(c, f.inc))  BY <1>1, <1>4, UpSound
    <2>3. <<UFrame("UA", f.inc)>> \in Seq(Frame)  BY <1>4, <1>6, UFrameType, OneFrame
    <2> QED  BY <1>2, <2>1, <2>2, <2>3, ReactPreserves
  <1>8. CASE HandleUA(s)
    <2> DEFINE up == [Up(c, 0) EXCEPT !.t1 = FALSE]
               out == IF c.state = "AWAITING_CONNECT" THEN PumpFrames(up) ELSE <<>>
    <2>1. React(s, AfterUA(c, f.inc), out)  BY <1>8 DEF HandleUA
    <2>2. Sound(AfterUA(c, f.inc))  BY <1>1, <1>4, AfterUASound
    <2>3. Up(c, 0) \in Conn  BY <1>1, <1>6, UpSound DEF Sound
    <2>4. up \in Conn  BY <2>3, Zenon DEF Conn
    <2>5. out \in Seq(Frame)  BY <1>5, <2>4, PumpFramesType
    <2> HIDE DEF out
    <2> QED  BY <1>2, <2>1, <2>2, <2>5, ReactPreserves
  <1>9. CASE HandleDISC(s)
    <2>1. React(s, Down(c), <<UFrame("UA", 0)>>)  BY <1>9 DEF HandleDISC
    <2>2. <<UFrame("UA", 0)>> \in Seq(Frame)  BY <1>6, UFrameType, OneFrame
    <2> QED  BY <1>1, <1>2, <2>1, <2>2, DownSound, ReactPreserves
  <1>10. CASE HandleDM(s)
    <2>1. React(s, Down(c), <<>>)  BY <1>10 DEF HandleDM
    <2> QED  BY <1>1, <1>2, <1>5, <2>1, DownSound, ReactPreserves
  <1>11. CASE RefuseI(s)
    <2>1. React(s, c, <<UFrame("DM", 0)>>)  BY <1>11 DEF RefuseI
    <2>2. <<UFrame("DM", 0)>> \in Seq(Frame)  BY <1>6, UFrameType, OneFrame
    <2> QED  BY <1>1, <1>2, <2>1, <2>2, ReactPreserves
  <1>12. CASE HandleI(s)
    <2> DEFINE d == AfterI(c, f)
               out == <<Answer(c, f)>> \o PumpFrames(d)
    <2>1. React(s, Pump(d), out) /\ c.state = "CONNECTED"  BY <1>12 DEF HandleI
    <2>2. Sound(d)  BY <1>1, <1>3, <2>1, AfterISound
    <2>3. d \in Conn  BY <2>2 DEF Sound
    <2> HIDE DEF d
    <2>4. Sound(Pump(d)) /\ PumpFrames(d) \in Seq(Frame)
      BY <2>2, <2>3, PumpSound, PumpFramesType
    <2>5. <<Answer(c, f)>> \in Seq(Frame)  BY <1>1, <1>3, AnswerType, OneFrame
    <2>6. out \in Seq(Frame)  BY <2>4, <2>5
    <2> QED  BY <1>2, <2>1, <2>4, <2>6, ReactPreserves
  <1>13. CASE HandleRR(s)
    <2> DEFINE d == AfterRR(c, f)
    <2>1. React(s, Pump(d), PumpFrames(d)) /\ c.state = "CONNECTED"
      BY <1>13 DEF HandleRR
    <2>2. Sound(d)  BY <1>1, <1>3, <2>1, AfterRRSound
    <2>3. d \in Conn  BY <2>2 DEF Sound
    <2> HIDE DEF d
    <2>4. Sound(Pump(d)) /\ PumpFrames(d) \in Seq(Frame)
      BY <2>2, <2>3, PumpSound, PumpFramesType
    <2> QED  BY <1>2, <2>1, <2>4, ReactPreserves
  <1>14. CASE HandleRNR(s)
    <2>1. React(s, AfterRNR(c, f), <<>>) /\ c.state = "CONNECTED"
      BY <1>14 DEF HandleRNR
    <2>2. Sound(AfterRNR(c, f))  BY <1>1, <1>3, <2>1, AfterRNRSound
    <2> QED  BY <1>2, <1>5, <2>1, <2>2, ReactPreserves
  <1>15. CASE HandleREJ(s)
    <2> DEFINE d == UpdateVA(c, f.nr)
    <2>1. c.state = "CONNECTED"  BY <1>15 DEF HandleREJ
    <2>2. PICK out \in Retransmissions(d, f.nr) : React(s, AfterREJ(c, f), out)
      BY <1>15 DEF HandleREJ
    <2>3. d \in Conn  BY <1>1, <1>4, UpdateVASound DEF Sound
    <2>4. out \in Seq(Frame)  BY <1>4, <2>3, RetransmissionsType
    <2>5. Sound(AfterREJ(c, f))  BY <1>1, <1>3, <2>1, AfterREJSound
    <2> QED  BY <1>2, <2>2, <2>4, <2>5, ReactPreserves
  <1>16. CASE IgnoreS(s)
    <2>1. React(s, c, <<>>)  BY <1>16 DEF IgnoreS
    <2> QED  BY <1>1, <1>2, <1>5, <2>1, ReactPreserves
  <1> QED
    BY <1>7, <1>8, <1>9, <1>10, <1>11, <1>12, <1>13, <1>14, <1>15, <1>16 DEF Receive

LEMMA RetrySound ==
  ASSUME NEW c, Sound(c), c.state # "DISCONNECTED"
  PROVE  /\ Retry(c) \in Conn /\ Retry(c).retry = c.retry + 1
         /\ Retry(c).state = c.state /\ Retry(c).t1 = c.t1 /\ Retry(c).t3 = c.t3
         /\ Retry(c).woken = c.woken
         /\ c.retry < MaxRetries => Sound(Retry(c))
  <1>1. c \in Conn /\ c.retry <= MaxRetries  BY DEF Sound
  <1> DEFINE r == c.retry + 1
  <1>2. r \in 0 .. MaxRetries + 1  BY <1>1, ConnFields, ConnAssumption
  <1>3. Retry(c) = [c EXCEPT !.retry = r]  BY <1>1, Zenon DEF Retry, Conn
  <1> HIDE DEF r
  <1>4. Retry(c) \in Conn  BY <1>1, <1>2, <1>3, Zenon DEF Conn
  <1>5. /\ Retry(c).retry = r /\ Retry(c).state = c.state /\ Retry(c).t1 = c.t1
        /\ Retry(c).t3 = c.t3 /\ Retry(c).woken = c.woken
    BY <1>1, <1>3 DEF Conn
  <1>6. c.retry < MaxRetries => r <= MaxRetries
    BY <1>1, ConnFields, ConnAssumption DEF r
  <1> QED  BY <1>4, <1>5, <1>6 DEF Sound, r

\* A timer that expires keeps the invariant.
LEMMA TimersKeepInv ==
  ASSUME LinkInv, NEW s \in Station, T1Expire(s) \/ T3Expire(s)
  PROVE  LinkInv'
  <1> DEFINE c == conn[s]
  <1>1. c \in Conn /\ Sound(c)  BY InvFacts
  <1>2. /\ connects \in Nat /\ disconnects \in Nat /\ written \in Nat
        /\ rnrs \in Nat /\ dialled \in Nat
    BY DEF LinkInv, TypeOK
  <1>3. <<>> \in Seq(Frame)  OBVIOUS
  <1>4. SFrame("RR", c.vr) \in Frame
    BY <1>1, ConnFields, SFrameType DEF FrameTypes
  <1>5. ASSUME NEW d, Sound(d), NEW out \in Seq(Frame), Act(s, d, out),
               UNCHANGED <<connects, disconnects, written, rnrs>>, dialled' \in Nat
        PROVE  LinkInv'
    <2>1. /\ conn' \in [Station -> Conn] /\ \A t \in Station : Sound(conn'[t])
          /\ air' \in [Station -> Seq(Frame)]
      BY <1>5, ActPreserves
    <2> QED  BY <1>2, <1>5, <2>1 DEF LinkInv, TypeOK
  <1>6. CASE T1Connect(s)
    <2> DEFINE n == dialled + 1
               r == Retry(c)
               d == [r EXCEPT !.sabm = n]
    <2>1. n \in Nat  BY <1>2
    <2>2. Act(s, d, <<UFrame("SABM", n)>>) /\ dialled' = n
      BY <1>6 DEF T1Connect
    <2>3. <<UFrame("SABM", n)>> \in Seq(Frame)
      BY <2>1, UFrameType, OneFrame DEF FrameTypes
    <2>4. c.state = "AWAITING_CONNECT" /\ c.retry < MaxRetries  BY <1>6 DEF T1Connect
    <2>5. Sound(r)  BY <1>1, <2>4, RetrySound
    <2> HIDE DEF r, n
    <2>6. r \in Conn  BY <2>5 DEF Sound
    <2>7. d \in Conn  BY <2>1, <2>6, Zenon DEF Conn
    <2>8. /\ d.state = r.state /\ d.retry = r.retry /\ d.t1 = r.t1
          /\ d.t3 = r.t3 /\ d.woken = r.woken
      BY <2>6 DEF Conn
    <2>9. Sound(d)  BY <2>5, <2>7, <2>8 DEF Sound
    <2> HIDE DEF d
    <2> QED  BY <1>5, <1>6, <2>1, <2>2, <2>3, <2>9 DEF T1Connect
  <1>7. CASE T1NoAnswer(s)
    <2> DEFINE r == Retry(c)
               d == [r EXCEPT !.state = "DISCONNECTED", !.t1 = FALSE]
    <2>1. Act(s, d, <<>>)  BY <1>7 DEF T1NoAnswer
    <2>2. c.state = "AWAITING_CONNECT"  BY <1>7 DEF T1NoAnswer
    <2>3. ~c.t3 /\ c.woken  BY <1>1, <2>2 DEF Sound
    <2>4. r \in Conn /\ r.t3 = c.t3 /\ r.woken = c.woken  BY <1>1, <2>2, RetrySound
    <2> HIDE DEF r
    <2>5. d \in Conn  BY <2>4, Zenon DEF Conn, States
    <2>6. d.state = "DISCONNECTED" /\ d.t1 = FALSE /\ d.t3 = r.t3 /\ d.woken = r.woken
      BY <2>4 DEF Conn
    <2>7. Sound(d)  BY <2>3, <2>4, <2>5, <2>6 DEF Sound
    <2> HIDE DEF d
    <2> QED  BY <1>2, <1>3, <1>5, <1>7, <2>1, <2>7 DEF T1NoAnswer
  <1>8. CASE T1Release(s)
    <2>1. c.state = "AWAITING_RELEASE" /\ UNCHANGED <<connects, disconnects, written, rnrs>>
          /\ dialled' \in Nat
      BY <1>2, <1>8 DEF T1Release
    <2>2. CASE c.retry < MaxRetries
      <3>1. Act(s, Retry(c), <<UFrame("DISC", 0)>>)  BY <1>8, <2>2 DEF T1Release
      <3>2. <<UFrame("DISC", 0)>> \in Seq(Frame)
        BY UFrameType, OneFrame DEF FrameTypes
      <3>3. Sound(Retry(c))  BY <1>1, <2>1, <2>2, RetrySound
      <3> QED  BY <1>5, <2>1, <3>1, <3>2, <3>3
    <2>3. CASE ~(c.retry < MaxRetries)
      <3>1. Act(s, Down(Retry(c)), <<>>)  BY <1>8, <2>3 DEF T1Release
      <3>2. Retry(c) \in Conn  BY <1>1, <2>1, RetrySound
      <3>3. Sound(Down(Retry(c)))  BY <3>2, DownSound
      <3> QED  BY <1>3, <1>5, <2>1, <3>1, <3>3
    <2> QED  BY <2>2, <2>3
  <1>9. CASE T1Retransmit(s)
    <2>1. PICK out \in Retransmissions(c, c.va) : Act(s, Retry(c), out)
      BY <1>9 DEF T1Retransmit
    <2>2. out \in Seq(Frame)  BY <1>1, ConnFields, RetransmissionsType
    <2>3. Sound(Retry(c))  BY <1>1, <1>9, RetrySound DEF T1Retransmit
    <2> QED  BY <1>2, <1>5, <1>9, <2>1, <2>2, <2>3 DEF T1Retransmit
  <1>10. CASE LinkFailure(s)
    <2>1. Act(s, Down(Retry(c)), <<>>)  BY <1>10 DEF LinkFailure
    <2>2. Retry(c) \in Conn  BY <1>1, <1>10, RetrySound DEF LinkFailure
    <2>3. Sound(Down(Retry(c)))  BY <2>2, DownSound
    <2> QED  BY <1>2, <1>3, <1>5, <1>10, <2>1, <2>3 DEF LinkFailure
  <1>11. CASE T1Poll(s)
    <2>1. Act(s, c, <<SFrame("RR", c.vr)>>)  BY <1>11 DEF T1Poll
    <2> QED  BY <1>1, <1>2, <1>4, <1>5, <1>11, <2>1, OneFrame DEF T1Poll
  <1>12. CASE T3Expire(s)
    <2> DEFINE d == [c EXCEPT !.t3 = FALSE, !.t1 = TRUE]
    <2>1. Act(s, d, <<SFrame("RR", c.vr)>>) /\ c.state = "CONNECTED"
      BY <1>12 DEF T3Expire
    <2>2. d \in Conn  BY <1>1, Zenon DEF Conn
    <2>3. d.state = c.state /\ d.retry = c.retry  BY <1>1 DEF Conn
    <2>4. Sound(d)  BY <1>1, <2>1, <2>2, <2>3 DEF Sound
    <2> HIDE DEF d
    <2> QED  BY <1>2, <1>4, <1>5, <1>12, <2>1, <2>4, OneFrame DEF T3Expire
  <1> QED
    BY <1>6, <1>7, <1>8, <1>9, <1>10, <1>11, <1>12 DEF T1Expire

\* Every step keeps the invariant.
LEMMA StepKeepsInv == LinkInv /\ [Next]_vars => LinkInv'
  <1> SUFFICES ASSUME LinkInv, [Next]_vars PROVE LinkInv'  OBVIOUS
  <1>1. CASE UNCHANGED vars  BY <1>1 DEF vars, LinkInv, TypeOK
  <1>2. ASSUME NEW s \in Station, Step(s) PROVE LinkInv'
    <2>1. CASE Connect(s) \/ Disconnect(s) \/ Write(s)  BY <2>1, CallsKeepInv
    <2>2. CASE Receive(s)  BY <2>2, ReceiveKeepsInv
    <2>3. CASE T1Expire(s) \/ T3Expire(s)  BY <2>3, TimersKeepInv
    <2>4. CASE ForeignRNR(s)
      <3>1. Act(s, conn[s], <<SFrame("RNR", conn[s].vr)>>)  BY <2>4 DEF ForeignRNR
      <3>2. conn[s] \in Conn /\ Sound(conn[s])  BY InvFacts
      <3>3. <<SFrame("RNR", conn[s].vr)>> \in Seq(Frame)
        BY <3>2, ConnFields, SFrameType, OneFrame DEF FrameTypes
      <3>4. /\ conn' \in [Station -> Conn] /\ \A t \in Station : Sound(conn'[t])
            /\ air' \in [Station -> Seq(Frame)]
        BY <3>1, <3>2, <3>3, ActPreserves
      <3> QED  BY <2>4, <3>4 DEF ForeignRNR, LinkInv, TypeOK
    <2>5. CASE Lose(s)
      <3>1. air[s] \in Seq(Frame) /\ air[s] # <<>>  BY <2>5, InvFacts DEF Lose
      <3>2. Tail(air[s]) \in Seq(Frame)  BY <3>1
      <3>3. air' = [air EXCEPT ![s] = Tail(air[s])]
        BY <2>5 DEF Lose, LinkInv, TypeOK
      <3> QED  BY <2>5, <3>2, <3>3 DEF Lose, LinkInv, TypeOK
    <2> QED  BY <1>2, <2>1, <2>2, <2>3, <2>4, <2>5 DEF Step
  <1> QED  BY <1>1, <1>2 DEF Next

\* The inductive invariant holds in every state of every behaviour.
THEOREM Invariance == Spec => []LinkInv
  <1> QED  BY InitInv, StepKeepsInv, PTL DEF Spec

\* No handler of connection.py, no timer and no loss takes a connection field
\* or a frame on the path out of its type: sequence numbers stay below the
\* modulus and the retry counter at most one above its limit.
THEOREM TypeCorrect == Spec => []TypeOK
  <1>1. LinkInv => TypeOK  BY DEF LinkInv
  <1> QED  BY <1>1, Invariance, PTL

\* However a link goes down (UA, DISC, DM, retries exhausted, connect() given
\* up), no timer is left pending and the reader that may block on _rx_queue has
\* been woken.
THEOREM DownIsComplete == Spec => []TeardownComplete
  <1>1. LinkInv => TeardownComplete  BY DEF LinkInv, TeardownComplete, Sound
  <1> QED  BY <1>1, Invariance, PTL
=============================================================================
