--------------------------- MODULE AX25DataProofs ---------------------------
(***************************************************************************)
(* The data of an AX.25 link, for every modulus, window, retry limit and   *)
(* bound: what a clean link delivers is what was framed, and whoever waits *)
(* for an acknowledgement has a timer pending.                             *)
(***************************************************************************)
EXTENDS AX25LinkProofs

(***************************************************************************)
(* Sequence numbers as remainders of the numbers of chunks.                *)
(***************************************************************************)
LEMMA Quotients ==
  ASSUME NEW n \in Int
  PROVE  \E k \in Int, m \in SeqNo : m = n % Mod /\ n = k * Mod + m
<1>1. Mod \in Nat \ {0}
  BY ConnAssumption
<1>2. n \div Mod \in Int /\ n = (n \div Mod) * Mod + (n % Mod)
  BY <1>1
<1> QED BY <1>2, ModInSeqNo

LEMMA SameRest ==
  ASSUME NEW q \in Int, NEW m \in SeqNo, NEW k \in Int, NEW r \in SeqNo,
         q * Mod + m = k * Mod + r
  PROVE  m = r
<1>1. m \in 0 .. Mod - 1 /\ r \in 0 .. Mod - 1 /\ Mod \in Nat \ {0}
  BY ConnAssumption DEF SeqNo
<1>2. (q - k) * Mod = r - m
  BY <1>1
<1>3. ~(q - k >= 1)
  <2> SUFFICES ASSUME q - k >= 1 PROVE FALSE
    OBVIOUS
  <2>1. (q - k) * Mod >= Mod
    BY <1>1
  <2> QED BY <1>1, <1>2, <2>1
<1>4. ~(q - k <= 0 - 1)
  <2> SUFFICES ASSUME q - k <= 0 - 1 PROVE FALSE
    OBVIOUS
  <2>1. (q - k) * Mod <= 0 - Mod
    BY <1>1
  <2> QED BY <1>1, <1>2, <2>1
<1>5. q = k
  BY <1>3, <1>4
<1> QED BY <1>1, <1>5

LEMMA ModUnique ==
  ASSUME NEW n \in Int, NEW k \in Int, NEW r \in SeqNo, n = k * Mod + r
  PROVE  n % Mod = r
<1>1. PICK q \in Int, m \in SeqNo : m = n % Mod /\ n = q * Mod + m
  BY Quotients
<1>2. q * Mod + m = k * Mod + r
  BY <1>1
<1> QED BY <1>1, <1>2, SameRest

\* Steps may be counted before or after the remainder is taken.
LEMMA ModSum ==
  ASSUME NEW n \in Int, NEW k \in Int
  PROVE  ((n % Mod) + k) % Mod = (n + k) % Mod
<1>1. PICK p \in Int, m \in SeqNo : m = n % Mod /\ n = p * Mod + m
  BY Quotients
<1>2. PICK q \in Int, r \in SeqNo : r = (n + k) % Mod /\ n + k = q * Mod + r
  BY Quotients
<1>3. m \in Int /\ r \in Int /\ Mod \in Int
  BY SeqNoInt, ConnAssumption
<1>4. m + k = (q - p) * Mod + r
  <2>1. n = p * Mod + m /\ n + k = q * Mod + r
    BY <1>1, <1>2
  <2> QED BY <1>3, <2>1
<1>5. (m + k) % Mod = r
  <2>1. m + k \in Int /\ q - p \in Int
    BY <1>3
  <2> QED BY <1>4, <2>1, ModUnique
<1> QED BY <1>1, <1>2, <1>5, Zenon

LEMMA ModSmall == \A n \in SeqNo : n % Mod = n
<1> SUFFICES ASSUME NEW n \in SeqNo PROVE n % Mod = n
  OBVIOUS
<1>1. n \in Int /\ n = 0 * Mod + n
  BY SeqNoInt, ConnAssumption
<1> QED BY <1>1, ModUnique

\* From the number of one chunk to that of a later one less than Mod away.
LEMMA Steps ==
  ASSUME NEW i \in Int, NEW j \in Int, i <= j, j < i + Mod
  PROVE  Dist(i % Mod, j % Mod) = j - i
<1>1. PICK p \in Int, m \in SeqNo : m = i % Mod /\ i = p * Mod + m
  BY Quotients
<1>2. PICK q \in Int, n \in SeqNo : n = j % Mod /\ j = q * Mod + n
  BY Quotients
<1>3. m \in Int /\ n \in Int /\ Mod \in Int /\ j - i \in SeqNo
  BY SeqNoInt, ConnAssumption DEF SeqNo
<1>4. n - m = (p - q) * Mod + (j - i)
  <2>1. i = p * Mod + m /\ j = q * Mod + n
    BY <1>1, <1>2
  <2> QED BY <1>3, <2>1
<1>5. (n - m) % Mod = j - i
  <2>1. n - m \in Int /\ p - q \in Int
    BY <1>3
  <2> QED BY <1>3, <1>4, <2>1, ModUnique
<1> QED BY <1>1, <1>2, <1>5, Zenon DEF Dist

\* Dist says how far it is.
LEMMA Reaches ==
  ASSUME NEW m \in SeqNo, NEW n \in SeqNo
  PROVE  /\ Dist(m, n) \in SeqNo /\ (m + Dist(m, n)) % Mod = n
         /\ Dist(m, n) = 0 <=> m = n
<1>1. Dist(m, n) \in SeqNo
  BY DistType
<1>2. (m + Dist(m, n)) % Mod = n
  <2>1. PICK d \in SeqNo : d = (n - m) % Mod
    <3>1. n - m \in Int
      BY SeqNoInt
    <3> QED BY <3>1, ModInSeqNo
  <2>2. m \in Int /\ n \in Int /\ d \in Int /\ n - m \in Int
    BY SeqNoInt
  <2>3. (((n - m) % Mod) + m) % Mod = (n - m + m) % Mod
    BY <2>2, ModSum
  <2>4. n - m + m = n /\ d + m = m + d
    BY <2>2
  <2>5. (d + m) % Mod = n % Mod
    BY <2>1, <2>3, <2>4, Zenon
  <2> QED BY <2>1, <2>4, <2>5, ModSmall, Zenon DEF Dist
<1>3. Dist(m, n) = 0 => m = n
  <2>1. m + 0 = m
    BY SeqNoInt
  <2> QED BY <1>2, <2>1, ModSmall
<1>4. m = n => Dist(m, n) = 0
  <2>1. m - m = 0 /\ 0 \in SeqNo
    BY SeqNoInt
  <2> QED BY <2>1, ModSmall DEF Dist
<1> QED BY <1>1, <1>2, <1>3, <1>4


-----------------------------------------------------------------------------
(***************************************************************************)
(* One end of a link: k of its chunks are acknowledged, those framed since *)
(* are held, each under the sequence number it was sent with.              *)
(***************************************************************************)
Acked(c) == c.sent - Outstanding(c)

FramedFrom(c, k) ==
  /\ k \in 0 .. c.sent /\ c.sent - k <= Window
  /\ c.va = k % Mod /\ c.vs = c.sent % Mod
  /\ \A j \in k + 1 .. c.sent : c.unacked[(j - 1) % Mod] = j
  /\ \A n \in SeqNo : Dist(c.va, n) >= c.sent - k => c.unacked[n] = None

Framed(c) == FramedFrom(c, Acked(c))

\* What it has taken is the first chunks of the other end.
Taken(c) == c.vr = Len(c.rcvd) % Mod /\ \A i \in DOMAIN c.rcvd : c.rcvd[i] = i

\* T1 is pending while a frame is outstanding.
Timed(c) == Outstanding(c) # 0 => c.t1

(***************************************************************************)
(* The ends a and b and the frames p from a to b, of which the first u are *)
(* of an earlier link.                                                     *)
(***************************************************************************)
Data == {"I", "RR", "RNR", "REJ"}

\* The number of chunks of b that frame f acknowledges.
AckOf(b, f) == Acked(b) + Dist(b.va, f.nr)

\* b has taken all that a knows of, and no more than there is.
Between(a, b) == Acked(a) <= Len(b.rcvd) /\ Len(b.rcvd) <= a.sent

\* Every frame is of this link, no repetition is a window old, and none
\* acknowledges more than a has taken;
Passing(a, b) ==
  {f \in Frame : /\ f.type = "I" => /\ f.data \in 1 .. a.sent /\ f.ns = (f.data - 1) % Mod
                                    /\ Len(b.rcvd) < f.data + Window
                 /\ f.type \in Data => AckOf(b, f) <= Len(a.rcvd)}

\* what is sent later acknowledges no less, and repeats less than a window.
Before(b) ==
  {p \in Frame \X Frame :
     /\ p[1].type = "I" /\ p[2].type = "I" => p[1].data < p[2].data + Window
     /\ p[1].type \in Data /\ p[2].type \in Data => AckOf(b, p[1]) <= AckOf(b, p[2])}

LinedFrom(q, u, G, R) ==
  /\ \A i \in DOMAIN q : i > u => q[i] \in G
  /\ \A i, j \in DOMAIN q : u < i /\ i < j => <<q[i], q[j]>> \in R

OneWay(a, b, p, u) ==
  Framed(a) /\ Taken(a) /\ Between(a, b) /\ LinedFrom(p, u, Passing(a, b), Before(b))

Agree(a, b, p, u, q, v) == OneWay(a, b, p, u) /\ OneWay(b, a, q, v)

-----------------------------------------------------------------------------
(***************************************************************************)
(* Frames are put at the end of a queue and taken from its head.           *)
(***************************************************************************)
LEMMA PutAt ==
  ASSUME NEW q \in Seq(Frame), NEW out \in Seq(Frame)
  PROVE  /\ Put(q, out) \in Seq(Frame) /\ Len(q) \in Nat /\ Len(out) \in Nat
         /\ \A k \in DOMAIN Put(q, out) :
              \/ k \in 1 .. Len(q) /\ Put(q, out)[k] = q[k]
              \/ /\ k \in Len(q) + 1 .. Len(q) + Len(out) /\ k - Len(q) \in 1 .. Len(out)
                 /\ Put(q, out)[k] = out[k - Len(q)]
<1> DEFINE all == q \o out
           n == IF Len(all) < MaxAir THEN Len(all) ELSE MaxAir
<1>1. /\ all \in Seq(Frame) /\ Len(all) = Len(q) + Len(out) /\ Len(q) \in Nat /\ Len(out) \in Nat
      /\ \A k \in 1 .. Len(all) : all[k] = IF k <= Len(q) THEN q[k] ELSE out[k - Len(q)]
  OBVIOUS
<1> HIDE DEF all
<1>2. n \in 0 .. Len(all)
  BY <1>1, LinkAssumption
<1> HIDE DEF n
<1>3. /\ SubSeq(all, 1, n) \in Seq(Frame) /\ DOMAIN SubSeq(all, 1, n) = 1 .. n
      /\ \A k \in 1 .. n : SubSeq(all, 1, n)[k] = all[k]
  BY <1>1, <1>2
<1>4. Put(q, out) = SubSeq(all, 1, n)
  BY DEF Put, all, n
<1>5. ASSUME NEW k \in 1 .. n
      PROVE  \/ k \in 1 .. Len(q) /\ all[k] = q[k]
             \/ /\ k \in Len(q) + 1 .. Len(q) + Len(out) /\ k - Len(q) \in 1 .. Len(out)
                /\ all[k] = out[k - Len(q)]
  <2>1. k \in 1 .. Len(all)
    BY <1>1, <1>2
  <2>2. all[k] = IF k <= Len(q) THEN q[k] ELSE out[k - Len(q)]
    BY <1>1, <2>1
  <2> QED BY <1>1, <2>1, <2>2
<1> QED BY <1>1, <1>3, <1>4, <1>5

LEMMA PutFrom ==
  ASSUME NEW q \in Seq(Frame), NEW out \in Seq(Frame), NEW k \in DOMAIN Put(q, out)
  PROVE  \/ \E i \in DOMAIN q : Put(q, out)[k] = q[i]
         \/ \E i \in DOMAIN out : Put(q, out)[k] = out[i]
<1> DEFINE w == Put(q, out)
<1>1. DOMAIN q = 1 .. Len(q) /\ DOMAIN out = 1 .. Len(out)
  OBVIOUS
<1>2. \/ k \in 1 .. Len(q) /\ w[k] = q[k]
      \/ k - Len(q) \in 1 .. Len(out) /\ w[k] = out[k - Len(q)]
  BY PutAt
<1> HIDE DEF w
<1>3. (\E i \in DOMAIN q : w[k] = q[i]) \/ (\E i \in DOMAIN out : w[k] = out[i])
  BY <1>1, <1>2
<1> QED BY <1>3 DEF w

\* What out adds to a queue.
Follows(q, u, out, G, R) ==
  /\ \A j \in DOMAIN out : out[j] \in G /\ \A i \in DOMAIN q : u < i => <<q[i], out[j]>> \in R
  /\ \A i, j \in DOMAIN out : i < j => <<out[i], out[j]>> \in R

LEMMA LinedPut ==
  ASSUME NEW q \in Seq(Frame), NEW out \in Seq(Frame), NEW u \in Nat, NEW G, NEW R,
         LinedFrom(q, u, G, R), Follows(q, u, out, G, R)
  PROVE  LinedFrom(Put(q, out), u, G, R)
<1> DEFINE w == Put(q, out)
<1>1. /\ DOMAIN q = 1 .. Len(q) /\ DOMAIN out = 1 .. Len(out) /\ DOMAIN w = 1 .. Len(w)
      /\ Len(w) \in Nat
  BY PutAt
<1>2. /\ Len(q) \in Nat /\ Len(out) \in Nat
      /\ \A k \in DOMAIN w :
              \/ k \in 1 .. Len(q) /\ w[k] = q[k]
              \/ /\ k \in Len(q) + 1 .. Len(q) + Len(out) /\ k - Len(q) \in 1 .. Len(out)
                 /\ w[k] = out[k - Len(q)]
  BY PutAt
<1> HIDE DEF w
<1>3. ASSUME NEW i \in DOMAIN w, i > u PROVE w[i] \in G
  BY <1>1, <1>2, <1>3 DEF LinedFrom, Follows
<1>4. ASSUME NEW i \in DOMAIN w, NEW j \in DOMAIN w, u < i, i < j PROVE <<w[i], w[j]>> \in R
  <2>1. CASE j \in 1 .. Len(q) /\ w[j] = q[j]
    <3>1. i \in 1 .. Len(q) /\ w[i] = q[i]
      BY <1>1, <1>2, <1>4, <2>1
    <3> QED BY <1>1, <1>4, <2>1, <3>1 DEF LinedFrom
  <2>2. CASE /\ j \in Len(q) + 1 .. Len(q) + Len(out) /\ j - Len(q) \in 1 .. Len(out)
             /\ w[j] = out[j - Len(q)]
    <3>1. CASE i \in 1 .. Len(q) /\ w[i] = q[i]
      BY <1>1, <1>4, <2>2, <3>1 DEF Follows
    <3>2. CASE /\ i \in Len(q) + 1 .. Len(q) + Len(out) /\ i - Len(q) \in 1 .. Len(out)
               /\ w[i] = out[i - Len(q)]
      <4>1. i - Len(q) < j - Len(q)
        BY <1>2, <1>4, <2>2, <3>2
      <4> QED BY <1>1, <2>2, <3>2, <4>1 DEF Follows
    <3> QED BY <1>2, <3>1, <3>2
  <2> QED BY <1>2, <2>1, <2>2
<1> QED BY <1>3, <1>4 DEF LinedFrom, w

LEMMA LinedTail ==
  ASSUME NEW q \in Seq(Frame), q # <<>>, NEW u \in Nat, NEW v \in Nat, v + 1 >= u, NEW G, NEW R,
         LinedFrom(q, u, G, R)
  PROVE  LinedFrom(Tail(q), v, G, R)
<1> DEFINE w == Tail(q)
<1>1. /\ Len(q) \in Nat /\ DOMAIN q = 1 .. Len(q) /\ DOMAIN w = 1 .. Len(q) - 1
      /\ \A k \in 1 .. Len(q) - 1 : w[k] = q[k + 1]
  OBVIOUS
<1> HIDE DEF w
<1>2. ASSUME NEW i \in DOMAIN w, i > v PROVE w[i] \in G
  <2>1. i + 1 \in DOMAIN q /\ i + 1 > u /\ w[i] = q[i + 1]
    BY <1>1, <1>2
  <2> QED BY <2>1 DEF LinedFrom
<1>3. ASSUME NEW i \in DOMAIN w, NEW j \in DOMAIN w, v < i, i < j PROVE <<w[i], w[j]>> \in R
  <2>1. /\ i + 1 \in DOMAIN q /\ i + 1 > u /\ w[i] = q[i + 1]
        /\ j + 1 \in DOMAIN q /\ i + 1 < j + 1 /\ w[j] = q[j + 1]
    BY <1>1, <1>3
  <2> QED BY <2>1 DEF LinedFrom
<1> QED BY <1>2, <1>3 DEF LinedFrom, w

-----------------------------------------------------------------------------
(***************************************************************************)
(* What a number of chunks says of the sequence numbers.                   *)
(***************************************************************************)
LEMMA ModIsSmall == Mod \in Nat /\ Window \in Nat \ {0} /\ Window < Mod
BY ConnAssumption

\* FramedFrom has one k.
LEMMA FramedOnce ==
  ASSUME NEW c \in Conn, NEW k, FramedFrom(c, k)
  PROVE  /\ k \in Nat /\ c.sent \in Nat /\ k <= c.sent /\ c.sent <= k + Window
         /\ Outstanding(c) = c.sent - k /\ Acked(c) = k /\ Framed(c)
<1>1. k \in Nat /\ c.sent \in Nat /\ k <= c.sent /\ c.sent - k <= Window
  BY ConnFields DEF FramedFrom
<1>2. c.sent < k + Mod /\ c.sent <= k + Window
  BY <1>1, ModIsSmall
<1>3. Dist(c.va, c.vs) = c.sent - k
  BY <1>1, <1>2, Steps DEF FramedFrom
<1>4. Outstanding(c) = c.sent - k
  BY <1>3 DEF Outstanding
<1>5. Acked(c) = k
  BY <1>1, <1>4 DEF Acked
<1> QED BY <1>1, <1>2, <1>4, <1>5 DEF Framed

LEMMA FramedFacts ==
  ASSUME NEW c \in Conn, Framed(c)
  PROVE  /\ Acked(c) \in Nat /\ c.sent \in Nat /\ Acked(c) <= c.sent /\ c.sent <= Acked(c) + Window
         /\ Outstanding(c) = c.sent - Acked(c) /\ FramedFrom(c, Acked(c))
BY FramedOnce DEF Framed

\* The number that a frame acknowledges, and when.
LEMMA AckFacts ==
  ASSUME NEW b \in Conn, Framed(b), NEW f \in Frame
  PROVE  /\ AckOf(b, f) \in Nat /\ Acked(b) <= AckOf(b, f) /\ AckOf(b, f) < Acked(b) + Mod
         /\ f.nr = AckOf(b, f) % Mod
<1>1. Acked(b) \in Nat /\ b.va = Acked(b) % Mod /\ b.va \in SeqNo /\ f.nr \in SeqNo
  BY FramedFacts, ConnFields DEF FramedFrom, Frame
<1>2. /\ Dist(b.va, f.nr) \in SeqNo /\ (b.va + Dist(b.va, f.nr)) % Mod = f.nr
  BY <1>1, Reaches
<1> DEFINE d == Dist(b.va, f.nr)
           k == Acked(b)
<1>3. d \in Nat /\ d < Mod
  BY <1>2, ModIsSmall DEF SeqNo
<1>4. ((k % Mod) + d) % Mod = (k + d) % Mod
  <2> HIDE DEF d, k
  <2>1. k \in Int /\ d \in Int
    BY <1>1, <1>3 DEF k
  <2> QED BY <2>1, ModSum
<1>5. f.nr = (k + d) % Mod
  BY <1>1, <1>2, <1>4
<1> HIDE DEF d, k
<1>6. k \in Nat /\ k + d \in Nat /\ k <= k + d /\ k + d < k + Mod
  BY <1>1, <1>3, ModIsSmall DEF k
<1>7. AckOf(b, f) = k + d
  BY DEF AckOf, k, d
<1> QED BY <1>5, <1>6, <1>7 DEF k

LEMMA AckIs ==
  ASSUME NEW b \in Conn, Framed(b), NEW f \in Frame, NEW e \in Nat,
         f.nr = e % Mod, Acked(b) <= e, e < Acked(b) + Mod
  PROVE  AckOf(b, f) = e
<1>1. Acked(b) \in Nat /\ b.va = Acked(b) % Mod
  BY FramedFacts DEF FramedFrom
<1>2. Dist(b.va, f.nr) = e - Acked(b)
  BY <1>1, Steps
<1> QED BY <1>1, <1>2 DEF AckOf

-----------------------------------------------------------------------------
(***************************************************************************)
(* The fields of a connection after each operator.                         *)
(***************************************************************************)
SameData(c, d) ==
  /\ d.vs = c.vs /\ d.vr = c.vr /\ d.va = c.va /\ d.unacked = c.unacked
  /\ d.sent = c.sent /\ d.rcvd = c.rcvd

LEMMA SameWindow ==
  ASSUME NEW c, NEW d, SameData(c, d)
  PROVE  /\ Outstanding(d) = Outstanding(c) /\ Acked(d) = Acked(c)
         /\ Framed(c) => Framed(d)
         /\ Taken(c) => Taken(d)
         /\ \A f : AckOf(d, f) = AckOf(c, f)
<1>1. Outstanding(d) = Outstanding(c)
  BY DEF SameData, Outstanding
<1>2. Acked(d) = Acked(c)
  BY <1>1 DEF SameData, Acked
<1>3. \A f : AckOf(d, f) = AckOf(c, f)
  BY <1>2 DEF SameData, AckOf
<1>4. Framed(c) => Framed(d)
  BY <1>2, Zenon DEF SameData, Framed, FramedFrom
<1>5. Taken(c) => Taken(d)
  BY Zenon DEF SameData, Taken
<1> QED BY <1>1, <1>2, <1>3, <1>4, <1>5

\* Nothing of the data changes at a: the two ends still agree.
LEMMA SameAgree ==
  ASSUME NEW a, NEW c, NEW b, NEW p, NEW q, NEW u, NEW v, SameData(a, c), Agree(a, b, p, u, q, v)
  PROVE  Agree(c, b, p, u, q, v)
<1>1. c.sent = a.sent /\ c.rcvd = a.rcvd /\ Acked(c) = Acked(a) /\ Framed(c) /\ Taken(c)
      /\ \A f : AckOf(c, f) = AckOf(a, f)
  BY SameWindow DEF SameData, Agree, OneWay
<1>2. Passing(c, b) = Passing(a, b)
  BY <1>1 DEF Passing
<1>3. Passing(b, c) = Passing(b, a)
  BY <1>1 DEF Passing
<1>4. Before(c) = Before(a)
  BY <1>1 DEF Before
<1>5. Between(c, b) /\ Between(b, c)
  BY <1>1 DEF Agree, OneWay, Between
<1> QED BY <1>1, <1>2, <1>3, <1>4, <1>5, Zenon DEF Agree, OneWay

LEMMA AgreeBoth ==
  ASSUME NEW a, NEW b, NEW p, NEW q, NEW u, NEW v, Agree(a, b, p, u, q, v)
  PROVE  Agree(b, a, q, v, p, u)
BY Zenon DEF Agree

LEMMA UpdateVAFields ==
  ASSUME NEW c \in Conn, NEW nr \in SeqNo
  PROVE  /\ UpdateVA(c, nr) \in Conn
         /\ UpdateVA(c, nr).va = nr /\ UpdateVA(c, nr).vs = c.vs /\ UpdateVA(c, nr).vr = c.vr
         /\ UpdateVA(c, nr).sent = c.sent /\ UpdateVA(c, nr).rcvd = c.rcvd
         /\ UpdateVA(c, nr).t1 = c.t1
         /\ \A n \in SeqNo : UpdateVA(c, nr).unacked[n] =
                               IF Dist(c.va, n) < Dist(c.va, nr) THEN None ELSE c.unacked[n]
<1>1. UpdateVA(c, nr) \in Conn
  BY ConnAssumption DEF UpdateVA, Conn, None
<1> QED BY <1>1 DEF UpdateVA, Conn

LEMMA PumpFields ==
  ASSUME NEW c \in Conn
  PROVE  /\ Pump(c).va = c.va /\ Pump(c).vr = c.vr /\ Pump(c).rcvd = c.rcvd
         /\ Pump(c).vs = (c.vs + PumpCount(c)) % Mod /\ Pump(c).sent = c.sent + PumpCount(c)
         /\ Pump(c).t1 = (c.t1 \/ PumpCount(c) > 0) /\ Pump(c).state = c.state /\ Pump(c).inc = c.inc
         /\ Pump(c).sabm = c.sabm
         /\ \A n \in SeqNo : Pump(c).unacked[n] =
              IF Dist(c.vs, n) < PumpCount(c) THEN c.sent + Dist(c.vs, n) + 1 ELSE c.unacked[n]
<1> DEFINE k == PumpCount(c)
           u == [n \in SeqNo |-> IF Dist(c.vs, n) < k THEN c.sent + Dist(c.vs, n) + 1 ELSE c.unacked[n]]
<1>1. Pump(c) = [c EXCEPT !.txq = c.txq - k, !.sent = c.sent + k, !.vs = (c.vs + k) % Mod,
                          !.unacked = u, !.t1 = c.t1 \/ k > 0]
  BY Zenon DEF Pump, Conn
<1> HIDE DEF k, u
<1>2. /\ Pump(c).va = c.va /\ Pump(c).vr = c.vr /\ Pump(c).rcvd = c.rcvd
      /\ Pump(c).vs = (c.vs + k) % Mod /\ Pump(c).sent = c.sent + k
      /\ Pump(c).t1 = (c.t1 \/ k > 0) /\ Pump(c).state = c.state /\ Pump(c).inc = c.inc
      /\ Pump(c).sabm = c.sabm /\ Pump(c).unacked = u
  BY <1>1 DEF Conn
<1>3. \A n \in SeqNo : u[n] = IF Dist(c.vs, n) < k THEN c.sent + Dist(c.vs, n) + 1 ELSE c.unacked[n]
  BY DEF u
<1> QED BY <1>2, <1>3, Zenon DEF k

LEMMA PumpConn ==
  ASSUME NEW c \in Conn
  PROVE  Pump(c) \in Conn
<1> DEFINE k == PumpCount(c)
           u == [n \in SeqNo |-> IF Dist(c.vs, n) < k THEN c.sent + Dist(c.vs, n) + 1 ELSE c.unacked[n]]
<1>1. k \in Nat /\ k <= c.txq
  BY PumpCountType
<1>2. (c.vs + k) % Mod \in SeqNo
  <2>1. c.vs \in SeqNo
    BY ConnFields
  <2> HIDE DEF k
  <2> QED BY <1>1, <2>1, SumInSeqNo
<1>3. u \in [SeqNo -> Nat]
  <2> SUFFICES ASSUME NEW n \in SeqNo
               PROVE  c.sent + Dist(c.vs, n) + 1 \in Nat /\ c.unacked[n] \in Nat
    OBVIOUS
  <2>1. c.vs \in SeqNo /\ c.sent \in Nat /\ c.unacked \in [SeqNo -> Nat]
    BY ConnFields
  <2>2. Dist(c.vs, n) \in Nat
    BY <2>1, DistType, SeqNoInt
  <2> QED BY <2>1, <2>2
<1>4. c.txq - k \in Nat /\ c.sent + k \in Nat /\ (c.t1 \/ k > 0) \in BOOLEAN
  BY <1>1, ConnFields
<1>5. Pump(c) = [c EXCEPT !.txq = c.txq - k, !.sent = c.sent + k, !.vs = (c.vs + k) % Mod,
                          !.unacked = u, !.t1 = c.t1 \/ k > 0]
  BY Zenon DEF Pump, Conn
<1> HIDE DEF k, u
<1> QED BY <1>2, <1>3, <1>4, <1>5, ZenonT(60) DEF Conn

\* V(A) moves to chunk e: the frames from there on are still held.
LEMMA UpdateVAFrames ==
  ASSUME NEW c \in Conn, Framed(c), NEW e \in Nat, Acked(c) <= e, e <= c.sent, NEW nr \in SeqNo, nr = e % Mod
  PROVE  FramedFrom(UpdateVA(c, nr), e)
<1> DEFINE k == Acked(c)
           d == UpdateVA(c, nr)
<1>1. /\ k \in Nat /\ c.sent \in Nat /\ k <= c.sent /\ c.sent <= k + Window /\ FramedFrom(c, k)
      /\ k <= e /\ e <= c.sent /\ Mod \in Nat /\ Window \in Nat /\ Window < Mod
  BY FramedFacts, ModIsSmall
<1>2. /\ d.va = nr /\ d.vs = c.vs /\ d.sent = c.sent
      /\ \A n \in SeqNo : d.unacked[n] = IF Dist(c.va, n) < Dist(c.va, nr) THEN None ELSE c.unacked[n]
  BY UpdateVAFields
<1> HIDE DEF k, d
<1>3. c.va = k % Mod /\ c.vs = c.sent % Mod /\ c.va \in SeqNo /\ Dist(c.va, nr) = e - k
  <2>1. Dist(k % Mod, e % Mod) = e - k
    BY <1>1, Steps
  <2> QED BY <1>1, <2>1, ConnFields DEF FramedFrom
<1>4. ASSUME NEW j \in e + 1 .. c.sent PROVE d.unacked[(j - 1) % Mod] = j
  <2>1. j \in k + 1 .. c.sent /\ j - 1 \in Int /\ k <= j - 1 /\ j - 1 < k + Mod
    BY <1>1
  <2>2. c.unacked[(j - 1) % Mod] = j
    BY <1>1, <2>1 DEF FramedFrom
  <2>3. Dist(c.va, (j - 1) % Mod) = j - 1 - k /\ (j - 1) % Mod \in SeqNo
    <3>1. Dist(k % Mod, (j - 1) % Mod) = j - 1 - k
      <4>1. k \in Int /\ j - 1 \in Int /\ k <= j - 1 /\ j - 1 < k + Mod
        BY <1>1, <2>1
      <4> QED BY <4>1, Steps
    <3> QED BY <1>3, <2>1, <3>1, ModInSeqNo
  <2>4. ~(j - 1 - k < e - k)
    BY <1>1, <2>1
  <2> QED BY <1>2, <1>3, <2>2, <2>3, <2>4
<1>5. ASSUME NEW n \in SeqNo, Dist(nr, n) >= c.sent - e PROVE d.unacked[n] = None
  <2>1. Dist(nr, n) \in SeqNo /\ (nr + Dist(nr, n)) % Mod = n
    BY Reaches
  <2> DEFINE x == Dist(nr, n)
  <2>2. x \in Nat /\ x < Mod /\ x >= c.sent - e
    BY <1>5, <2>1, ModIsSmall DEF SeqNo
  <2>3. (nr + x) % Mod = (e + x) % Mod
    <3> HIDE DEF x
    <3>1. ((e % Mod) + x) % Mod = (e + x) % Mod
      BY <2>2, ModSum
    <3> QED BY <3>1
  <2>4. n = (e + x) % Mod
    BY <2>1, <2>3
  <2> HIDE DEF x
  <2>5. CASE e + x < k + Mod
    <3>1. PICK z \in Int : z = e + x
      BY <2>2
    <3>2. k \in Int /\ k <= z /\ z < k + Mod
      BY <1>1, <2>2, <2>5, <3>1
    <3>3. Dist(k % Mod, z % Mod) = z - k
      BY <3>2, Steps
    <3>4. Dist(c.va, n) = z - k
      BY <1>3, <2>4, <3>1, <3>3
    <3>5. Dist(c.va, n) >= c.sent - k
      BY <1>1, <2>2, <3>1, <3>2, <3>4
    <3>6. c.unacked[n] = None
      BY <1>1, <3>5 DEF FramedFrom
    <3> QED BY <1>2, <1>3, <3>6
  <2>6. CASE e + x >= k + Mod
    <3> DEFINE y == e + x - Mod
    <3>1. y \in Int /\ k <= y /\ y < e /\ y < k + Mod
      BY <1>1, <2>2, <2>6
    <3>2. n = y % Mod
      <4>1. (((e + x) % Mod) + (0 - Mod)) % Mod = (e + x + (0 - Mod)) % Mod
        BY <1>1, <2>2, ModSum
      <4>2. e + x + (0 - Mod) = y
        BY <1>1, <2>2
      <4>3. (n + (0 - Mod)) % Mod = y % Mod
        BY <2>4, <4>1, <4>2, Zenon
      <4>4. (n + (0 - Mod)) % Mod = n
        <5>1. n + (0 - Mod) = (0 - 1) * Mod + n /\ n + (0 - Mod) \in Int
          BY <1>1, SeqNoInt
        <5> QED BY <5>1, ModUnique
      <4> QED BY <4>3, <4>4
    <3> HIDE DEF y
    <3>3. Dist(c.va, n) = y - k
      <4>1. Dist(k % Mod, y % Mod) = y - k
        <5>1. k \in Int /\ y \in Int /\ k <= y /\ y < k + Mod
          BY <1>1, <3>1
        <5> QED BY <5>1, Steps
      <4> QED BY <1>3, <3>2, <4>1
    <3>4. Dist(c.va, n) < Dist(c.va, nr)
      BY <1>1, <1>3, <3>1, <3>3
    <3> QED BY <1>2, <3>4
  <2> QED BY <1>1, <2>2, <2>5, <2>6
<1>6. /\ e \in 0 .. d.sent /\ d.sent - e <= Window /\ d.va = e % Mod /\ d.vs = d.sent % Mod
  BY <1>1, <1>2, <1>3
<1> QED BY <1>2, <1>4, <1>5, <1>6 DEF FramedFrom, d

LEMMA Wraps ==
  ASSUME NEW n \in Int
  PROVE  (n + Mod) % Mod = n % Mod
<1>1. PICK q \in Int, r \in SeqNo : r = n % Mod /\ n = q * Mod + r
  BY Quotients
<1>2. n + Mod = (q + 1) * Mod + r /\ n + Mod \in Int /\ q + 1 \in Int
  <2>1. Mod \in Int /\ r \in Int
    BY ModIsSmall, SeqNoInt
  <2> QED BY <1>1, <2>1
<1>3. (n + Mod) % Mod = r
  BY <1>2, ModUnique
<1> QED BY <1>1, <1>3

\* The number, from k on, that a sequence number stands for.
LEMMA NumberOf ==
  ASSUME NEW k \in Nat, NEW n \in SeqNo
  PROVE  \E z \in Nat : k <= z /\ z < k + Mod /\ n = z % Mod /\ Dist(k % Mod, n) = z - k
<1>1. k % Mod \in SeqNo
  BY ModInSeqNo
<1>2. PICK x \in SeqNo : x = Dist(k % Mod, n) /\ ((k % Mod) + x) % Mod = n
  BY <1>1, Reaches
<1>3. x \in Nat /\ x < Mod /\ x \in Int /\ k \in Int /\ Mod \in Nat
  BY ModIsSmall DEF SeqNo
<1>4. ((k % Mod) + x) % Mod = (k + x) % Mod
  BY <1>3, ModSum
<1>5. PICK z \in Nat : z = k + x
  BY <1>3
<1>6. n = z % Mod
  BY <1>2, <1>4, <1>5
<1>7. k <= z /\ z < k + Mod /\ x = z - k
  BY <1>3, <1>5
<1> QED BY <1>2, <1>6, <1>7

\* What is framed lies in the window.
LEMMA PumpFits ==
  ASSUME NEW c \in Conn, Framed(c)
  PROVE  PumpCount(c) \in Nat /\ c.sent + PumpCount(c) <= Acked(c) + Window
<1>1. PumpCount(c) \in Nat
  BY PumpCountType
<1>2. /\ Acked(c) \in Nat /\ c.sent \in Nat /\ c.sent <= Acked(c) + Window /\ Window \in Nat
      /\ Outstanding(c) = c.sent - Acked(c)
  BY FramedFacts, ModIsSmall
<1>3. c.txq \in Nat
  BY ConnFields
<1> QED BY <1>1, <1>2, <1>3 DEF PumpCount, FreeWindow

LEMMA PumpFramed ==
  ASSUME NEW c \in Conn, Framed(c)
  PROVE  FramedFrom(Pump(c), Acked(c))
<1> DEFINE k == Acked(c)
           m == PumpCount(c)
           d == Pump(c)
<1>1. /\ k \in Nat /\ c.sent \in Nat /\ k <= c.sent /\ c.sent <= k + Window /\ FramedFrom(c, k)
      /\ Mod \in Nat /\ Window \in Nat /\ Window < Mod /\ m \in Nat /\ c.sent + m <= k + Window
  BY FramedFacts, ModIsSmall, PumpFits
<1>2. /\ d.va = c.va /\ d.vs = (c.vs + m) % Mod /\ d.sent = c.sent + m
      /\ \A n \in SeqNo : d.unacked[n] =
           IF Dist(c.vs, n) < m THEN c.sent + Dist(c.vs, n) + 1 ELSE c.unacked[n]
  BY PumpFields
<1> HIDE DEF k, m, d
<1>3. c.va = k % Mod /\ c.vs = c.sent % Mod
  BY <1>1 DEF FramedFrom
<1>4. d.vs = d.sent % Mod
  <2>1. ((c.sent % Mod) + m) % Mod = (c.sent + m) % Mod
    <3>1. c.sent \in Int /\ m \in Int
      BY <1>1
    <3> QED BY <3>1, ModSum
  <2> QED BY <1>2, <1>3, <2>1
<1>5. ASSUME NEW j \in k + 1 .. c.sent + m PROVE d.unacked[(j - 1) % Mod] = j
  <2>1. PICK i \in Nat : i = j - 1
    BY <1>1
  <2>2. i % Mod \in SeqNo /\ k <= i /\ i < c.sent + m /\ j = i + 1
    <3>1. k <= i /\ i < c.sent + m /\ j = i + 1
      BY <1>1, <2>1
    <3>2. i \in Int
      OBVIOUS
    <3> QED BY <3>1, <3>2, ModInSeqNo, Zenon
  <2>3. CASE j \in c.sent + 1 .. c.sent + m
    <3>1. c.sent <= i /\ i < c.sent + Mod
      BY <1>1, <2>1, <2>2, <2>3
    <3>2. Dist(c.sent % Mod, i % Mod) = i - c.sent
      <4>1. c.sent \in Int /\ i \in Int /\ c.sent <= i /\ i < c.sent + Mod
        BY <1>1, <3>1
      <4> QED BY <4>1, Steps
    <3>3. i - c.sent < m /\ c.sent + (i - c.sent) + 1 = j
      BY <1>1, <2>2
    <3>4. d.unacked[i % Mod] = j
      BY <1>2, <1>3, <2>2, <3>2, <3>3
    <3> QED BY <2>1, <3>4
  <2>4. CASE j \in k + 1 .. c.sent
    <3>1. PICK z \in Nat : z = i + Mod
      BY <1>1
    <3>2. c.sent <= z /\ z < c.sent + Mod
      BY <1>1, <2>1, <2>2, <2>4, <3>1
    <3>3. Dist(c.sent % Mod, z % Mod) = z - c.sent
      <4>1. c.sent \in Int /\ z \in Int /\ c.sent <= z /\ z < c.sent + Mod
        BY <1>1, <3>2
      <4> QED BY <4>1, Steps
    <3>4. z % Mod = i % Mod
      BY <3>1, Wraps
    <3>5. ~(z - c.sent < m)
      BY <1>1, <2>2, <3>1
    <3>6. c.unacked[i % Mod] = j
      BY <1>1, <2>1, <2>4 DEF FramedFrom
    <3>7. d.unacked[i % Mod] = j
      BY <1>2, <1>3, <2>2, <3>3, <3>4, <3>5, <3>6
    <3> QED BY <2>1, <3>7
  <2> QED BY <1>1, <2>3, <2>4
<1>6. ASSUME NEW n \in SeqNo, Dist(c.va, n) >= c.sent + m - k PROVE d.unacked[n] = None
  <2>1. PICK z \in Nat : k <= z /\ z < k + Mod /\ n = z % Mod /\ Dist(k % Mod, n) = z - k
    BY <1>1, NumberOf
  <2>2. z - k >= c.sent + m - k /\ z - k >= c.sent - k
    <3>1. z - k >= c.sent + m - k
      BY <1>3, <1>6, <2>1
    <3> QED BY <1>1, <2>1, <3>1
  <2>3. c.unacked[n] = None
    BY <1>1, <1>3, <2>1, <2>2 DEF FramedFrom
  <2>4. c.sent <= z /\ z < c.sent + Mod
    BY <1>1, <2>1, <2>2
  <2>5. Dist(c.sent % Mod, z % Mod) = z - c.sent
    <3>1. c.sent \in Int /\ z \in Int /\ c.sent <= z /\ z < c.sent + Mod
      BY <1>1, <2>4
    <3> QED BY <3>1, Steps
  <2>6. ~(z - c.sent < m)
    BY <1>1, <2>1, <2>2
  <2> QED BY <1>2, <1>3, <2>1, <2>3, <2>5, <2>6
<1>7. k \in 0 .. d.sent /\ d.sent - k <= Window /\ d.va = k % Mod
  BY <1>1, <1>2, <1>3
<1>8. /\ \A j \in k + 1 .. d.sent : d.unacked[(j - 1) % Mod] = j
      /\ \A n \in SeqNo : Dist(d.va, n) >= d.sent - k => d.unacked[n] = None
  <2>1. ASSUME NEW j \in k + 1 .. d.sent PROVE d.unacked[(j - 1) % Mod] = j
    BY <1>2, <1>5, <2>1
  <2>2. ASSUME NEW n \in SeqNo, Dist(d.va, n) >= d.sent - k PROVE d.unacked[n] = None
    <3>1. Dist(c.va, n) >= c.sent + m - k
      BY <1>1, <1>2, <2>2
    <3> QED BY <1>6, <3>1
  <2> QED BY <2>1, <2>2
<1> QED BY <1>4, <1>7, <1>8 DEF FramedFrom, k, d

-----------------------------------------------------------------------------
(***************************************************************************)
(* The two ends agree after each part of a handler.                        *)
(***************************************************************************)

\* What the ends know of each other.
LEMMA AgreeFacts ==
  ASSUME NEW a \in Conn, NEW b \in Conn, NEW p, NEW q, NEW u, NEW v, Agree(a, b, p, u, q, v)
  PROVE  /\ Framed(a) /\ Framed(b) /\ Taken(a) /\ Taken(b)
         /\ Len(a.rcvd) \in Nat /\ Len(b.rcvd) \in Nat /\ Mod \in Nat /\ Window \in Nat \ {0} /\ Window < Mod
         /\ Acked(a) \in Nat /\ a.sent \in Nat /\ Acked(b) \in Nat /\ b.sent \in Nat
         /\ a.sent <= Acked(a) + Window /\ b.sent <= Acked(b) + Window
         /\ Acked(a) <= Len(b.rcvd) /\ Len(b.rcvd) <= a.sent
         /\ Acked(b) <= Len(a.rcvd) /\ Len(a.rcvd) <= b.sent
<1>1. Framed(a) /\ Framed(b) /\ Taken(a) /\ Taken(b) /\ Between(a, b) /\ Between(b, a)
  BY DEF Agree, OneWay
<1>2. Len(a.rcvd) \in Nat /\ Len(b.rcvd) \in Nat
  BY ConnFields
<1> QED BY <1>1, <1>2, FramedFacts, ModIsSmall DEF Between

\* _update_va on the frame that has arrived.
LEMMA HearsAck ==
  ASSUME NEW a \in Conn, NEW b \in Conn, NEW p, NEW q \in Seq(Frame), NEW u, Agree(a, b, p, u, q, 0),
         q # <<>>, Head(q).type \in Data
  PROVE  /\ Agree(UpdateVA(a, Head(q).nr), b, p, u, q, 0)
         /\ Acked(a) <= Acked(UpdateVA(a, Head(q).nr))
<1> DEFINE f == Head(q)
           d == UpdateVA(a, f.nr)
           e == AckOf(a, f)
<1>1. /\ f \in Frame /\ f = q[1] /\ 1 \in DOMAIN q /\ f.nr \in SeqNo
      /\ \A i \in DOMAIN q : q[i] \in Frame /\ i \in Nat /\ (i = 1 \/ i > 1) /\ i > 0
  <2>1. /\ f \in Frame /\ f = q[1] /\ 1 \in DOMAIN q
        /\ \A i \in DOMAIN q : q[i] \in Frame /\ i \in Nat /\ (i = 1 \/ i > 1) /\ i > 0
    OBVIOUS
  <2> HIDE DEF f
  <2> QED BY <2>1 DEF Frame
<1>2. e \in Nat /\ Acked(a) <= e /\ e < Acked(a) + Mod /\ f.nr = e % Mod
  BY <1>1, AgreeFacts, AckFacts
<1>3. LinedFrom(q, 0, Passing(b, a), Before(a))
  BY DEF Agree, OneWay
<1>4. q[1] \in Passing(b, a) /\ \A i \in DOMAIN q : q[i] \in Passing(b, a)
  BY <1>1, <1>3 DEF LinedFrom
<1>5. e <= Len(b.rcvd)
  BY <1>1, <1>4 DEF Passing
<1>6. Framed(a) /\ e <= a.sent /\ e \in Nat
  BY <1>2, <1>5, AgreeFacts
<1>7. FramedFrom(d, e)
  BY <1>1, <1>2, <1>6, UpdateVAFrames
<1>8. d \in Conn /\ d.sent = a.sent /\ d.rcvd = a.rcvd /\ d.vr = a.vr
  BY <1>1, UpdateVAFields
<1> HIDE DEF d, e, f
<1>9. Framed(d) /\ Acked(d) = e
  BY <1>7, <1>8, FramedOnce
<1>10. ASSUME NEW g \in Frame, e <= AckOf(a, g) PROVE AckOf(d, g) = AckOf(a, g)
  <2>1. /\ AckOf(a, g) \in Nat /\ AckOf(a, g) < Acked(a) + Mod /\ g.nr = AckOf(a, g) % Mod
        /\ Acked(a) \in Nat
    BY <1>6, AckFacts, FramedFacts
  <2>2. Acked(d) <= AckOf(a, g) /\ AckOf(a, g) < Acked(d) + Mod
    BY <1>2, <1>9, <1>10, <2>1, ModIsSmall
  <2> QED BY <1>8, <1>9, <2>1, <2>2, AckIs
<1>11. ASSUME NEW i \in DOMAIN q, q[i].type \in Data PROVE AckOf(d, q[i]) = AckOf(a, q[i])
  <2>1. e <= AckOf(a, q[i])
    <3>1. CASE i = 1
      BY <1>1, <1>2, <3>1 DEF e
    <3>2. CASE i > 1
      <4>1. <<q[1], q[i]>> \in Before(a)
        BY <1>1, <1>3, <3>2 DEF LinedFrom
      <4>2. AckOf(a, q[1]) <= AckOf(a, q[i])
        BY <1>1, <1>11, <4>1 DEF Before, f
      <4> QED BY <1>1, <4>2 DEF e
    <3> QED BY <1>1, <3>1, <3>2
  <2> QED BY <1>1, <1>10, <2>1
<1>12. ASSUME NEW i \in DOMAIN q PROVE q[i] \in Passing(b, d)
  <2>1. q[i] \in Passing(b, a)
    BY <1>4
  <2> QED BY <1>8, <1>11, <2>1 DEF Passing
<1>13. ASSUME NEW i \in DOMAIN q, NEW j \in DOMAIN q, 0 < i, i < j PROVE <<q[i], q[j]>> \in Before(d)
  <2>1. <<q[i], q[j]>> \in Before(a)
    BY <1>3, <1>13 DEF LinedFrom
  <2> QED BY <1>11, <2>1 DEF Before
<1>14. LinedFrom(q, 0, Passing(b, d), Before(d))
  BY <1>12, <1>13 DEF LinedFrom
<1>15. Passing(d, b) = Passing(a, b)
  BY <1>8 DEF Passing
<1>16. Taken(d) /\ Between(d, b) /\ Between(b, d)
  BY <1>5, <1>8, <1>9, AgreeFacts DEF Agree, OneWay, Taken, Between
<1>17. Agree(d, b, p, u, q, 0)
  BY <1>9, <1>14, <1>15, <1>16, Zenon DEF Agree, OneWay
<1> QED BY <1>2, <1>9, <1>17 DEF d, f

\* The frame that has arrived is the next one, or not taken.
LEMMA Accepts ==
  ASSUME NEW a \in Conn, NEW b \in Conn, NEW p, NEW q \in Seq(Frame), NEW u, Agree(a, b, p, u, q, 0),
         q # <<>>, Head(q).type = "I"
  PROVE  /\ Agree(Accept(a, Head(q)), b, p, u, q, 0)
         /\ Acked(Accept(a, Head(q))) = Acked(a)
         /\ Accept(a, Head(q)).vr = Answer(a, Head(q)).nr
         /\ Accept(a, Head(q)).rcvd = a.rcvd \/ Accept(a, Head(q)).rcvd = Append(a.rcvd, Len(a.rcvd) + 1)
<1> DEFINE f == Head(q)
           d == Accept(a, f)
           k == Len(a.rcvd)
<1>1. /\ f \in Frame /\ f = q[1] /\ 1 \in DOMAIN q
      /\ \A i \in DOMAIN q : q[i] \in Frame /\ i \in Nat /\ (i = 1 \/ i > 1) /\ i > 0
  OBVIOUS
<1>2. CASE f.ns # a.vr
  BY <1>2 DEF Accept, Answer, SFrame
<1>3. CASE f.ns = a.vr
  <2>1. LinedFrom(q, 0, Passing(b, a), Before(a))
    BY DEF Agree, OneWay
  <2>2. q[1] \in Passing(b, a) /\ \A i \in DOMAIN q : q[i] \in Passing(b, a)
    BY <1>1, <2>1 DEF LinedFrom
  <2>3. f.data \in 1 .. b.sent /\ f.ns = (f.data - 1) % Mod /\ k < f.data + Window
    BY <1>1, <2>2 DEF Passing
  <2>4. a.vr = k % Mod /\ k \in Nat
    BY AgreeFacts DEF Taken
  <2>5. PICK x \in Nat : x = f.data - 1
    <3>1. b.sent \in Nat
      BY AgreeFacts
    <3> HIDE DEF f
    <3> QED BY <2>3, <3>1
  <2>6. x < k + Mod /\ k < x + Mod
    <3>1. b.sent \in Nat /\ b.sent <= k + Window /\ Window \in Nat \ {0} /\ Window < Mod /\ Mod \in Nat
      <4> HIDE DEF f
      <4> QED BY <2>4, AgreeFacts
    <3> HIDE DEF f, k
    <3>2. f.data \in 1 .. b.sent /\ k < f.data + Window
      BY <2>3
    <3>3. k \in Nat
      BY <2>4
    <3> QED BY <2>5, <3>1, <3>2, <3>3
  <2>7. x % Mod = k % Mod
    BY <1>3, <2>3, <2>4, <2>5
  <2>8. x = k
    <3>1. k % Mod \in SeqNo
      BY <2>4, ModInSeqNo
    <3>2. Dist(k % Mod, k % Mod) = 0
      BY <3>1, Reaches
    <3>3. CASE k <= x
      <4>1. Dist(k % Mod, x % Mod) = x - k
        BY <2>4, <2>6, <3>3, Steps
      <4> QED BY <2>4, <2>7, <3>2, <4>1
    <3>4. CASE x <= k
      <4>1. Dist(x % Mod, k % Mod) = k - x
        BY <2>4, <2>6, <3>4, Steps
      <4> QED BY <2>4, <2>7, <3>2, <4>1
    <3> QED BY <2>4, <3>3, <3>4
  <2>9. f.data = k + 1 /\ k + 1 <= b.sent
    <3>1. b.sent \in Nat
      BY AgreeFacts
    <3> HIDE DEF f, k
    <3> QED BY <2>3, <2>4, <2>5, <2>8, <3>1
  <2>10. d = [a EXCEPT !.vr = (a.vr + 1) % Mod, !.rcvd = Append(a.rcvd, f.data)]
    BY <1>3 DEF Accept, Conn
  <2> HIDE DEF d
  <2>11. /\ d.vr = (a.vr + 1) % Mod /\ d.rcvd = Append(a.rcvd, k + 1) /\ d.sent = a.sent
         /\ d.va = a.va /\ d.vs = a.vs /\ d.unacked = a.unacked
    <3> HIDE DEF k, f
    <3> QED BY <2>9, <2>10 DEF Conn
  <2>12. Outstanding(d) = Outstanding(a) /\ Acked(d) = Acked(a)
    BY <2>11 DEF Outstanding, Acked
  <2>13. Framed(d)
    <3>1. Framed(a)
      BY AgreeFacts
    <3> QED BY <2>11, <2>12, <3>1, Zenon DEF Framed, FramedFrom
  <2>14. \A g : AckOf(d, g) = AckOf(a, g)
    BY <2>11, <2>12 DEF AckOf
  <2>15. /\ Len(d.rcvd) = k + 1 /\ DOMAIN d.rcvd = 1 .. k + 1 /\ d.rcvd[k + 1] = k + 1
         /\ \A i \in 1 .. k : d.rcvd[i] = a.rcvd[i]
    BY <2>11, ConnFields
  <2>16. Taken(d)
    <3>1. ((k % Mod) + 1) % Mod = (k + 1) % Mod
      <4> HIDE DEF k
      <4>1. k \in Int /\ 1 \in Int
        BY <2>4
      <4> QED BY <4>1, ModSum
    <3>2. d.vr = Len(d.rcvd) % Mod
      BY <2>4, <2>11, <2>15, <3>1
    <3>3. ASSUME NEW i \in 1 .. k + 1 PROVE d.rcvd[i] = i
      <4>1. a.rcvd \in Seq(Nat) /\ DOMAIN a.rcvd = 1 .. k
        BY ConnFields
      <4>2. CASE i \in 1 .. k
        BY <2>15, <4>1, <4>2, AgreeFacts DEF Taken
      <4> QED BY <2>4, <2>15, <4>2
    <3> QED BY <2>15, <3>2, <3>3 DEF Taken
  <2>17. Between(d, b) /\ Between(b, d)
    BY <2>4, <2>9, <2>11, <2>12, <2>15, AgreeFacts DEF Between
  <2>18. ASSUME NEW g \in Passing(a, b) PROVE g \in Passing(d, b)
    <3> DEFINE n == AckOf(b, g)
    <3>1. g \in Frame
      BY DEF Passing
    <3>2. n \in Nat
      <4>1. Framed(b)
        BY AgreeFacts
      <4> QED BY <3>1, <4>1, AckFacts
    <3>3. g.type \in Data => n <= k
      BY DEF Passing
    <3> HIDE DEF n, k
    <3>4. g.type \in Data => n <= Len(d.rcvd)
      BY <2>4, <2>15, <3>2, <3>3
    <3>5. g.type = "I" => /\ g.data \in 1 .. a.sent /\ g.ns = (g.data - 1) % Mod
                          /\ Len(b.rcvd) < g.data + Window
      BY DEF Passing
    <3> QED BY <2>11, <3>1, <3>4, <3>5, Zenon DEF Passing, n
  <2>19. ASSUME NEW i \in DOMAIN q PROVE q[i] \in Passing(b, d)
    <3>1. q[i] \in Passing(b, a) /\ q[i] \in Frame
      BY <1>1, <2>2
    <3>2. q[i].type = "I" => k + 1 < q[i].data + Window
      <4>1. CASE i = 1
        BY <1>1, <2>4, <2>9, <4>1, ModIsSmall
      <4>2. CASE i > 1
        <5>1. <<q[1], q[i]>> \in Before(a)
          BY <1>1, <2>1, <4>2 DEF LinedFrom
        <5> QED BY <1>1, <2>9, <5>1 DEF Before
      <4> QED BY <1>1, <4>1, <4>2
    <3> QED BY <2>14, <2>15, <3>1, <3>2 DEF Passing
  <2>20. Before(d) = Before(a)
    BY <2>14 DEF Before
  <2>21. LinedFrom(q, 0, Passing(b, d), Before(d))
    BY <2>1, <2>19, <2>20 DEF LinedFrom
  <2>22. LinedFrom(p, u, Passing(d, b), Before(b))
    BY <2>18 DEF Agree, OneWay, LinedFrom
  <2>23. Agree(d, b, p, u, q, 0)
    BY <2>13, <2>16, <2>17, <2>21, <2>22, AgreeFacts, Zenon DEF Agree, OneWay
  <2>24. d.vr = Answer(a, f).nr
    BY <1>3, <2>11 DEF Answer, SFrame
  <2> QED BY <2>11, <2>12, <2>23, <2>24 DEF d
<1> QED BY <1>2, <1>3

\* _pump_tx moves the window.
LEMMA Pumps ==
  ASSUME NEW a \in Conn, NEW b \in Conn, NEW p, NEW q, NEW u, NEW v, Agree(a, b, p, u, q, v)
  PROVE  /\ Agree(Pump(a), b, p, u, q, v) /\ Acked(Pump(a)) = Acked(a)
         /\ PumpCount(a) \in Nat /\ Pump(a).sent = a.sent + PumpCount(a)
<1> DEFINE d == Pump(a)
           m == PumpCount(a)
<1>1. m \in Nat /\ a.sent \in Nat
  BY PumpCountType, AgreeFacts
<1>2. d.va = a.va /\ d.rcvd = a.rcvd /\ d.vr = a.vr /\ d.sent = a.sent + m
  BY PumpFields
<1>3. FramedFrom(d, Acked(a)) /\ d \in Conn
  <2>1. Framed(a)
    BY AgreeFacts
  <2>2. d \in Conn
    BY PumpConn
  <2> QED BY <2>1, <2>2, PumpFramed
<1> HIDE DEF d, m
<1>4. Framed(d) /\ Acked(d) = Acked(a)
  BY <1>3, FramedOnce
<1>5. \A f : AckOf(d, f) = AckOf(a, f)
  BY <1>2, <1>4 DEF AckOf
<1>6. Before(d) = Before(a)
  BY <1>5 DEF Before
<1>7. Passing(b, d) = Passing(b, a)
  BY <1>2, <1>5 DEF Passing
<1>8. ASSUME NEW f \in Passing(a, b) PROVE f \in Passing(d, b)
  <2>1. \A x \in 1 .. a.sent : x \in 1 .. d.sent
    BY <1>1, <1>2
  <2> QED BY <1>2, <2>1 DEF Passing
<1>9. LinedFrom(p, u, Passing(d, b), Before(b))
  BY <1>8 DEF Agree, OneWay, LinedFrom
<1>10. Between(d, b) /\ Between(b, d)
  <2>1. Len(b.rcvd) <= d.sent
    BY <1>1, <1>2, AgreeFacts
  <2> QED BY <1>2, <1>4, <2>1 DEF Agree, OneWay, Between
<1>11. Taken(d)
  BY <1>2 DEF Agree, OneWay, Taken
<1>12. Agree(d, b, p, u, q, v)
  BY <1>4, <1>6, <1>7, <1>9, <1>10, <1>11, Zenon DEF Agree, OneWay
<1> QED BY <1>1, <1>2, <1>4, <1>12 DEF d, m

(***************************************************************************)
(* Frames that a may send: data with its V(R), and of chunks that are not  *)
(* acknowledged, in the order of their numbers; and nothing that calls.    *)
(***************************************************************************)
Sendable(a, f) ==
  /\ f.type # "SABM" /\ f.inc = 0
  /\ f.type \in Data =>
       /\ f.nr = a.vr
       /\ f.type = "I" => f.data \in Acked(a) + 1 .. a.sent /\ f.ns = (f.data - 1) % Mod

Sends(a, out) ==
  /\ out \in Seq(Frame)
  /\ \A i \in DOMAIN out : Sendable(a, out[i])
  /\ \A i, j \in DOMAIN out :
       i < j /\ out[i].type = "I" /\ out[j].type = "I" => out[i].data < out[j].data

LEMMA SendsAgree ==
  ASSUME NEW a \in Conn, NEW b \in Conn, NEW p \in Seq(Frame), NEW q, NEW u \in Nat, NEW v,
         Agree(a, b, p, u, q, v), NEW out, Sends(a, out)
  PROVE  Agree(a, b, Put(p, out), u, q, v)
<1> DEFINE G == Passing(a, b)
           R == Before(b)
<1>1. /\ Framed(a) /\ Framed(b) /\ Taken(a) /\ Taken(b)
      /\ Len(a.rcvd) \in Nat /\ Len(b.rcvd) \in Nat /\ Mod \in Nat /\ Window \in Nat \ {0} /\ Window < Mod
      /\ Acked(a) \in Nat /\ a.sent \in Nat /\ Acked(b) \in Nat /\ b.sent \in Nat
      /\ a.sent <= Acked(a) + Window /\ b.sent <= Acked(b) + Window
      /\ Acked(a) <= Len(b.rcvd) /\ Len(b.rcvd) <= a.sent
      /\ Acked(b) <= Len(a.rcvd) /\ Len(a.rcvd) <= b.sent
  BY AgreeFacts
<1>2. LinedFrom(p, u, G, R)
  BY DEF Agree, OneWay
<1>3. out \in Seq(Frame) /\ \A i \in DOMAIN out : out[i] \in Frame /\ i \in Nat
  BY DEF Sends
<1>4. ASSUME NEW f \in Frame, f.type \in Data, Sendable(a, f)
      PROVE  AckOf(b, f) = Len(a.rcvd)
  <2>1. f.nr = Len(a.rcvd) % Mod
    BY <1>1, <1>4 DEF Sendable, Taken
  <2>2. Len(a.rcvd) < Acked(b) + Mod
    BY <1>1
  <2> QED BY <1>1, <2>1, <2>2, AckIs
<1>5. ASSUME NEW f \in Frame, Sendable(a, f) PROVE f \in G
  <2>1. ASSUME f.type = "I"
        PROVE  f.data \in 1 .. a.sent /\ f.ns = (f.data - 1) % Mod /\ Len(b.rcvd) < f.data + Window
    <3>1. f.data \in Acked(a) + 1 .. a.sent /\ f.ns = (f.data - 1) % Mod
      BY <1>5, <2>1 DEF Sendable, Data
    <3>2. f.data \in 1 .. a.sent /\ Len(b.rcvd) < f.data + Window
      <4>1. f.data \in Nat /\ Acked(a) < f.data /\ f.data <= a.sent
        BY <1>1, <3>1, SMTT(30)
      <4>2. Len(b.rcvd) <= Acked(a) + Window
        BY <1>1
      <4> QED BY <1>1, <4>1, <4>2
    <3> QED BY <3>1, <3>2
  <2>2. f.type \in Data => AckOf(b, f) <= Len(a.rcvd)
    BY <1>1, <1>4, <1>5
  <2> QED BY <2>1, <2>2 DEF Passing
<1>6. ASSUME NEW g \in G, NEW f \in Frame, Sendable(a, f) PROVE <<g, f>> \in R
  <2>1. g \in Frame
    BY DEF Passing
  <2>2. ASSUME g.type = "I", f.type = "I" PROVE g.data < f.data + Window
    <3>1. f.data \in Acked(a) + 1 .. a.sent /\ g.data \in 1 .. a.sent
      BY <1>6, <2>2 DEF Sendable, Data, Passing
    <3>2. Acked(a) \in Nat /\ a.sent \in Nat /\ Window \in Nat /\ a.sent <= Acked(a) + Window
      BY <1>1
    <3>3. Acked(a) < f.data /\ g.data <= a.sent /\ f.data \in Nat /\ g.data \in Nat
      BY <3>1, <3>2
    <3> QED BY <3>2, <3>3
  <2>3. ASSUME g.type \in Data, f.type \in Data PROVE AckOf(b, g) <= AckOf(b, f)
    <3>1. AckOf(b, f) = Len(a.rcvd)
      BY <1>4, <1>6, <2>3
    <3> QED BY <2>3, <3>1 DEF Passing
  <2> QED BY <2>1, <2>2, <2>3 DEF Before
<1>7. ASSUME NEW i \in DOMAIN out, NEW j \in DOMAIN out, i < j PROVE <<out[i], out[j]>> \in R
  <2>1. /\ out[i] \in Frame /\ out[j] \in Frame /\ Sendable(a, out[i]) /\ Sendable(a, out[j])
    BY <1>3 DEF Sends
  <2>2. ASSUME out[i].type = "I", out[j].type = "I" PROVE out[i].data < out[j].data + Window
    <3>1. out[i].data < out[j].data
      BY <1>7, <2>2 DEF Sends
    <3>2. out[i].data \in Nat /\ out[j].data \in Nat
      BY <2>1 DEF Frame
    <3> QED BY <1>1, <3>1, <3>2
  <2>3. ASSUME out[i].type \in Data, out[j].type \in Data PROVE AckOf(b, out[i]) <= AckOf(b, out[j])
    <3>1. AckOf(b, out[i]) = Len(a.rcvd) /\ AckOf(b, out[j]) = Len(a.rcvd)
      BY <1>4, <2>1, <2>3
    <3> QED BY <1>1, <3>1
  <2> QED BY <2>1, <2>2, <2>3 DEF Before
<1> HIDE DEF G, R
<1>8. Follows(p, u, out, G, R)
  <2>1. ASSUME NEW j \in DOMAIN out PROVE out[j] \in G /\ \A i \in DOMAIN p : u < i => <<p[i], out[j]>> \in R
    <3>1. out[j] \in Frame /\ Sendable(a, out[j])
      BY <1>3 DEF Sends
    <3>2. ASSUME NEW i \in DOMAIN p, u < i PROVE <<p[i], out[j]>> \in R
      <4>1. p[i] \in G
        BY <1>2, <3>2 DEF LinedFrom
      <4> QED BY <1>6, <3>1, <4>1
    <3> QED BY <1>5, <3>1, <3>2
  <2> QED BY <1>7, <2>1 DEF Follows
<1>9. LinedFrom(Put(p, out), u, G, R)
  BY <1>2, <1>3, <1>8, LinedPut
<1> QED BY <1>9, Zenon DEF Agree, OneWay, G, R

\* A frame is received or lost.
LEMMA HeadGone ==
  ASSUME NEW a, NEW b, NEW p, NEW u, NEW q \in Seq(Frame), q # <<>>, NEW v \in Nat, NEW w \in Nat,
         w + 1 >= v, Agree(a, b, p, u, q, v)
  PROVE  Agree(a, b, p, u, Tail(q), w)
<1>1. LinedFrom(q, v, Passing(b, a), Before(a))
  BY DEF Agree, OneWay
<1>2. LinedFrom(Tail(q), w, Passing(b, a), Before(a))
  BY <1>1, LinedTail
<1> QED BY <1>2, Zenon DEF Agree, OneWay

(***************************************************************************)
(* A link that comes up, with no data on the path.                         *)
(***************************************************************************)
Fresh(c) ==
  /\ c.vs = 0 /\ c.vr = 0 /\ c.va = 0 /\ c.sent = 0 /\ c.rcvd = <<>>
  /\ \A n \in SeqNo : c.unacked[n] = None

NoData(q, u) == \A i \in DOMAIN q : i > u => q[i].type \notin Data

LEMMA FreshFramed ==
  ASSUME NEW c \in Conn, Fresh(c)
  PROVE  /\ Framed(c) /\ Taken(c) /\ Acked(c) = 0 /\ Outstanding(c) = 0
<1>1. 0 \in SeqNo /\ 0 % Mod = 0
  BY SeqNoInt, ModSmall
<1>2. FramedFrom(c, 0)
  BY <1>1, ModIsSmall DEF Fresh, FramedFrom
<1>3. Framed(c) /\ Acked(c) = 0 /\ Outstanding(c) = 0
  BY <1>2, FramedOnce DEF Fresh
<1>4. Taken(c)
  BY <1>1 DEF Fresh, Taken
<1> QED BY <1>3, <1>4

LEMMA FreshAgree ==
  ASSUME NEW a \in Conn, NEW b \in Conn, Fresh(a), Fresh(b), NEW p \in Seq(Frame), NEW q \in Seq(Frame),
         NEW u \in Nat, NEW v \in Nat, NoData(p, u), NoData(q, v)
  PROVE  Agree(a, b, p, u, q, v)
<1>1. /\ Framed(a) /\ Taken(a) /\ Acked(a) = 0 /\ Framed(b) /\ Taken(b) /\ Acked(b) = 0
  BY FreshFramed
<1>2. Between(a, b) /\ Between(b, a)
  BY <1>1 DEF Fresh, Between
<1>3. ASSUME NEW f \in Frame, f.type \notin Data, NEW c, NEW d PROVE f \in Passing(c, d)
  BY <1>3 DEF Passing, Data
<1>4. ASSUME NEW f \in Frame, NEW g \in Frame, f.type \notin Data, g.type \notin Data, NEW d
      PROVE  <<f, g>> \in Before(d)
  BY <1>4 DEF Before, Data
<1>5. ASSUME NEW r \in Seq(Frame), NEW w \in Nat, NoData(r, w), NEW c, NEW d
      PROVE  LinedFrom(r, w, Passing(c, d), Before(d))
  <2>1. ASSUME NEW i \in DOMAIN r, i > w PROVE r[i] \in Frame /\ r[i].type \notin Data
    BY <1>5, <2>1 DEF NoData
  <2>2. ASSUME NEW i \in DOMAIN r, i > w PROVE r[i] \in Passing(c, d)
    BY <1>3, <2>1, <2>2
  <2>3. ASSUME NEW i \in DOMAIN r, NEW j \in DOMAIN r, w < i, i < j PROVE <<r[i], r[j]>> \in Before(d)
    <3>1. i > w /\ j > w
      BY <2>3
    <3> QED BY <1>4, <2>1, <3>1
  <2> QED BY <2>2, <2>3 DEF LinedFrom
<1>6. LinedFrom(p, u, Passing(a, b), Before(b)) /\ LinedFrom(q, v, Passing(b, a), Before(a))
  BY <1>5
<1> QED BY <1>1, <1>2, <1>6 DEF Agree, OneWay

-----------------------------------------------------------------------------
(***************************************************************************)
(* What the handlers send is what they may send.                           *)
(***************************************************************************)
LEMMA SendsSame ==
  ASSUME NEW c, NEW d, SameData(c, d), NEW out, Sends(c, out)
  PROVE  Sends(d, out)
<1>1. Acked(d) = Acked(c) /\ d.sent = c.sent /\ d.vr = c.vr
  BY SameWindow DEF SameData
<1>2. \A f : Sendable(c, f) => Sendable(d, f)
  BY <1>1 DEF Sendable
<1> QED BY <1>2, Zenon DEF Sends

LEMMA SendsNothing == \A c : Sends(c, <<>>)
BY DEF Sends

\* One frame without data.
LEMMA SendsOne ==
  ASSUME NEW c, NEW f \in Frame, f.type \notin {"I", "SABM"}, f.inc = 0, f.type \in Data => f.nr = c.vr
  PROVE  Sends(c, <<f>>)
BY DEF Sends, Sendable

LEMMA UFrameFields ==
  ASSUME NEW t, NEW k
  PROVE  UFrame(t, k).type = t /\ UFrame(t, k).inc = k
BY DEF UFrame

LEMMA SFrameFields ==
  ASSUME NEW t, NEW k
  PROVE  SFrame(t, k).type = t /\ SFrame(t, k).nr = k /\ SFrame(t, k).inc = 0
BY DEF SFrame

LEMMA PumpSends ==
  ASSUME NEW c \in Conn, Framed(c)
  PROVE  Sends(Pump(c), PumpFrames(c))
<1> DEFINE m == PumpCount(c)
           d == Pump(c)
           out == PumpFrames(c)
<1>1. /\ m \in Nat /\ c.sent \in Nat /\ Acked(c) \in Nat /\ Acked(c) <= c.sent
      /\ FramedFrom(c, Acked(c)) /\ c.vs = c.sent % Mod
  BY PumpFits, FramedFacts DEF FramedFrom
<1>2. d \in Conn /\ FramedFrom(d, Acked(c)) /\ d.vr = c.vr /\ d.sent = c.sent + m
  BY PumpConn, PumpFramed, PumpFields
<1>3. Acked(d) = Acked(c)
  <2> HIDE DEF d
  <2> QED BY <1>2, FramedOnce
<1>4. out \in Seq(Frame)
  BY PumpFramesType
<1>5. /\ DOMAIN out = 1 .. m
      /\ \A i \in 1 .. m : out[i] = IFrame((c.vs + i - 1) % Mod, c.vr, c.sent + i)
  BY DEF PumpFrames
<1> HIDE DEF m, d, out
<1>6. ASSUME NEW i \in 1 .. m
      PROVE  /\ out[i].type = "I" /\ out[i].nr = d.vr /\ out[i].data = c.sent + i /\ out[i].inc = 0
             /\ out[i].ns = (out[i].data - 1) % Mod /\ out[i].data \in Acked(d) + 1 .. d.sent
  <2>1. PICK x \in Int, y \in Int : x = i - 1 /\ y = c.sent + i
    BY <1>1
  <2>2. c.vs + i - 1 = (c.sent % Mod) + x /\ c.sent + x = y - 1
    BY <1>1, <2>1, ModInSeqNo, SeqNoInt
  <2>3. ((c.sent % Mod) + x) % Mod = (c.sent + x) % Mod
    <3>1. c.sent \in Int
      BY <1>1
    <3> QED BY <3>1, ModSum
  <2>4. /\ out[i].type = "I" /\ out[i].nr = c.vr /\ out[i].data = c.sent + i /\ out[i].inc = 0
        /\ out[i].ns = (c.vs + i - 1) % Mod
    BY <1>5 DEF IFrame
  <2>5. out[i].ns = (y - 1) % Mod
    BY <2>2, <2>3, <2>4, Zenon
  <2>6. c.sent + i \in Acked(d) + 1 .. d.sent
    BY <1>1, <1>2, <1>3
  <2>7. out[i].ns = (out[i].data - 1) % Mod
    <3>1. out[i].data = y
      BY <2>1, <2>4
    <3> QED BY <2>5, <3>1
  <2> QED BY <1>2, <2>4, <2>6, <2>7
<1>7. \A i \in DOMAIN out : Sendable(d, out[i])
  BY <1>5, <1>6 DEF Sendable
<1>8. ASSUME NEW i \in 1 .. m, NEW j \in 1 .. m, i < j PROVE out[i].data < out[j].data
  BY <1>1, <1>6, <1>8
<1> QED BY <1>4, <1>5, <1>7, <1>8 DEF Sends, d, out

\* An answer, and then what the window lets go.
LEMMA AnswerSends ==
  ASSUME NEW c \in Conn, NEW f \in Frame, f.type \notin {"I", "SABM"}, f.inc = 0, f.nr = c.vr,
         NEW out, Sends(c, out)
  PROVE  Sends(c, <<f>> \o out)
<1> DEFINE w == <<f>> \o out
<1>1. out \in Seq(Frame)
  BY DEF Sends
<1>2. /\ w \in Seq(Frame) /\ Len(out) \in Nat /\ DOMAIN w = 1 .. Len(out) + 1 /\ DOMAIN out = 1 .. Len(out)
      /\ w[1] = f /\ \A i \in 2 .. Len(out) + 1 : w[i] = out[i - 1]
  BY <1>1
<1> HIDE DEF w
<1>3. ASSUME NEW i \in DOMAIN w PROVE \/ i = 1 /\ w[i] = f
                                      \/ i - 1 \in DOMAIN out /\ w[i] = out[i - 1] /\ i > 1
  BY <1>2
<1>4. Sendable(c, f)
  BY DEF Sendable
<1>5. ASSUME NEW i \in DOMAIN w PROVE Sendable(c, w[i])
  BY <1>3, <1>4 DEF Sends
<1>6. ASSUME NEW i \in DOMAIN w, NEW j \in DOMAIN w, i < j, w[i].type = "I", w[j].type = "I"
      PROVE  w[i].data < w[j].data
  <2>1. i - 1 \in DOMAIN out /\ w[i] = out[i - 1] /\ j - 1 \in DOMAIN out /\ w[j] = out[j - 1]
    BY <1>2, <1>3, <1>6
  <2>2. i - 1 < j - 1
    BY <1>2, <1>6
  <2> QED BY <1>6, <2>1, <2>2 DEF Sends
<1> QED BY <1>2, <1>5, <1>6 DEF Sends, w

\* _retransmit_from V(A): every frame held, each once, in order.
LEMMA RetransmissionsSend ==
  ASSUME NEW c \in Conn, Framed(c), NEW out \in Retransmissions(c, c.va)
  PROVE  Sends(c, out)
<1> DEFINE k == Acked(c)
           H == HeldFrom(c, c.va)
<1>1. /\ k \in Nat /\ c.sent \in Nat /\ k <= c.sent /\ c.sent <= k + Window /\ Window < Mod /\ Window \in Nat
      /\ Mod \in Nat /\ FramedFrom(c, k) /\ Outstanding(c) = c.sent - k
  BY FramedFacts, ModIsSmall
<1> HIDE DEF k
<1>2. c.va = k % Mod /\ c.va \in SeqNo /\ Dist(c.va, c.vs) = c.sent - k
  BY <1>1, ConnFields DEF FramedFrom, Outstanding
<1>3. H \subseteq 0 .. c.sent - k - 1
  BY <1>2 DEF HeldFrom
<1>4. out \in Seq(Frame)
  BY <1>2, RetransmissionsType
<1>5. PICK q \in Increasing(H) :
        out = [i \in DOMAIN q |-> LET n == (c.va + q[i]) % Mod IN IFrame(n, c.vr, c.unacked[n])]
  BY DEF Retransmissions
<1>6. /\ q \in [1 .. Cardinality(H) -> H]
      /\ \A i, j \in DOMAIN q : i < j => q[i] < q[j]
  BY DEF Increasing
<1> HIDE DEF H
<1>7. DOMAIN out = DOMAIN q /\ \A i \in DOMAIN q : q[i] \in 0 .. c.sent - k - 1
  BY <1>3, <1>5, <1>6
<1>8. ASSUME NEW i \in DOMAIN q
      PROVE  /\ out[i].type = "I" /\ out[i].nr = c.vr /\ out[i].data = k + q[i] + 1 /\ out[i].inc = 0
             /\ out[i].ns = (out[i].data - 1) % Mod /\ out[i].data \in k + 1 .. c.sent
  <2>1. PICK x \in Nat : x = q[i] /\ x <= c.sent - k - 1
    BY <1>1, <1>7
  <2>2. PICK y \in Nat : y = k + x
    BY <1>1
  <2>3. ((k % Mod) + x) % Mod = (k + x) % Mod
    <3>1. k \in Int /\ x \in Int
      BY <1>1
    <3> QED BY <3>1, ModSum
  <2>4. (c.va + q[i]) % Mod = y % Mod
    BY <1>2, <2>1, <2>2, <2>3, Zenon
  <2>5. c.unacked[y % Mod] = y + 1
    <3>1. y + 1 \in k + 1 .. c.sent /\ (y + 1) - 1 = y
      BY <1>1, <2>1, <2>2
    <3> QED BY <1>1, <3>1 DEF FramedFrom
  <2>6. out[i] = IFrame(y % Mod, c.vr, y + 1)
    BY <1>5, <2>4, <2>5
  <2>7. /\ out[i].type = "I" /\ out[i].nr = c.vr /\ out[i].data = y + 1 /\ out[i].ns = y % Mod
        /\ out[i].inc = 0
    BY <2>6 DEF IFrame
  <2>8. y + 1 \in k + 1 .. c.sent /\ (y + 1) - 1 = y /\ y + 1 = k + q[i] + 1
    BY <1>1, <2>1, <2>2
  <2> QED BY <2>7, <2>8
<1>9. \A i \in DOMAIN out : Sendable(c, out[i])
  BY <1>7, <1>8 DEF Sendable, k
<1>10. ASSUME NEW i \in DOMAIN out, NEW j \in DOMAIN out, i < j PROVE out[i].data < out[j].data
  <2>1. q[i] < q[j] /\ q[i] \in Int /\ q[j] \in Int
    BY <1>1, <1>6, <1>7, <1>10
  <2>2. out[i].data = k + q[i] + 1 /\ out[j].data = k + q[j] + 1
    BY <1>7, <1>8
  <2> QED BY <1>1, <2>1, <2>2
<1> QED BY <1>4, <1>9, <1>10 DEF Sends

-----------------------------------------------------------------------------
(***************************************************************************)
(* The numbers of calls.  c and d are the ends, p and q the frames each    *)
(* has on the way, n calls have been made.                                 *)
(***************************************************************************)

\* A SABM is not the one c's link came up with, nor later than its last;
CallOf(c, n) ==
  {f \in Frame : /\ f.inc <= n
                 /\ f.type = "SABM" => f.inc # 0 /\ f.inc # c.inc /\ f.inc <= c.sabm}

\* SABMs go out in order, and after the one that waits for its UA nothing but
\* answers.
CallsBefore(c) ==
  {p \in Frame \X Frame : p[1].type = "SABM" =>
     /\ p[2].type = "SABM" => p[1].inc < p[2].inc
     /\ c.state = "AWAITING_CONNECT" /\ p[1].inc = c.sabm => p[2].type \in {"UA", "DM"}}

CallsOf(c, p, n) ==
  c.inc <= n /\ c.sabm <= n /\ LinedFrom(p, 0, CallOf(c, n), CallsBefore(c))

\* No call has been answered before it has arrived.
Apart(p, q) ==
  \A i \in DOMAIN p, j \in DOMAIN q :
    p[i].type = "SABM" /\ q[j].type \in {"UA", "SABM"} => p[i].inc # q[j].inc

Numbered(c, d, p, q, n) ==
  /\ CallsOf(c, p, n) /\ CallsOf(d, q, n) /\ Apart(p, q) /\ Apart(q, p)
  /\ c.sabm = d.sabm => c.sabm = 0

LEMMA NumberedBoth ==
  ASSUME NEW c, NEW d, NEW p, NEW q, NEW n, Numbered(c, d, p, q, n)
  PROVE  Numbered(d, c, q, p, n)
BY DEF Numbered

LEMMA TailAt ==
  ASSUME NEW q \in Seq(Frame), q # <<>>
  PROVE  /\ Tail(q) \in Seq(Frame) /\ Head(q) = q[1] /\ Head(q) \in Frame /\ 1 \in DOMAIN q
         /\ Len(q) \in Nat \ {0} /\ DOMAIN q = 1 .. Len(q) /\ DOMAIN Tail(q) = 1 .. Len(q) - 1
         /\ \A i \in DOMAIN Tail(q) : i + 1 \in DOMAIN q /\ Tail(q)[i] = q[i + 1]
OBVIOUS

LEMMA NumberedTail ==
  ASSUME NEW c, NEW d, NEW p, NEW q \in Seq(Frame), q # <<>>, NEW n, Numbered(c, d, p, q, n)
  PROVE  Numbered(c, d, p, Tail(q), n)
<1>1. LinedFrom(Tail(q), 0, CallOf(d, n), CallsBefore(d))
  BY LinedTail DEF Numbered, CallsOf
<1>2. Apart(p, Tail(q)) /\ Apart(Tail(q), p)
  BY TailAt DEF Numbered, Apart
<1> QED BY <1>1, <1>2 DEF Numbered, CallsOf

\* An end becomes e and sends frames that do not call.
LEMMA NumberedStep ==
  ASSUME NEW c, NEW d, NEW p \in Seq(Frame), NEW q \in Seq(Frame), NEW n, Numbered(c, d, p, q, n),
         NEW e, e.sabm = c.sabm, e.inc <= n,
         e.state = "AWAITING_CONNECT" => c.state = "AWAITING_CONNECT",
         \A i \in DOMAIN p : p[i].type = "SABM" => p[i].inc # e.inc,
         NEW out \in Seq(Frame),
         \A i \in DOMAIN out : /\ out[i].type # "SABM" /\ out[i].inc <= n
                               /\ e.state = "AWAITING_CONNECT" => out[i].type \in {"UA", "DM"},
         Apart(q, out)
  PROVE  Numbered(e, d, Put(p, out), q, n)
<1>1. LinedFrom(p, 0, CallOf(e, n), CallsBefore(e))
  BY DEF Numbered, CallsOf, LinedFrom, CallOf, CallsBefore
<1>2. Follows(p, 0, out, CallOf(e, n), CallsBefore(e))
  <2>1. ASSUME NEW j \in DOMAIN out PROVE out[j] \in CallOf(e, n)
    BY DEF CallOf
  <2>2. ASSUME NEW f \in Frame, NEW j \in DOMAIN out PROVE <<f, out[j]>> \in CallsBefore(e)
    BY DEF CallsBefore
  <2> QED BY <2>1, <2>2 DEF Follows
<1>3. LinedFrom(Put(p, out), 0, CallOf(e, n), CallsBefore(e))
  BY <1>1, <1>2, LinedPut
<1>4. Apart(Put(p, out), q) /\ Apart(q, Put(p, out))
  <2>1. \A k \in DOMAIN Put(p, out) : \/ \E i \in DOMAIN p : Put(p, out)[k] = p[i]
                                      \/ \E i \in DOMAIN out : Put(p, out)[k] = out[i]
    BY PutFrom
  <2> QED BY <2>1 DEF Numbered, Apart
<1> QED BY <1>3, <1>4 DEF Numbered, CallsOf

\* An end calls, for the first time or again.
LEMMA NumberedCall ==
  ASSUME NEW c \in Conn, NEW d \in Conn, NEW p \in Seq(Frame), NEW q \in Seq(Frame), NEW n \in Nat,
         Numbered(c, d, p, q, n),
         NEW m \in Nat, m = n + 1, NEW e, e.sabm = m, e.inc = c.inc,
         NEW f \in Frame, f.type = "SABM", f.inc = m
  PROVE  Numbered(e, d, Put(p, <<f>>), q, m)
<1>1. c.inc \in Nat /\ c.sabm \in Nat /\ d.inc \in Nat /\ d.sabm \in Nat
  BY ConnFields
<1>2. c.inc <= n /\ c.sabm <= n /\ d.inc <= n /\ d.sabm <= n
  BY DEF Numbered, CallsOf
<1>3. \A g \in Frame : g.inc \in Nat
  BY DEF Frame
<1>4. /\ \A i \in DOMAIN p : p[i] \in CallOf(c, n) /\ p[i] \in Frame /\ i \in Nat /\ i > 0
      /\ \A i \in DOMAIN q : q[i] \in CallOf(d, n) /\ q[i] \in Frame /\ i \in Nat /\ i > 0
  BY DEF Numbered, CallsOf, LinedFrom
<1>5. /\ \A i \in DOMAIN p : p[i].inc < m /\ p[i].inc # m
      /\ \A i \in DOMAIN q : q[i].inc < m /\ q[i].inc # m
  BY <1>3, <1>4 DEF CallOf
<1>6. LinedFrom(p, 0, CallOf(e, m), CallsBefore(e))
  <2>1. ASSUME NEW i \in DOMAIN p PROVE p[i] \in CallOf(e, m)
    BY <1>1, <1>2, <1>3, <1>4 DEF CallOf
  <2>2. ASSUME NEW i \in DOMAIN p, NEW j \in DOMAIN p, 0 < i, i < j PROVE <<p[i], p[j]>> \in CallsBefore(e)
    <3>1. <<p[i], p[j]>> \in CallsBefore(c)
      BY <2>2 DEF Numbered, CallsOf, LinedFrom
    <3> QED BY <1>5, <3>1 DEF CallsBefore
  <2> QED BY <2>1, <2>2 DEF LinedFrom
<1>7. Follows(p, 0, <<f>>, CallOf(e, m), CallsBefore(e))
  <2>1. f \in CallOf(e, m)
    BY <1>1, <1>2 DEF CallOf
  <2>2. ASSUME NEW i \in DOMAIN p PROVE <<p[i], f>> \in CallsBefore(e)
    BY <1>4, <1>5 DEF CallsBefore
  <2> QED BY <2>1, <2>2 DEF Follows
<1>8. LinedFrom(Put(p, <<f>>), 0, CallOf(e, m), CallsBefore(e))
  <2>1. <<f>> \in Seq(Frame) /\ 0 \in Nat
    OBVIOUS
  <2> QED BY <1>6, <1>7, <2>1, LinedPut
<1>9. LinedFrom(q, 0, CallOf(d, m), CallsBefore(d))
  <2>1. ASSUME NEW i \in DOMAIN q PROVE q[i] \in CallOf(d, m)
    BY <1>3, <1>4 DEF CallOf
  <2> QED BY <2>1 DEF Numbered, CallsOf, LinedFrom
<1>10. Apart(Put(p, <<f>>), q) /\ Apart(q, Put(p, <<f>>))
  <2>1. \A k \in DOMAIN Put(p, <<f>>) : \/ \E i \in DOMAIN p : Put(p, <<f>>)[k] = p[i]
                                        \/ Put(p, <<f>>)[k] = f
    <3>1. <<f>> \in Seq(Frame) /\ \A i \in DOMAIN <<f>> : <<f>>[i] = f
      OBVIOUS
    <3> QED BY <3>1, PutFrom, ZenonT(60)
  <2> QED BY <1>5, <2>1 DEF Numbered, Apart
<1>11. e.inc <= m /\ e.sabm <= m /\ d.inc <= m /\ d.sabm <= m /\ e.sabm # d.sabm
  BY <1>1, <1>2
<1> QED BY <1>8, <1>9, <1>10, <1>11 DEF Numbered, CallsOf

-----------------------------------------------------------------------------
(***************************************************************************)
(* The invariant of the two ends c and d, the frames p from c to d and q   *)
(* from d to c, and the number n of calls made.                            *)
(***************************************************************************)

\* Both ends are up with the same call: they agree.
CleanOk(c, d, p, q) ==
  /\ c.state = "CONNECTED" /\ d.state = "CONNECTED" /\ c.inc # 0 /\ c.inc = d.inc
  => Agree(c, d, p, 0, q, 0) /\ Timed(c) /\ Timed(d)

\* d has answered c's last call: nothing but answers follows the call, and c will
\* agree with d as of the UA that answers it.
Waits(c, d) ==
  c.state = "AWAITING_CONNECT" /\ d.state = "CONNECTED" /\ d.inc = c.sabm /\ c.sabm # 0

HalfOk(c, d, p, q) ==
  Waits(c, d) =>
    /\ \A i \in DOMAIN p : p[i].type \in {"UA", "DM"}
    /\ \A u \in DOMAIN q : q[u].type = "UA" /\ q[u].inc = c.sabm =>
         Agree(Reset(c), d, p, 0, q, u) /\ Timed(d)

LinkOk(c, d, p, q, n) ==
  /\ CleanOk(c, d, p, q) /\ HalfOk(c, d, p, q) /\ HalfOk(d, c, q, p)
  /\ Numbered(c, d, p, q, n)

LEMMA LinkBoth ==
  ASSUME NEW c, NEW d, NEW p, NEW q, NEW n, LinkOk(c, d, p, q, n)
  PROVE  LinkOk(d, c, q, p, n)
<1>1. CleanOk(d, c, q, p)
  BY AgreeBoth, Zenon DEF LinkOk, CleanOk
<1>2. Numbered(d, c, q, p, n)
  BY NumberedBoth DEF LinkOk
<1> QED BY <1>1, <1>2 DEF LinkOk

\* A frame from d is gone.
LEMMA LinkTail ==
  ASSUME NEW c, NEW d, NEW p, NEW q \in Seq(Frame), q # <<>>, NEW n, LinkOk(c, d, p, q, n)
  PROVE  LinkOk(c, d, p, Tail(q), n)
<1> DEFINE r == Tail(q)
<1>1. /\ DOMAIN q = 1 .. Len(q) /\ DOMAIN r = 1 .. Len(q) - 1 /\ Len(q) \in Nat \ {0}
      /\ \A i \in DOMAIN r : i + 1 \in DOMAIN q /\ r[i] = q[i + 1] /\ i \in Nat
  BY TailAt
<1>2. 0 \in Nat /\ 0 + 1 >= 0
  OBVIOUS
<1>3. ASSUME NEW a, NEW b, NEW o, NEW u, NEW v \in Nat, NEW w \in Nat, w + 1 >= v, Agree(a, b, o, u, q, v)
      PROVE  Agree(a, b, o, u, r, w)
  BY <1>3, HeadGone
<1> HIDE DEF r
<1>4. CleanOk(c, d, p, r)
  BY <1>2, <1>3, Zenon DEF LinkOk, CleanOk
<1>5. HalfOk(c, d, p, r)
  <2> SUFFICES ASSUME Waits(c, d)
               PROVE  /\ \A i \in DOMAIN p : p[i].type \in {"UA", "DM"}
                      /\ \A u \in DOMAIN r : r[u].type = "UA" /\ r[u].inc = c.sabm =>
                           Agree(Reset(c), d, p, 0, r, u) /\ Timed(d)
    BY Zenon DEF HalfOk
  <2>1. /\ \A i \in DOMAIN p : p[i].type \in {"UA", "DM"}
        /\ \A u \in DOMAIN q : q[u].type = "UA" /\ q[u].inc = c.sabm =>
             Agree(Reset(c), d, p, 0, q, u) /\ Timed(d)
    BY Zenon DEF LinkOk, HalfOk
  <2>2. ASSUME NEW u \in DOMAIN r, r[u].type = "UA", r[u].inc = c.sabm
        PROVE  Agree(Reset(c), d, p, 0, r, u) /\ Timed(d)
    <3>1. u + 1 \in DOMAIN q /\ r[u] = q[u + 1] /\ u \in Nat /\ u + 1 \in Nat /\ u + 1 >= u + 1
      BY <1>1
    <3>2. Agree(Reset(c), d, p, 0, q, u + 1) /\ Timed(d)
      BY <2>1, <2>2, <3>1, Zenon
    <3> QED BY <1>3, <3>1, <3>2, Zenon
  <2> QED BY <2>1, <2>2
<1>6. HalfOk(d, c, r, p)
  <2> SUFFICES ASSUME Waits(d, c)
               PROVE  /\ \A i \in DOMAIN r : r[i].type \in {"UA", "DM"}
                      /\ \A u \in DOMAIN p : p[u].type = "UA" /\ p[u].inc = d.sabm =>
                           Agree(Reset(d), c, r, 0, p, u) /\ Timed(c)
    BY Zenon DEF HalfOk
  <2>1. /\ \A i \in DOMAIN q : q[i].type \in {"UA", "DM"}
        /\ \A u \in DOMAIN p : p[u].type = "UA" /\ p[u].inc = d.sabm =>
             Agree(Reset(d), c, q, 0, p, u) /\ Timed(c)
    BY Zenon DEF LinkOk, HalfOk
  <2>2. \A i \in DOMAIN r : r[i].type \in {"UA", "DM"}
    BY <1>1, <2>1
  <2>3. ASSUME NEW u \in DOMAIN p, p[u].type = "UA", p[u].inc = d.sabm
        PROVE  Agree(Reset(d), c, r, 0, p, u) /\ Timed(c)
    <3>1. Agree(Reset(d), c, q, 0, p, u) /\ Timed(c)
      BY <2>1, <2>3, Zenon
    <3>2. Agree(c, Reset(d), p, u, r, 0)
      BY <1>2, <1>3, <3>1, AgreeBoth, Zenon
    <3> QED BY <3>1, <3>2, AgreeBoth, Zenon
  <2> QED BY <2>2, <2>3
<1>7. Numbered(c, d, p, r, n)
  BY NumberedTail DEF LinkOk, r
<1> QED BY <1>4, <1>5, <1>6, <1>7 DEF LinkOk, r

\* What c sends calls nobody and answers no call.
Quiet(out) == out \in Seq(Frame) /\ \A i \in DOMAIN out : out[i].type # "SABM" /\ out[i].inc = 0

\* The numbers of calls are as they were.
LEMMA QuietNumbered ==
  ASSUME NEW c \in Conn, NEW d, NEW p \in Seq(Frame), NEW q \in Seq(Frame), NEW n \in Nat,
         Numbered(c, d, p, q, n),
         NEW e, e.sabm = c.sabm, e.inc = c.inc, e.state = "AWAITING_CONNECT" => c.state = "AWAITING_CONNECT",
         NEW out, Quiet(out), e.state = "AWAITING_CONNECT" => \A i \in DOMAIN out : out[i].type \in {"UA", "DM"}
  PROVE  Numbered(e, d, Put(p, out), q, n)
<1>1. /\ \A i \in DOMAIN p : p[i] \in CallOf(c, n) /\ i \in Nat /\ i > 0
      /\ \A i \in DOMAIN q : q[i] \in CallOf(d, n) /\ i \in Nat /\ i > 0
  BY DEF Numbered, CallsOf, LinedFrom
<1>2. \A i \in DOMAIN p : p[i].type = "SABM" => p[i].inc # e.inc
  BY <1>1 DEF CallOf
<1>3. Apart(q, out)
  BY <1>1 DEF CallOf, Apart, Quiet
<1>4. e.inc <= n
  BY DEF Numbered, CallsOf
<1>5. out \in Seq(Frame)
  BY DEF Quiet
<1>6. \A i \in DOMAIN out : /\ out[i].type # "SABM" /\ out[i].inc <= n
                            /\ e.state = "AWAITING_CONNECT" => out[i].type \in {"UA", "DM"}
  BY DEF Quiet
<1> QED BY <1>2, <1>3, <1>4, <1>5, <1>6, NumberedStep

\* The link is down or being released at c.
LEMMA LinkBroken ==
  ASSUME NEW c \in Conn, NEW d, NEW p \in Seq(Frame), NEW q \in Seq(Frame), NEW n \in Nat,
         LinkOk(c, d, p, q, n), NEW e, e.sabm = c.sabm, e.inc = c.inc,
         e.state \in {"DISCONNECTED", "AWAITING_RELEASE"}, NEW out, Quiet(out)
  PROVE  LinkOk(e, d, Put(p, out), q, n)
<1>1. e.state # "CONNECTED" /\ e.state # "AWAITING_CONNECT"
  OBVIOUS
<1>2. Numbered(e, d, Put(p, out), q, n)
  BY <1>1, QuietNumbered DEF LinkOk
<1>3. CleanOk(e, d, Put(p, out), q) /\ HalfOk(e, d, Put(p, out), q) /\ HalfOk(d, e, q, Put(p, out))
  BY <1>1, Zenon DEF CleanOk, HalfOk, Waits
<1> QED BY <1>2, <1>3 DEF LinkOk

\* c is not connected and stays as it is; it may refuse.
LEMMA LinkIdle ==
  ASSUME NEW c \in Conn, NEW d \in Conn, NEW p \in Seq(Frame), NEW q \in Seq(Frame), NEW n \in Nat,
         LinkOk(c, d, p, q, n), c.state # "CONNECTED",
         NEW out, Quiet(out), \A i \in DOMAIN out : out[i].type \in {"UA", "DM"}
  PROVE  LinkOk(c, d, Put(p, out), q, n)
<1> DEFINE w == Put(p, out)
<1>1. Numbered(c, d, w, q, n)
  BY QuietNumbered DEF LinkOk
<1>2. CleanOk(c, d, w, q) /\ HalfOk(d, c, q, w)
  BY Zenon DEF CleanOk, HalfOk, Waits
<1>3. out \in Seq(Frame)
  BY DEF Quiet
<1>4. \A k \in DOMAIN w : (\E i \in DOMAIN p : w[k] = p[i]) \/ (\E i \in DOMAIN out : w[k] = out[i])
  BY <1>3, PutFrom
<1>5. Sends(Reset(c), out)
  <2>1. ASSUME NEW i \in DOMAIN out
        PROVE  Sendable(Reset(c), out[i]) /\ out[i].type # "I"
    BY DEF Quiet, Sendable, Data
  <2> QED BY <1>3, <2>1 DEF Sends
<1>6. Reset(c) \in Conn /\ 0 \in Nat
  BY ResetType
<1>7. ASSUME NEW u, Agree(Reset(c), d, p, 0, q, u)
      PROVE  Agree(Reset(c), d, w, 0, q, u)
  BY <1>5, <1>6, <1>7, SendsAgree
<1> HIDE DEF w
<1>8. HalfOk(c, d, w, q)
  <2> SUFFICES ASSUME Waits(c, d)
               PROVE  /\ \A i \in DOMAIN w : w[i].type \in {"UA", "DM"}
                      /\ \A u \in DOMAIN q : q[u].type = "UA" /\ q[u].inc = c.sabm =>
                           Agree(Reset(c), d, w, 0, q, u) /\ Timed(d)
    BY Zenon DEF HalfOk
  <2>1. /\ \A i \in DOMAIN p : p[i].type \in {"UA", "DM"}
        /\ \A u \in DOMAIN q : q[u].type = "UA" /\ q[u].inc = c.sabm =>
             Agree(Reset(c), d, p, 0, q, u) /\ Timed(d)
    BY Zenon DEF LinkOk, HalfOk
  <2>2. \A i \in DOMAIN w : w[i].type \in {"UA", "DM"}
    BY <1>4, <2>1
  <2> QED BY <1>7, <2>1, <2>2, Zenon
<1> QED BY <1>1, <1>2, <1>8 DEF LinkOk, w

\* c stays connected, and whichever way the other end agrees with it, it still does.
LEMMA LinkGoesOn ==
  ASSUME NEW c \in Conn, NEW d \in Conn, NEW p \in Seq(Frame), NEW q \in Seq(Frame), NEW n \in Nat,
         LinkOk(c, d, p, q, n), NEW e, e.sabm = c.sabm, e.inc = c.inc,
         c.state = "CONNECTED", e.state = "CONNECTED", NEW out, Quiet(out),
         \A b \in Conn, u \in Nat :
           Agree(c, b, p, u, q, 0) /\ Timed(c) => Agree(e, b, Put(p, out), u, q, 0) /\ Timed(e)
  PROVE  LinkOk(e, d, Put(p, out), q, n)
<1> DEFINE w == Put(p, out)
<1>1. Numbered(e, d, w, q, n)
  BY QuietNumbered DEF LinkOk
<1>2. HalfOk(e, d, w, q)
  BY Zenon DEF HalfOk, Waits
<1>3. out \in Seq(Frame)
  BY DEF Quiet
<1>4. /\ DOMAIN p = 1 .. Len(p) /\ DOMAIN out = 1 .. Len(out)
      /\ \A k \in DOMAIN w : \/ k \in 1 .. Len(p) /\ w[k] = p[k]
                             \/ k - Len(p) \in 1 .. Len(out) /\ w[k] = out[k - Len(p)]
  BY <1>3, PutAt
<1> HIDE DEF w
<1>5. ASSUME NEW b \in Conn, NEW u \in Nat, Agree(c, b, p, u, q, 0), Timed(c)
      PROVE  Agree(e, b, w, u, q, 0) /\ Timed(e)
  BY <1>5, Zenon DEF w
<1>6. CleanOk(e, d, w, q)
  BY <1>5, Zenon DEF LinkOk, CleanOk
<1>7. HalfOk(d, e, q, w)
  <2> SUFFICES ASSUME Waits(d, e)
               PROVE  /\ \A i \in DOMAIN q : q[i].type \in {"UA", "DM"}
                      /\ \A u \in DOMAIN w : w[u].type = "UA" /\ w[u].inc = d.sabm =>
                           Agree(Reset(d), e, q, 0, w, u) /\ Timed(e)
    BY Zenon DEF HalfOk
  <2>1. /\ \A i \in DOMAIN q : q[i].type \in {"UA", "DM"}
        /\ \A u \in DOMAIN p : p[u].type = "UA" /\ p[u].inc = d.sabm =>
             Agree(Reset(d), c, q, 0, p, u) /\ Timed(c)
    BY Zenon DEF LinkOk, HalfOk, Waits
  <2>2. ASSUME NEW u \in DOMAIN w, w[u].type = "UA", w[u].inc = d.sabm
        PROVE  Agree(Reset(d), e, q, 0, w, u) /\ Timed(e)
    <3>1. d.sabm # 0 /\ \A i \in DOMAIN out : out[i].inc = 0
      BY DEF Waits, Quiet
    <3>2. u \in DOMAIN p /\ w[u] = p[u] /\ u \in Nat
      BY <1>4, <2>2, <3>1
    <3>3. Agree(Reset(d), c, q, 0, p, u) /\ Timed(c)
      BY <2>1, <2>2, <3>2, Zenon
    <3>4. Reset(d) \in Conn
      BY ResetType
    <3>5. Agree(e, Reset(d), w, u, q, 0) /\ Timed(e)
      BY <1>5, <3>2, <3>3, <3>4, AgreeBoth, Zenon
    <3> QED BY <3>5, AgreeBoth, Zenon
  <2> QED BY <2>1, <2>2
<1> QED BY <1>1, <1>2, <1>6, <1>7 DEF LinkOk, w

\* c calls, or calls again.
LEMMA LinkCalls ==
  ASSUME NEW c \in Conn, NEW d \in Conn, NEW p \in Seq(Frame), NEW q \in Seq(Frame), NEW n \in Nat,
         LinkOk(c, d, p, q, n), NEW m \in Nat, m = n + 1,
         NEW e, e.sabm = m, e.inc = c.inc, e.state = "AWAITING_CONNECT",
         NEW f \in Frame, f.type = "SABM", f.inc = m
  PROVE  LinkOk(e, d, Put(p, <<f>>), q, m)
<1>1. Numbered(e, d, Put(p, <<f>>), q, m)
  BY NumberedCall DEF LinkOk
<1>2. d.inc <= n /\ d.inc \in Nat
  BY ConnFields DEF LinkOk, Numbered, CallsOf
<1>3. d.inc # e.sabm
  BY <1>2
<1>4. CleanOk(e, d, Put(p, <<f>>), q) /\ HalfOk(e, d, Put(p, <<f>>), q) /\ HalfOk(d, e, q, Put(p, <<f>>))
  BY <1>3, Zenon DEF CleanOk, HalfOk, Waits
<1> QED BY <1>1, <1>4 DEF LinkOk

LEMMA UpFields ==
  ASSUME NEW c \in Conn, NEW k \in Nat
  PROVE  /\ Up(c, k) \in Conn /\ Fresh(Up(c, k)) /\ Fresh(Reset(c))
         /\ Up(c, k).state = "CONNECTED" /\ Up(c, k).inc = k /\ Up(c, k).sabm = c.sabm
         /\ SameData(Reset(c), Up(c, k)) /\ Up(c, k).t1 = c.t1
         /\ Reset(c).unacked = [m \in SeqNo |-> None]
         /\ Up(c, k).txq = c.txq /\ Up(c, k).peerBusy = FALSE
<1> DEFINE r == Reset(c)
<1>1. r \in Conn
  BY ResetType
<1>2. /\ r.vs = 0 /\ r.vr = 0 /\ r.va = 0 /\ r.sent = 0 /\ r.rcvd = <<>> /\ r.t1 = c.t1
      /\ r.txq = c.txq /\ r.peerBusy = FALSE /\ r.sabm = c.sabm
      /\ r.unacked = [m \in SeqNo |-> None]
  BY DEF Reset, Conn
<1>3. Up(c, k) = [r EXCEPT !.state = "CONNECTED", !.t3 = TRUE, !.inc = k, !.woken = FALSE]
  BY DEF Up
<1> HIDE DEF r
<1>4. /\ Up(c, k).state = "CONNECTED" /\ Up(c, k).inc = k /\ Up(c, k).sabm = r.sabm
      /\ Up(c, k).vs = r.vs /\ Up(c, k).vr = r.vr /\ Up(c, k).va = r.va /\ Up(c, k).sent = r.sent
      /\ Up(c, k).rcvd = r.rcvd /\ Up(c, k).unacked = r.unacked /\ Up(c, k).t1 = r.t1
      /\ Up(c, k).txq = r.txq /\ Up(c, k).peerBusy = r.peerBusy
  BY <1>1, <1>3 DEF Conn
<1>5. Up(c, k) \in Conn
  BY UpSound DEF Sound
<1> QED BY <1>2, <1>4, <1>5 DEF Fresh, SameData, r

\* c comes up with the call that arrives and answers it.
LEMMA LinkAnswers ==
  ASSUME NEW c \in Conn, NEW d \in Conn, NEW p \in Seq(Frame), NEW q \in Seq(Frame), NEW n \in Nat,
         LinkOk(c, d, p, q, n), q # <<>>, Head(q).type = "SABM",
         NEW f \in Frame, f.type = "UA", f.inc = Head(q).inc
  PROVE  LinkOk(Up(c, Head(q).inc), d, Put(p, <<f>>), Tail(q), n)
<1> DEFINE h == Head(q)
           k == h.inc
           e == Up(c, k)
           r == Tail(q)
           out == <<f>>
           w == Put(p, out)
<1>1. /\ r \in Seq(Frame) /\ h = q[1] /\ h \in Frame /\ 1 \in DOMAIN q /\ 0 < 1
      /\ \A i \in DOMAIN r : i + 1 \in DOMAIN q /\ r[i] = q[i + 1] /\ 1 < i + 1 /\ 0 < i
  BY TailAt
<1>2. out \in Seq(Frame) /\ DOMAIN out = 1 .. 1 /\ out[1] = f /\ Len(out) = 1
      /\ \A i \in DOMAIN out : out[i] = f
  OBVIOUS
<1>3. k \in Nat
  BY <1>1 DEF Frame
<1>4. /\ e \in Conn /\ Fresh(e) /\ Fresh(Reset(d)) /\ e.state = "CONNECTED" /\ e.inc = k
      /\ e.sabm = c.sabm /\ Reset(d) \in Conn
  BY <1>3, UpFields, ResetType
<1> HIDE DEF h, k, e, r, out
<1>5. /\ Len(p) \in Nat /\ DOMAIN p = 1 .. Len(p) /\ w \in Seq(Frame)
      /\ \A i \in DOMAIN w : \/ i \in 1 .. Len(p) /\ w[i] = p[i]
                             \/ i = Len(p) + 1 /\ w[i] = f
  <2>1. /\ Len(p) \in Nat /\ Len(out) = 1 /\ DOMAIN p = 1 .. Len(p) /\ w \in Seq(Frame)
        /\ \A i \in DOMAIN w :
              \/ i \in 1 .. Len(p) /\ w[i] = p[i]
              \/ /\ i \in Len(p) + 1 .. Len(p) + Len(out) /\ i - Len(p) \in 1 .. Len(out)
                 /\ w[i] = out[i - Len(p)]
    <3>1. out \in Seq(Frame) /\ Len(out) = 1
      BY <1>2
    <3>2. DOMAIN p = 1 .. Len(p)
      OBVIOUS
    <3> QED BY <3>1, <3>2, PutAt
  <2> HIDE DEF w
  <2>2. ASSUME NEW i \in DOMAIN w, i \in Len(p) + 1 .. Len(p) + Len(out), w[i] = out[i - Len(p)]
        PROVE  i = Len(p) + 1 /\ w[i] = f
    <3>1. i = Len(p) + 1 /\ i - Len(p) = 1
      BY <2>1, <2>2
    <3> QED BY <1>2, <2>2, <3>1
  <2> QED BY <2>1, <2>2
<1> HIDE DEF w
<1>6. h.type = "SABM" /\ h.inc = k /\ f.inc = k
  BY DEF h, k
<1>7. /\ k <= n /\ k # 0 /\ k # d.inc /\ k <= d.sabm
  <2>1. q[1] \in CallOf(d, n)
    BY <1>1 DEF LinkOk, Numbered, CallsOf, LinedFrom
  <2> QED BY <1>1, <1>6, <2>1 DEF CallOf
<1>8. ASSUME NEW i \in DOMAIN r
      PROVE  /\ r[i].type = "SABM" => k < r[i].inc
             /\ d.state = "AWAITING_CONNECT" /\ k = d.sabm => r[i].type \in {"UA", "DM"}
  <2>1. <<q[1], q[i + 1]>> \in CallsBefore(d)
    BY <1>1 DEF LinkOk, Numbered, CallsOf, LinedFrom
  <2> QED BY <1>1, <1>6, <2>1 DEF CallsBefore
<1>9. /\ \A i \in DOMAIN p : p[i].type \in {"UA", "SABM"} => p[i].inc # k
      /\ \A i \in DOMAIN p : p[i].type = "SABM" => p[i].inc # e.inc
  BY <1>1, <1>4, <1>6 DEF LinkOk, Numbered, Apart
<1>10. Numbered(e, d, w, r, n)
  <2>1. Numbered(c, d, p, r, n)
    BY NumberedTail DEF LinkOk, r
  <2>2. Apart(r, out)
    <3>1. \A i \in DOMAIN r : r[i].inc \in Nat
      <4>1. \A i \in DOMAIN r : r[i] \in Frame
        BY <1>1
      <4> QED BY <4>1 DEF Frame
    <3> QED BY <1>2, <1>3, <1>6, <1>8, <3>1 DEF Apart
  <2>3. \A i \in DOMAIN out : /\ out[i].type # "SABM" /\ out[i].inc <= n
                              /\ e.state = "AWAITING_CONNECT" => out[i].type \in {"UA", "DM"}
    BY <1>2, <1>6, <1>7
  <2>4. e.inc <= n /\ e.state # "AWAITING_CONNECT"
    BY <1>4, <1>7
  <2> QED BY <1>1, <1>2, <1>4, <1>9, <2>1, <2>2, <2>3, <2>4, NumberedStep DEF w
<1>11. CleanOk(e, d, w, r) /\ HalfOk(e, d, w, r)
  BY <1>4, <1>7, Zenon DEF CleanOk, HalfOk, Waits
<1>12. HalfOk(d, e, r, w)
  <2> SUFFICES ASSUME Waits(d, e)
               PROVE  /\ \A i \in DOMAIN r : r[i].type \in {"UA", "DM"}
                      /\ \A u \in DOMAIN w : w[u].type = "UA" /\ w[u].inc = d.sabm =>
                           Agree(Reset(d), e, r, 0, w, u) /\ Timed(e)
    BY Zenon DEF HalfOk
  <2>1. d.state = "AWAITING_CONNECT" /\ k = d.sabm
    BY <1>4 DEF Waits
  <2>2. \A i \in DOMAIN r : r[i].type \in {"UA", "DM"}
    BY <1>8, <2>1
  <2>3. NoData(r, 0)
    BY <2>2 DEF NoData, Data
  <2>4. ASSUME NEW u \in DOMAIN w, w[u].type = "UA", w[u].inc = d.sabm
        PROVE  Agree(Reset(d), e, r, 0, w, u) /\ Timed(e)
    <3>1. u = Len(p) + 1
      BY <1>5, <1>9, <2>1, <2>4
    <3>2. NoData(w, u)
      BY <1>5, <3>1 DEF NoData
    <3>3. u \in Nat /\ 0 \in Nat
      BY <1>5, <3>1
    <3>4. Agree(Reset(d), e, r, 0, w, u)
      BY <1>1, <1>4, <1>5, <2>3, <3>2, <3>3, FreshAgree
    <3>5. Timed(e)
      BY <1>4, FreshFramed DEF Timed
    <3> QED BY <3>4, <3>5
  <2> QED BY <2>2, <2>4
<1> QED BY <1>10, <1>11, <1>12 DEF LinkOk, h, k, e, r, out, w

-----------------------------------------------------------------------------
(***************************************************************************)
(* What every handler sends, on a link that agrees or not.                 *)
(***************************************************************************)
LEMMA QuietNothing == Quiet(<<>>)
BY DEF Quiet

LEMMA QuietOne ==
  ASSUME NEW f \in Frame, f.type # "SABM", f.inc = 0
  PROVE  Quiet(<<f>>) /\ \A i \in DOMAIN <<f>> : <<f>>[i] = f
BY DEF Quiet

LEMMA QuietMore ==
  ASSUME NEW f \in Frame, f.type # "SABM", f.inc = 0, NEW out, Quiet(out)
  PROVE  Quiet(<<f>> \o out)
<1> DEFINE w == <<f>> \o out
<1>1. out \in Seq(Frame)
  BY DEF Quiet
<1>2. /\ w \in Seq(Frame) /\ DOMAIN w = 1 .. Len(out) + 1 /\ DOMAIN out = 1 .. Len(out)
      /\ Len(out) \in Nat /\ w[1] = f /\ \A i \in 2 .. Len(out) + 1 : w[i] = out[i - 1]
  BY <1>1
<1> HIDE DEF w
<1>3. ASSUME NEW i \in DOMAIN w PROVE w[i].type # "SABM" /\ w[i].inc = 0
  <2>1. w[i] = f \/ (i - 1 \in DOMAIN out /\ w[i] = out[i - 1])
    BY <1>2
  <2> QED BY <2>1 DEF Quiet
<1> QED BY <1>2, <1>3 DEF Quiet, w

LEMMA QuietPump ==
  ASSUME NEW c \in Conn
  PROVE  Quiet(PumpFrames(c))
<1>1. PumpFrames(c) \in Seq(Frame)
  BY PumpFramesType
<1>2. \A i \in DOMAIN PumpFrames(c) : PumpFrames(c)[i].type = "I" /\ PumpFrames(c)[i].inc = 0
  BY DEF PumpFrames, IFrame
<1> QED BY <1>1, <1>2 DEF Quiet

LEMMA QuietRetransmissions ==
  ASSUME NEW c \in Conn, NEW nr \in SeqNo, NEW out \in Retransmissions(c, nr)
  PROVE  Quiet(out)
<1>1. out \in Seq(Frame)
  BY RetransmissionsType
<1>2. PICK q \in Increasing(HeldFrom(c, nr)) :
        out = [i \in DOMAIN q |-> LET n == (nr + q[i]) % Mod IN IFrame(n, c.vr, c.unacked[n])]
  BY DEF Retransmissions
<1>3. \A i \in DOMAIN out : out[i].type = "I" /\ out[i].inc = 0
  BY <1>2 DEF IFrame
<1> QED BY <1>1, <1>3 DEF Quiet

\* What _pump_tx frames depends on these fields only.
LEMMA PumpSame ==
  ASSUME NEW c, NEW d, d.state = c.state, d.peerBusy = c.peerBusy, d.txq = c.txq, d.va = c.va,
         d.vs = c.vs, d.vr = c.vr, d.sent = c.sent
  PROVE  PumpFrames(d) = PumpFrames(c)
<1>1. PumpCount(d) = PumpCount(c)
  BY Zenon DEF PumpCount, FreeWindow, Outstanding
<1> QED BY <1>1, Zenon DEF PumpFrames

\* _pump_tx starts T1 when it frames something.
LEMMA PumpTimed ==
  ASSUME NEW c \in Conn, Framed(c), Timed(c)
  PROVE  Timed(Pump(c))
<1> DEFINE m == PumpCount(c)
           d == Pump(c)
<1>1. /\ Acked(c) \in Nat /\ c.sent \in Nat /\ Outstanding(c) = c.sent - Acked(c) /\ m \in Nat
  BY FramedFacts, PumpFits
<1>2. d \in Conn /\ FramedFrom(d, Acked(c)) /\ d.sent = c.sent + m /\ d.t1 = (c.t1 \/ m > 0)
  BY PumpConn, PumpFramed, PumpFields
<1> HIDE DEF m, d
<1>3. Outstanding(d) = (c.sent + m) - Acked(c)
  <2>1. Outstanding(d) = d.sent - Acked(c)
    BY <1>2, FramedOnce
  <2> QED BY <1>2, <2>1, Zenon
<1>4. CASE m > 0
  <2>1. d.t1
    BY <1>2, <1>4, Zenon
  <2> QED BY <2>1 DEF Timed, d
<1>5. CASE m = 0
  <2>1. Outstanding(d) = Outstanding(c)
    BY <1>1, <1>3, <1>5
  <2>2. c.t1 => d.t1
    BY <1>2, Zenon
  <2> QED BY <2>1, <2>2, Zenon DEF Timed, d
<1> QED BY <1>1, <1>4, <1>5

\* The end of a handler that calls _pump_tx.
LEMMA PumpsAgree ==
  ASSUME NEW c \in Conn, NEW b \in Conn, NEW p \in Seq(Frame), NEW q, NEW u \in Nat, NEW v,
         Agree(c, b, p, u, q, v), Timed(c)
  PROVE  /\ Agree(Pump(c), b, Put(p, PumpFrames(c)), u, q, v)
         /\ Timed(Pump(c))
<1>1. Framed(c)
  BY DEF Agree, OneWay
<1>2. Agree(Pump(c), b, p, u, q, v) /\ Pump(c) \in Conn
  BY Pumps, PumpConn
<1>3. Sends(Pump(c), PumpFrames(c))
  BY <1>1, PumpSends
<1>4. Agree(Pump(c), b, Put(p, PumpFrames(c)), u, q, v)
  BY <1>2, <1>3, SendsAgree
<1> QED BY <1>1, <1>4, PumpTimed

\* c takes the UA that is its last call's, or that is not.
LEMMA LinkCompletes ==
  ASSUME NEW c \in Conn, NEW d \in Conn, NEW p \in Seq(Frame), NEW q \in Seq(Frame), NEW n \in Nat,
         LinkOk(c, d, p, q, n), q # <<>>, Head(q).type = "UA", c.state = "AWAITING_CONNECT"
  PROVE  LinkOk(AfterUA(c, Head(q).inc), d,
                Put(p, PumpFrames([Up(c, 0) EXCEPT !.t1 = FALSE])), Tail(q), n)
<1> DEFINE h == Head(q)
           k == IF h.inc = c.sabm THEN h.inc ELSE 0
           z == [c EXCEPT !.t1 = FALSE]
           x == Up(z, k)
           y == [Up(c, 0) EXCEPT !.t1 = FALSE]
           e == Pump(x)
           r == Tail(q)
           out == PumpFrames(x)
           w == Put(p, out)
<1>1. /\ r \in Seq(Frame) /\ h = q[1] /\ h \in Frame /\ 1 \in DOMAIN q /\ 0 < 1
      /\ \A i \in DOMAIN r : i + 1 \in DOMAIN q /\ r[i] = q[i + 1] /\ 1 < i + 1 /\ 0 < i
  BY TailAt
<1>2. h.inc \in Nat /\ k \in Nat /\ h.type = "UA" /\ ((k = h.inc /\ k = c.sabm) \/ k = 0)
  <2>1. h.inc \in Nat
    BY <1>1 DEF Frame
  <2> QED BY <2>1
<1>3. AfterUA(c, h.inc) = e
  BY DEF AfterUA
<1> HIDE DEF h, k
<1>4. z \in Conn
  BY Zenon DEF Conn
<1>5. z.t1 = FALSE /\ z.sabm = c.sabm /\ z.txq = c.txq
  BY DEF Conn
<1> HIDE DEF z
<1>6. /\ x \in Conn /\ Fresh(x) /\ Fresh(Reset(c)) /\ Reset(c) \in Conn /\ x.state = "CONNECTED"
      /\ x.inc = k /\ x.sabm = c.sabm
      /\ x.t1 = FALSE /\ x.txq = c.txq /\ x.peerBusy = FALSE
  BY <1>2, <1>4, <1>5, UpFields, ResetType
<1>7. out = PumpFrames(y)
  <2> DEFINE g == Up(c, 0)
  <2>1. g \in Conn /\ Fresh(g) /\ g.state = "CONNECTED" /\ g.txq = c.txq /\ g.peerBusy = FALSE
    <3>1. 0 \in Nat
      OBVIOUS
    <3> QED BY <3>1, UpFields
  <2> HIDE DEF g
  <2>2. /\ y.state = g.state /\ y.txq = g.txq /\ y.peerBusy = g.peerBusy /\ y.va = g.va /\ y.vs = g.vs
        /\ y.vr = g.vr /\ y.sent = g.sent
    BY <2>1 DEF Conn, g
  <2> HIDE DEF x, y
  <2>3. /\ y.state = x.state /\ y.txq = x.txq /\ y.peerBusy = x.peerBusy /\ y.va = x.va /\ y.vs = x.vs
        /\ y.vr = x.vr /\ y.sent = x.sent
    BY <1>6, <2>1, <2>2, Zenon DEF Fresh
  <2>4. PumpFrames(x) = PumpFrames(y)
    BY <2>3, PumpSame, Zenon
  <2> QED BY <2>4 DEF out
<1> HIDE DEF x, y
<1>8. /\ e \in Conn /\ e.state = "CONNECTED" /\ e.inc = k /\ e.sabm = c.sabm
      /\ Quiet(out) /\ out \in Seq(Frame)
  BY <1>6, PumpConn, PumpFields, QuietPump DEF Quiet
<1> HIDE DEF e, out, r, w
<1>9. \A i \in DOMAIN p : p[i].type = "SABM" => p[i].inc # e.inc
  <2>1. \A i \in DOMAIN p : p[i].type = "SABM" => p[i].inc # h.inc
    BY <1>1, <1>2 DEF LinkOk, Numbered, Apart
  <2>2. \A i \in DOMAIN p : p[i].type = "SABM" => p[i].inc # 0
    <3>1. \A i \in DOMAIN p : p[i] \in CallOf(c, n) /\ i > 0
      BY DEF LinkOk, Numbered, CallsOf, LinedFrom
    <3> QED BY <3>1 DEF CallOf
  <2> QED BY <1>2, <1>8, <2>1, <2>2
<1>10. Numbered(e, d, w, r, n)
  <2>1. Numbered(c, d, p, r, n)
    BY NumberedTail DEF LinkOk, r
  <2>2. c.sabm <= n /\ c.sabm \in Nat
    BY ConnFields DEF LinkOk, Numbered, CallsOf
  <2>3. e.inc <= n /\ e.state # "AWAITING_CONNECT"
    BY <1>2, <1>8, <2>2
  <2>4. \A i \in DOMAIN out : /\ out[i].type # "SABM" /\ out[i].inc <= n
                              /\ e.state = "AWAITING_CONNECT" => out[i].type \in {"UA", "DM"}
    BY <1>8, <2>3 DEF Quiet
  <2>5. Apart(r, out)
    <3>1. \A i \in DOMAIN q : q[i] \in CallOf(d, n)
      BY DEF LinkOk, Numbered, CallsOf, LinedFrom
    <3>2. \A i \in DOMAIN r : r[i].type = "SABM" => r[i].inc # 0
      BY <1>1, <3>1 DEF CallOf
    <3> QED BY <1>8, <3>2 DEF Apart, Quiet
  <2> QED BY <1>1, <1>8, <1>9, <2>1, <2>3, <2>4, <2>5, NumberedStep DEF w
<1>11. CleanOk(e, d, w, r)
  <2> SUFFICES ASSUME e.state = "CONNECTED", d.state = "CONNECTED", e.inc # 0, e.inc = d.inc
               PROVE  Agree(e, d, w, 0, r, 0) /\ Timed(e) /\ Timed(d)
    BY Zenon DEF CleanOk
  <2>1. Waits(c, d) /\ q[1].type = "UA" /\ q[1].inc = c.sabm
    BY <1>1, <1>2, <1>8 DEF Waits
  <2>2. Agree(Reset(c), d, p, 0, q, 1) /\ Timed(d)
    BY <1>1, <2>1, Zenon DEF LinkOk, HalfOk
  <2>3. 1 \in Nat /\ 0 \in Nat /\ 0 + 1 >= 1
    OBVIOUS
  <2>4. Agree(Reset(c), d, p, 0, r, 0)
    BY <2>2, <2>3, HeadGone DEF r
  <2>5. Agree(x, d, p, 0, r, 0)
    <3>1. SameData(Reset(c), x)
      <4>1. x.unacked = Reset(z).unacked
        BY <1>2, <1>4, UpFields DEF SameData, x
      <4>2. Reset(z).unacked = [m \in SeqNo |-> None] /\ Reset(c).unacked = [m \in SeqNo |-> None]
        BY <1>2, <1>4, UpFields
      <4> QED BY <1>6, <4>1, <4>2 DEF Fresh, SameData
    <3> QED BY <2>4, <3>1, SameAgree
  <2>6. Timed(x)
    BY <1>6, FreshFramed DEF Timed
  <2>7. Agree(e, d, w, 0, r, 0) /\ Timed(e)
    BY <1>1, <1>6, <2>3, <2>5, <2>6, PumpsAgree DEF e, w, out
  <2> QED BY <2>2, <2>7
<1>12. HalfOk(e, d, w, r) /\ HalfOk(d, e, r, w)
  <2>1. c.sabm = d.sabm => c.sabm = 0
    BY DEF LinkOk, Numbered
  <2>2. ~Waits(e, d) /\ ~Waits(d, e)
    BY <1>2, <1>8, <2>1 DEF Waits
  <2> QED BY <2>2, Zenon DEF HalfOk
<1> QED BY <1>3, <1>7, <1>10, <1>11, <1>12 DEF LinkOk, h, r, w, y

-----------------------------------------------------------------------------
(***************************************************************************)
(* The handlers of a connected end, up to their _pump_tx.                  *)
(***************************************************************************)

\* The end is the same link as before.
SameLink(c, d) == d \in Conn /\ d.state = c.state /\ d.inc = c.inc /\ d.sabm = c.sabm

\* Nothing of the data changes, and T1 is not stopped.
Kept(c, d) == SameLink(c, d) /\ SameData(c, d) /\ (c.t1 => d.t1)

LEMMA KeptAgree ==
  ASSUME NEW c, NEW d, Kept(c, d), NEW b, NEW p, NEW q, NEW u, NEW v, Agree(c, b, p, u, q, v), Timed(c)
  PROVE  Agree(d, b, p, u, q, v) /\ Timed(d)
<1>1. Agree(d, b, p, u, q, v)
  BY SameAgree DEF Kept
<1>2. Outstanding(d) = Outstanding(c)
  BY SameWindow DEF Kept
<1> QED BY <1>1, <1>2, Zenon DEF Timed, Kept

\* The flags that the handlers set.
LEMMA FlagsKept ==
  ASSUME NEW c \in Conn
  PROVE  /\ Kept(c, [c EXCEPT !.t3 = TRUE]) /\ Kept(c, [c EXCEPT !.t1 = TRUE])
         /\ Kept(c, [c EXCEPT !.t3 = FALSE, !.t1 = TRUE])
         /\ \A busy \in BOOLEAN : Kept(c, [c EXCEPT !.peerBusy = busy])
         /\ \A k \in Nat : Kept(c, [c EXCEPT !.txq = k])
<1>1. /\ [c EXCEPT !.t3 = TRUE] \in Conn /\ [c EXCEPT !.t1 = TRUE] \in Conn
      /\ [c EXCEPT !.t3 = FALSE, !.t1 = TRUE] \in Conn
      /\ \A busy \in BOOLEAN : [c EXCEPT !.peerBusy = busy] \in Conn
      /\ \A k \in Nat : [c EXCEPT !.txq = k] \in Conn
  BY ZenonT(60) DEF Conn
<1>2. Kept(c, [c EXCEPT !.t3 = TRUE])
  BY <1>1, ZenonT(60) DEF Kept, SameLink, SameData, Conn
<1>3. Kept(c, [c EXCEPT !.t1 = TRUE])
  BY <1>1, ZenonT(60) DEF Kept, SameLink, SameData, Conn
<1>4. Kept(c, [c EXCEPT !.t3 = FALSE, !.t1 = TRUE])
  BY <1>1, ZenonT(60) DEF Kept, SameLink, SameData, Conn
<1>5. ASSUME NEW busy \in BOOLEAN PROVE Kept(c, [c EXCEPT !.peerBusy = busy])
  BY <1>1, ZenonT(60) DEF Kept, SameLink, SameData, Conn
<1>6. ASSUME NEW k \in Nat PROVE Kept(c, [c EXCEPT !.txq = k])
  BY <1>1, ZenonT(60) DEF Kept, SameLink, SameData, Conn
<1> QED BY <1>2, <1>3, <1>4, <1>5, <1>6

LEMMA UpdateVALink ==
  ASSUME NEW c \in Conn, NEW nr \in SeqNo
  PROVE  SameLink(c, UpdateVA(c, nr))
<1>1. UpdateVA(c, nr) \in Conn
  BY UpdateVAFields
<1>2. UpdateVA(c, nr).state = c.state /\ UpdateVA(c, nr).inc = c.inc /\ UpdateVA(c, nr).sabm = c.sabm
  BY DEF UpdateVA, Conn
<1> QED BY <1>1, <1>2 DEF SameLink

LEMMA StopFields ==
  ASSUME NEW c \in Conn
  PROVE  /\ SameLink(c, StopT1IfIdle(c)) /\ SameData(c, StopT1IfIdle(c))
         /\ StopT1IfIdle(c).t1 = (c.t1 /\ c.va # c.vs)
<1> DEFINE t == c.t1 /\ c.va # c.vs
<1>1. t \in BOOLEAN
  OBVIOUS
<1>2. StopT1IfIdle(c) = [c EXCEPT !.t1 = t]
  BY Zenon DEF StopT1IfIdle, Conn
<1> HIDE DEF t
<1>3. StopT1IfIdle(c) \in Conn
  BY <1>1, <1>2, Zenon DEF Conn
<1>4. StopT1IfIdle(c).t1 = t /\ SameData(c, StopT1IfIdle(c))
  BY <1>2 DEF Conn, SameData
<1>5. SameLink(c, StopT1IfIdle(c))
  BY <1>2, <1>3 DEF SameLink, Conn
<1> QED BY <1>4, <1>5, Zenon DEF t

LEMMA StopAgree ==
  ASSUME NEW c \in Conn, NEW b, NEW p, NEW q, NEW u, NEW v, Agree(c, b, p, u, q, v), Timed(c)
  PROVE  Agree(StopT1IfIdle(c), b, p, u, q, v) /\ Timed(StopT1IfIdle(c))
<1> DEFINE d == StopT1IfIdle(c)
<1>1. SameData(c, d) /\ d.t1 = (c.t1 /\ c.va # c.vs)
  BY StopFields
<1> HIDE DEF d
<1>2. Outstanding(d) = Outstanding(c)
  BY <1>1, SameWindow
<1>3. Outstanding(c) = 0 <=> c.va = c.vs
  <2>1. c.va \in SeqNo /\ c.vs \in SeqNo
    BY ConnFields
  <2> QED BY <2>1, Reaches DEF Outstanding
<1>4. Timed(d)
  BY <1>1, <1>2, <1>3, Zenon DEF Timed
<1>5. Agree(d, b, p, u, q, v)
  BY <1>1, SameAgree
<1> QED BY <1>4, <1>5 DEF d

\* _update_va does not stop T1, and no more is outstanding after it.
LEMMA HearsTimed ==
  ASSUME NEW a \in Conn, NEW b \in Conn, NEW p, NEW q \in Seq(Frame), NEW u, Agree(a, b, p, u, q, 0), Timed(a),
         q # <<>>, Head(q).type \in Data
  PROVE  Agree(UpdateVA(a, Head(q).nr), b, p, u, q, 0) /\ Timed(UpdateVA(a, Head(q).nr))
<1> DEFINE d == UpdateVA(a, Head(q).nr)
<1>1. Head(q).nr \in SeqNo
  <2>1. Head(q) \in Frame
    OBVIOUS
  <2> QED BY <2>1 DEF Frame
<1>2. d \in Conn /\ d.sent = a.sent /\ d.t1 = a.t1
  BY <1>1, UpdateVAFields
<1>3. Agree(d, b, p, u, q, 0) /\ Acked(a) <= Acked(d)
  BY HearsAck
<1> HIDE DEF d
<1>4. Framed(a) /\ Framed(d)
  BY <1>3 DEF Agree, OneWay
<1>5. /\ Outstanding(a) = a.sent - Acked(a) /\ Outstanding(d) = d.sent - Acked(d)
      /\ Acked(a) \in Nat /\ Acked(d) \in Nat /\ a.sent \in Nat /\ Acked(d) <= d.sent
  BY <1>2, <1>4, FramedFacts
<1>6. Outstanding(d) # 0 => Outstanding(a) # 0
  BY <1>2, <1>3, <1>5
<1>7. Timed(d)
  BY <1>2, <1>6, Zenon DEF Timed
<1> QED BY <1>3, <1>7 DEF d

LEMMA AcceptLink ==
  ASSUME NEW c \in Conn, NEW f \in Frame
  PROVE  SameLink(c, Accept(c, f)) /\ Accept(c, f).t1 = c.t1 /\ Accept(c, f).sent = c.sent
<1> DEFINE v == (c.vr + 1) % Mod
           r == Append(c.rcvd, f.data)
           d == [c EXCEPT !.vr = v, !.rcvd = r]
<1>1. v \in SeqNo
  BY ConnFields, SumInSeqNo
<1>2. r \in Seq(Nat)
  <2>1. f.data \in Nat
    BY DEF Frame
  <2> QED BY <2>1, ConnFields
<1>3. Accept(c, f) = d \/ Accept(c, f) = c
  BY Zenon DEF Accept, Conn
<1> HIDE DEF v, r
<1>4. d \in Conn
  BY <1>1, <1>2, Zenon DEF Conn
<1>5. d.state = c.state /\ d.inc = c.inc /\ d.sabm = c.sabm /\ d.t1 = c.t1 /\ d.sent = c.sent
  BY DEF Conn
<1> HIDE DEF d
<1> QED BY <1>3, <1>4, <1>5 DEF SameLink

LEMMA SameLinkOn ==
  ASSUME NEW c, NEW d, NEW e, SameLink(c, d), SameLink(d, e)
  PROVE  SameLink(c, e)
BY DEF SameLink

LEMMA PumpLink ==
  ASSUME NEW c \in Conn
  PROVE  SameLink(c, Pump(c))
BY PumpConn, PumpFields DEF SameLink

\* _handle_i: the acknowledgement, the chunk and T1.
LEMMA AfterILink ==
  ASSUME NEW c \in Conn, NEW f \in Frame
  PROVE  SameLink(c, AfterI(c, f))
<1> DEFINE d == [c EXCEPT !.t3 = TRUE]
           e == UpdateVA(d, f.nr)
           g == Accept(e, f)
<1>1. SameLink(c, d)
  BY FlagsKept DEF Kept
<1>2. f.nr \in SeqNo
  BY DEF Frame
<1> HIDE DEF d
<1>3. d \in Conn
  BY <1>1 DEF SameLink
<1>4. SameLink(d, e)
  BY <1>2, <1>3, UpdateVALink
<1> HIDE DEF e
<1>5. e \in Conn
  BY <1>4 DEF SameLink
<1>6. SameLink(e, g)
  BY <1>5, AcceptLink
<1> HIDE DEF g
<1>7. g \in Conn
  BY <1>6 DEF SameLink
<1>8. SameLink(g, StopT1IfIdle(g))
  BY <1>7, StopFields
<1>9. SameLink(c, StopT1IfIdle(g))
  BY <1>1, <1>4, <1>6, <1>8, Zenon DEF SameLink
<1> QED BY <1>9 DEF AfterI, g, e, d

LEMMA AfterIAgrees ==
  ASSUME NEW c \in Conn, NEW b \in Conn, NEW p, NEW q \in Seq(Frame), NEW u, Agree(c, b, p, u, q, 0), Timed(c),
         q # <<>>, Head(q).type = "I"
  PROVE  /\ Agree(AfterI(c, Head(q)), b, p, u, q, 0) /\ Timed(AfterI(c, Head(q)))
         /\ AfterI(c, Head(q)).vr = Answer(c, Head(q)).nr
         /\ AfterI(c, Head(q)).sent = c.sent
         /\ \/ AfterI(c, Head(q)).rcvd = c.rcvd
            \/ AfterI(c, Head(q)).rcvd = Append(c.rcvd, Len(c.rcvd) + 1)
<1> DEFINE f == Head(q)
           d == [c EXCEPT !.t3 = TRUE]
           e == UpdateVA(d, f.nr)
           g == Accept(e, f)
           h == StopT1IfIdle(g)
<1>1. f \in Frame /\ f.type \in Data
  BY DEF Data
<1>2. f.nr \in SeqNo
  BY <1>1 DEF Frame
<1>3. Kept(c, d)
  BY FlagsKept
<1> HIDE DEF d
<1>4. d \in Conn /\ Agree(d, b, p, u, q, 0) /\ Timed(d) /\ d.rcvd = c.rcvd /\ d.vr = c.vr /\ d.sent = c.sent
  <2>1. d \in Conn /\ d.rcvd = c.rcvd /\ d.vr = c.vr /\ d.sent = c.sent
    BY <1>3 DEF Kept, SameLink, SameData
  <2>2. Agree(d, b, p, u, q, 0) /\ Timed(d)
    BY <1>3, KeptAgree
  <2> QED BY <2>1, <2>2
<1>5. /\ e \in Conn /\ Agree(e, b, p, u, q, 0) /\ Timed(e)
      /\ e.rcvd = c.rcvd /\ e.vr = c.vr /\ e.sent = c.sent
  <2>1. Agree(e, b, p, u, q, 0) /\ Timed(e)
    BY <1>1, <1>4, HearsTimed
  <2>2. e \in Conn /\ e.rcvd = d.rcvd /\ e.vr = d.vr /\ e.sent = d.sent
    BY <1>2, <1>4, UpdateVAFields
  <2> QED BY <1>4, <2>1, <2>2
<1> HIDE DEF e
<1>6. /\ Agree(g, b, p, u, q, 0) /\ g.vr = Answer(e, f).nr /\ Acked(g) = Acked(e)
      /\ g.rcvd = e.rcvd \/ g.rcvd = Append(e.rcvd, Len(e.rcvd) + 1)
  BY <1>5, Accepts
<1>7. g \in Conn /\ g.t1 = e.t1 /\ g.sent = e.sent
  BY <1>1, <1>5, AcceptLink DEF SameLink
<1>8. Answer(e, f) = Answer(c, f)
  BY <1>5, Zenon DEF Answer
<1> HIDE DEF g
<1>9. Outstanding(g) = Outstanding(e)
  <2>1. Framed(g) /\ Framed(e)
    BY <1>5, <1>6 DEF Agree, OneWay
  <2>2. Outstanding(g) = g.sent - Acked(g) /\ Outstanding(e) = e.sent - Acked(e)
    BY <1>5, <1>7, <2>1, FramedFacts
  <2> QED BY <1>6, <1>7, <2>2, Zenon
<1>10. Timed(g)
  BY <1>5, <1>7, <1>9, Zenon DEF Timed
<1>11. Agree(h, b, p, u, q, 0) /\ Timed(h)
  BY <1>6, <1>7, <1>10, StopAgree
<1>12. h.vr = g.vr /\ h.rcvd = g.rcvd /\ h.sent = g.sent
  BY <1>7, StopFields DEF SameData
<1>13. AfterI(c, f) = h
  BY DEF AfterI, h, g, e, d
<1> HIDE DEF h
<1> QED BY <1>5, <1>6, <1>7, <1>8, <1>11, <1>12, <1>13, Zenon

\* _handle_rr: the acknowledgement and T1.
LEMMA AfterRRLink ==
  ASSUME NEW c \in Conn, NEW f \in Frame
  PROVE  /\ SameLink(c, AfterRR(c, f)) /\ AfterRR(c, f).sent = c.sent /\ AfterRR(c, f).rcvd = c.rcvd
<1> DEFINE d == [c EXCEPT !.peerBusy = FALSE]
           e == UpdateVA(d, f.nr)
           g == StopT1IfIdle(e)
           h == [g EXCEPT !.t3 = TRUE]
<1>1. SameLink(c, d) /\ d.sent = c.sent /\ d.rcvd = c.rcvd
  BY FlagsKept DEF Kept, SameData
<1>2. f.nr \in SeqNo
  BY DEF Frame
<1> HIDE DEF d
<1>3. d \in Conn
  BY <1>1 DEF SameLink
<1>4. SameLink(d, e) /\ e.sent = d.sent /\ e.rcvd = d.rcvd
  BY <1>2, <1>3, UpdateVALink, UpdateVAFields
<1> HIDE DEF e
<1>5. e \in Conn
  BY <1>4 DEF SameLink
<1>6. SameLink(e, g) /\ g.sent = e.sent /\ g.rcvd = e.rcvd
  BY <1>5, StopFields DEF SameData
<1> HIDE DEF g
<1>7. g \in Conn
  BY <1>6 DEF SameLink
<1>8. SameLink(g, h) /\ h.sent = g.sent /\ h.rcvd = g.rcvd
  BY <1>7, FlagsKept DEF Kept, SameData
<1> HIDE DEF h
<1>9. SameLink(c, h) /\ h.sent = c.sent /\ h.rcvd = c.rcvd
  BY <1>1, <1>4, <1>6, <1>8, Zenon DEF SameLink
<1> QED BY <1>9 DEF AfterRR, h, g, e, d

LEMMA AfterRRAgrees ==
  ASSUME NEW c \in Conn, NEW b \in Conn, NEW p, NEW q \in Seq(Frame), NEW u, Agree(c, b, p, u, q, 0), Timed(c),
         q # <<>>, Head(q).type = "RR"
  PROVE  Agree(AfterRR(c, Head(q)), b, p, u, q, 0) /\ Timed(AfterRR(c, Head(q)))
<1> DEFINE f == Head(q)
           d == [c EXCEPT !.peerBusy = FALSE]
           e == UpdateVA(d, f.nr)
           g == StopT1IfIdle(e)
           h == [g EXCEPT !.t3 = TRUE]
<1>1. f \in Frame /\ f.type \in Data
  BY DEF Data
<1>2. f.nr \in SeqNo
  BY <1>1 DEF Frame
<1>3. Kept(c, d)
  BY FlagsKept
<1> HIDE DEF d
<1>4. d \in Conn /\ Agree(d, b, p, u, q, 0) /\ Timed(d)
  <2>1. d \in Conn
    BY <1>3 DEF Kept, SameLink
  <2> QED BY <1>3, <2>1, KeptAgree
<1>5. e \in Conn /\ Agree(e, b, p, u, q, 0) /\ Timed(e)
  <2>1. Agree(e, b, p, u, q, 0) /\ Timed(e)
    BY <1>1, <1>4, HearsTimed
  <2> QED BY <1>2, <1>4, <2>1, UpdateVAFields
<1> HIDE DEF e
<1>6. g \in Conn /\ Agree(g, b, p, u, q, 0) /\ Timed(g)
  BY <1>5, StopAgree, StopFields DEF SameLink
<1> HIDE DEF g
<1>7. Kept(g, h)
  BY <1>6, FlagsKept
<1> HIDE DEF h
<1>8. Agree(h, b, p, u, q, 0) /\ Timed(h)
  BY <1>6, <1>7, KeptAgree
<1> QED BY <1>8 DEF AfterRR, h, g, e, d, f

\* _handle_rnr and _handle_rej: the acknowledgement, then T1.
LEMMA AfterRNRLink ==
  ASSUME NEW c \in Conn, NEW f \in Frame
  PROVE  /\ SameLink(c, AfterRNR(c, f)) /\ AfterRNR(c, f).sent = c.sent /\ AfterRNR(c, f).rcvd = c.rcvd
<1> DEFINE d == [c EXCEPT !.peerBusy = TRUE]
           e == UpdateVA(d, f.nr)
           h == [e EXCEPT !.t1 = TRUE]
<1>1. SameLink(c, d) /\ d.sent = c.sent /\ d.rcvd = c.rcvd
  BY FlagsKept DEF Kept, SameData
<1>2. f.nr \in SeqNo
  BY DEF Frame
<1> HIDE DEF d
<1>3. d \in Conn
  BY <1>1 DEF SameLink
<1>4. SameLink(d, e) /\ e.sent = d.sent /\ e.rcvd = d.rcvd
  BY <1>2, <1>3, UpdateVALink, UpdateVAFields
<1> HIDE DEF e
<1>5. e \in Conn
  BY <1>4 DEF SameLink
<1>6. SameLink(e, h) /\ h.sent = e.sent /\ h.rcvd = e.rcvd
  BY <1>5, FlagsKept DEF Kept, SameData
<1> HIDE DEF h
<1>7. SameLink(c, h) /\ h.sent = c.sent /\ h.rcvd = c.rcvd
  BY <1>1, <1>4, <1>6, Zenon DEF SameLink
<1> QED BY <1>7 DEF AfterRNR, h, e, d

LEMMA AfterRNRAgrees ==
  ASSUME NEW c \in Conn, NEW b \in Conn, NEW p, NEW q \in Seq(Frame), NEW u, Agree(c, b, p, u, q, 0), Timed(c),
         q # <<>>, Head(q).type = "RNR"
  PROVE  Agree(AfterRNR(c, Head(q)), b, p, u, q, 0) /\ Timed(AfterRNR(c, Head(q)))
<1> DEFINE f == Head(q)
           d == [c EXCEPT !.peerBusy = TRUE]
           e == UpdateVA(d, f.nr)
           h == [e EXCEPT !.t1 = TRUE]
<1>1. f \in Frame /\ f.type \in Data
  BY DEF Data
<1>2. f.nr \in SeqNo
  BY <1>1 DEF Frame
<1>3. Kept(c, d)
  BY FlagsKept
<1> HIDE DEF d
<1>4. d \in Conn /\ Agree(d, b, p, u, q, 0) /\ Timed(d)
  <2>1. d \in Conn
    BY <1>3 DEF Kept, SameLink
  <2> QED BY <1>3, <2>1, KeptAgree
<1>5. e \in Conn /\ Agree(e, b, p, u, q, 0) /\ Timed(e)
  <2>1. Agree(e, b, p, u, q, 0) /\ Timed(e)
    BY <1>1, <1>4, HearsTimed
  <2> QED BY <1>2, <1>4, <2>1, UpdateVAFields
<1> HIDE DEF e
<1>6. Kept(e, h)
  BY <1>5, FlagsKept
<1> HIDE DEF h
<1>7. Agree(h, b, p, u, q, 0) /\ Timed(h)
  BY <1>5, <1>6, KeptAgree
<1> QED BY <1>7 DEF AfterRNR, h, e, d, f

LEMMA AfterREJFields ==
  ASSUME NEW c \in Conn, NEW f \in Frame
  PROVE  /\ SameLink(c, AfterREJ(c, f)) /\ SameData(UpdateVA(c, f.nr), AfterREJ(c, f))
         /\ AfterREJ(c, f).sent = c.sent /\ AfterREJ(c, f).rcvd = c.rcvd
         /\ AfterREJ(c, f).t1 = (UpdateVA(c, f.nr).vs # UpdateVA(c, f.nr).va)
<1> DEFINE d == UpdateVA(c, f.nr)
           t == d.vs # d.va
           e == [d EXCEPT !.t1 = t]
<1>1. f.nr \in SeqNo
  BY DEF Frame
<1>2. SameLink(c, d) /\ d.sent = c.sent /\ d.rcvd = c.rcvd
  BY <1>1, UpdateVALink, UpdateVAFields
<1>3. t \in BOOLEAN
  OBVIOUS
<1>4. AfterREJ(c, f) = e
  BY DEF AfterREJ
<1> HIDE DEF t, d
<1>5. d \in Conn
  BY <1>2 DEF SameLink
<1>6. e \in Conn
  BY <1>3, <1>5, Zenon DEF Conn
<1>7. SameData(d, e) /\ e.t1 = t /\ SameLink(d, e)
  BY <1>5, <1>6 DEF SameData, SameLink, Conn
<1> HIDE DEF e
<1>8. SameLink(c, e) /\ e.sent = c.sent /\ e.rcvd = c.rcvd
  BY <1>2, <1>7, Zenon DEF SameLink, SameData
<1> QED BY <1>4, <1>7, <1>8, Zenon DEF d, t

LEMMA AfterREJAgrees ==
  ASSUME NEW c \in Conn, NEW b \in Conn, NEW p \in Seq(Frame), NEW q \in Seq(Frame), NEW u \in Nat,
         Agree(c, b, p, u, q, 0), Timed(c), q # <<>>, Head(q).type = "REJ",
         NEW out \in Retransmissions(UpdateVA(c, Head(q).nr), Head(q).nr)
  PROVE  Agree(AfterREJ(c, Head(q)), b, Put(p, out), u, q, 0) /\ Timed(AfterREJ(c, Head(q)))
<1> DEFINE f == Head(q)
           d == UpdateVA(c, f.nr)
           e == AfterREJ(c, f)
<1>1. f \in Frame /\ f.type \in Data
  BY DEF Data
<1>2. f.nr \in SeqNo
  BY <1>1 DEF Frame
<1>3. d \in Conn /\ d.va = f.nr /\ Agree(d, b, p, u, q, 0)
  BY <1>1, <1>2, HearsTimed, UpdateVAFields
<1>4. SameData(d, e) /\ e \in Conn /\ e.t1 = (d.vs # d.va)
  BY <1>1, AfterREJFields DEF SameLink
<1> HIDE DEF e
<1>5. out \in Retransmissions(d, d.va)
  BY <1>3, Zenon DEF f, d
<1> HIDE DEF d
<1>6. Sends(d, out)
  <2>1. Framed(d)
    BY <1>3 DEF Agree, OneWay
  <2> QED BY <1>3, <1>5, <2>1, RetransmissionsSend
<1>7. Sends(e, out) /\ Agree(e, b, p, u, q, 0)
  BY <1>3, <1>4, <1>6, SendsSame, SameAgree
<1>8. Agree(e, b, Put(p, out), u, q, 0)
  BY <1>4, <1>7, SendsAgree
<1>9. Timed(e)
  <2>1. Outstanding(e) = Outstanding(d)
    BY <1>4, SameWindow
  <2>2. d.va = d.vs => Outstanding(d) = 0
    <3>1. d.va \in SeqNo /\ d.vs \in SeqNo
      BY <1>3, ConnFields
    <3> QED BY <3>1, Reaches DEF Outstanding
  <2> QED BY <1>4, <2>1, <2>2, Zenon DEF Timed
<1> QED BY <1>8, <1>9 DEF e, f

-----------------------------------------------------------------------------
(***************************************************************************)
(* Each handler of a connected end keeps the invariant of the two ends.    *)
(***************************************************************************)
LEMMA LinkPumps ==
  ASSUME NEW c \in Conn, NEW d \in Conn, NEW p \in Seq(Frame), NEW q \in Seq(Frame), NEW n \in Nat,
         LinkOk(c, d, p, q, n), c.state = "CONNECTED", NEW x, SameLink(c, x),
         \A b \in Conn, u \in Nat : Agree(c, b, p, u, q, 0) /\ Timed(c) => Agree(x, b, p, u, q, 0) /\ Timed(x)
  PROVE  LinkOk(Pump(x), d, Put(p, PumpFrames(x)), q, n)
<1> DEFINE e == Pump(x)
           out == PumpFrames(x)
           w == Put(p, out)
<1>1. x \in Conn /\ SameLink(c, x)
  BY DEF SameLink
<1>2. e.sabm = c.sabm /\ e.inc = c.inc /\ e.state = "CONNECTED" /\ Quiet(out)
  BY <1>1, PumpLink, QuietPump DEF SameLink
<1>3. ASSUME NEW b \in Conn, NEW u \in Nat, Agree(c, b, p, u, q, 0) /\ Timed(c)
      PROVE  Agree(e, b, w, u, q, 0) /\ Timed(e)
  BY <1>1, <1>3, PumpsAgree
<1> HIDE DEF e, out
<1>4. \A b \in Conn, u \in Nat :
           Agree(c, b, p, u, q, 0) /\ Timed(c) => Agree(e, b, Put(p, out), u, q, 0) /\ Timed(e)
  BY <1>3, Zenon
<1>5. LinkOk(e, d, Put(p, out), q, n)
  BY <1>2, <1>4, LinkGoesOn
<1> QED BY <1>5 DEF e, out

\* write() and a frame RR.
LEMMA LinkWrites ==
  ASSUME NEW c \in Conn, NEW d \in Conn, NEW p \in Seq(Frame), NEW q \in Seq(Frame), NEW n \in Nat,
         LinkOk(c, d, p, q, n), c.state = "CONNECTED", NEW k \in Nat
  PROVE  LinkOk(Pump([c EXCEPT !.txq = k]), d, Put(p, PumpFrames([c EXCEPT !.txq = k])), q, n)
<1> DEFINE x == [c EXCEPT !.txq = k]
<1>1. Kept(c, x)
  BY FlagsKept
<1> HIDE DEF x
<1>2. SameLink(c, x)
  BY <1>1 DEF Kept
<1>3. ASSUME NEW b \in Conn, NEW u \in Nat, Agree(c, b, p, u, q, 0) /\ Timed(c)
      PROVE  Agree(x, b, p, u, q, 0) /\ Timed(x)
  BY <1>1, <1>3, KeptAgree
<1>4. \A b \in Conn, u \in Nat : Agree(c, b, p, u, q, 0) /\ Timed(c) => Agree(x, b, p, u, q, 0) /\ Timed(x)
  BY <1>3
<1>5. LinkOk(Pump(x), d, Put(p, PumpFrames(x)), q, n)
  BY <1>2, <1>4, LinkPumps
<1> QED BY <1>5 DEF x

LEMMA LinkHearsRR ==
  ASSUME NEW c \in Conn, NEW d \in Conn, NEW p \in Seq(Frame), NEW q \in Seq(Frame), NEW n \in Nat,
         LinkOk(c, d, p, q, n), c.state = "CONNECTED", q # <<>>, Head(q).type = "RR"
  PROVE  LinkOk(Pump(AfterRR(c, Head(q))), d, Put(p, PumpFrames(AfterRR(c, Head(q)))), Tail(q), n)
<1> DEFINE x == AfterRR(c, Head(q))
<1>1. Head(q) \in Frame
  OBVIOUS
<1>2. SameLink(c, x)
  BY <1>1, AfterRRLink
<1>3. ASSUME NEW b \in Conn, NEW u \in Nat, Agree(c, b, p, u, q, 0) /\ Timed(c)
      PROVE  Agree(x, b, p, u, q, 0) /\ Timed(x)
  BY <1>3, AfterRRAgrees
<1> HIDE DEF x
<1>4. \A b \in Conn, u \in Nat : Agree(c, b, p, u, q, 0) /\ Timed(c) => Agree(x, b, p, u, q, 0) /\ Timed(x)
  BY <1>3
<1>5. LinkOk(Pump(x), d, Put(p, PumpFrames(x)), q, n)
  BY <1>2, <1>4, LinkPumps
<1>6. LinkOk(Pump(x), d, Put(p, PumpFrames(x)), Tail(q), n)
  BY <1>5, LinkTail
<1> QED BY <1>6 DEF x

\* A frame I.
LEMMA LinkHearsI ==
  ASSUME NEW c \in Conn, NEW d \in Conn, NEW p \in Seq(Frame), NEW q \in Seq(Frame), NEW n \in Nat,
         LinkOk(c, d, p, q, n), c.state = "CONNECTED", q # <<>>, Head(q).type = "I"
  PROVE  LinkOk(Pump(AfterI(c, Head(q))), d,
                Put(p, <<Answer(c, Head(q))>> \o PumpFrames(AfterI(c, Head(q)))), Tail(q), n)
<1> DEFINE x == AfterI(c, Head(q))
           a == Answer(c, Head(q))
           e == Pump(x)
           out == <<a>> \o PumpFrames(x)
<1>1. Head(q) \in Frame
  OBVIOUS
<1>2. SameLink(c, x) /\ a \in Frame
  BY <1>1, AfterILink, AnswerType
<1>3. a.type \in {"RR", "REJ"} /\ a.inc = 0
  BY DEF Answer, SFrame
<1>4. ASSUME NEW b \in Conn, NEW u \in Nat, Agree(c, b, p, u, q, 0), Timed(c)
      PROVE  Agree(x, b, p, u, q, 0) /\ Timed(x) /\ x.vr = a.nr
  BY <1>4, AfterIAgrees
<1> HIDE DEF x, a
<1>5. x \in Conn /\ e \in Conn /\ e.vr = x.vr
  BY <1>2, PumpConn, PumpFields DEF SameLink
<1>6. e.sabm = c.sabm /\ e.inc = c.inc /\ e.state = "CONNECTED"
  BY <1>2, <1>5, PumpLink DEF SameLink
<1>7. Quiet(out)
  BY <1>2, <1>3, <1>5, QuietPump, QuietMore
<1>8. ASSUME NEW b \in Conn, NEW u \in Nat, Agree(c, b, p, u, q, 0) /\ Timed(c)
      PROVE  Agree(e, b, Put(p, out), u, q, 0) /\ Timed(e)
  <2>1. Agree(x, b, p, u, q, 0) /\ Timed(x) /\ x.vr = a.nr
    BY <1>4, <1>8
  <2>2. Framed(x)
    BY <2>1 DEF Agree, OneWay
  <2>3. Agree(e, b, p, u, q, 0) /\ Timed(e)
    BY <1>5, <2>1, <2>2, Pumps, PumpTimed
  <2>4. Sends(e, PumpFrames(x))
    BY <1>5, <2>2, PumpSends
  <2>5. a.nr = e.vr /\ a.type \notin {"I", "SABM"}
    BY <1>3, <1>5, <2>1
  <2> HIDE DEF e
  <2>6. Sends(e, out)
    BY <1>2, <1>3, <1>5, <2>4, <2>5, AnswerSends
  <2> QED BY <1>5, <2>3, <2>6, SendsAgree
<1> HIDE DEF e, out
<1>9. \A b \in Conn, u \in Nat :
           Agree(c, b, p, u, q, 0) /\ Timed(c) => Agree(e, b, Put(p, out), u, q, 0) /\ Timed(e)
  BY <1>8, Zenon
<1>10. LinkOk(e, d, Put(p, out), q, n)
  BY <1>6, <1>7, <1>9, LinkGoesOn
<1>11. LinkOk(e, d, Put(p, out), Tail(q), n)
  BY <1>10, LinkTail
<1> QED BY <1>11 DEF e, out, x, a

LEMMA LinkHearsRNR ==
  ASSUME NEW c \in Conn, NEW d \in Conn, NEW p \in Seq(Frame), NEW q \in Seq(Frame), NEW n \in Nat,
         LinkOk(c, d, p, q, n), c.state = "CONNECTED", q # <<>>, Head(q).type = "RNR"
  PROVE  LinkOk(AfterRNR(c, Head(q)), d, Put(p, <<>>), Tail(q), n)
<1> DEFINE e == AfterRNR(c, Head(q))
<1>1. Head(q) \in Frame
  OBVIOUS
<1>2. SameLink(c, e)
  BY <1>1, AfterRNRLink
<1>3. ASSUME NEW b \in Conn, NEW u \in Nat, Agree(c, b, p, u, q, 0) /\ Timed(c)
      PROVE  Agree(e, b, p, u, q, 0) /\ Timed(e)
  BY <1>3, AfterRNRAgrees
<1> HIDE DEF e
<1>4. ASSUME NEW b \in Conn, NEW u \in Nat, Agree(c, b, p, u, q, 0) /\ Timed(c)
      PROVE  Agree(e, b, Put(p, <<>>), u, q, 0) /\ Timed(e)
  <2>1. Agree(e, b, p, u, q, 0) /\ Timed(e) /\ e \in Conn
    BY <1>2, <1>3, <1>4 DEF SameLink
  <2>2. Sends(e, <<>>)
    BY SendsNothing
  <2> QED BY <2>1, <2>2, SendsAgree
<1>5. \A b \in Conn, u \in Nat :
           Agree(c, b, p, u, q, 0) /\ Timed(c) => Agree(e, b, Put(p, <<>>), u, q, 0) /\ Timed(e)
  BY <1>4, Zenon
<1>6. e.sabm = c.sabm /\ e.inc = c.inc /\ e.state = "CONNECTED"
  BY <1>2 DEF SameLink
<1>7. LinkOk(e, d, Put(p, <<>>), q, n)
  BY <1>5, <1>6, QuietNothing, LinkGoesOn
<1>8. LinkOk(e, d, Put(p, <<>>), Tail(q), n)
  BY <1>7, LinkTail
<1> QED BY <1>8 DEF e

LEMMA LinkHearsREJ ==
  ASSUME NEW c \in Conn, NEW d \in Conn, NEW p \in Seq(Frame), NEW q \in Seq(Frame), NEW n \in Nat,
         LinkOk(c, d, p, q, n), c.state = "CONNECTED", q # <<>>, Head(q).type = "REJ",
         NEW out \in Retransmissions(UpdateVA(c, Head(q).nr), Head(q).nr)
  PROVE  LinkOk(AfterREJ(c, Head(q)), d, Put(p, out), Tail(q), n)
<1> DEFINE e == AfterREJ(c, Head(q))
<1>1. Head(q) \in Frame
  OBVIOUS
<1>2. Head(q).nr \in SeqNo
  BY <1>1 DEF Frame
<1>3. SameLink(c, e)
  BY <1>1, AfterREJFields
<1>4. Quiet(out)
  <2>1. UpdateVA(c, Head(q).nr) \in Conn
    BY <1>2, UpdateVAFields
  <2> QED BY <1>2, <2>1, QuietRetransmissions
<1>5. ASSUME NEW b \in Conn, NEW u \in Nat, Agree(c, b, p, u, q, 0) /\ Timed(c)
      PROVE  Agree(e, b, Put(p, out), u, q, 0) /\ Timed(e)
  BY <1>5, AfterREJAgrees
<1> HIDE DEF e
<1>6. \A b \in Conn, u \in Nat :
           Agree(c, b, p, u, q, 0) /\ Timed(c) => Agree(e, b, Put(p, out), u, q, 0) /\ Timed(e)
  BY <1>5, Zenon
<1>7. e.sabm = c.sabm /\ e.inc = c.inc /\ e.state = "CONNECTED"
  BY <1>3 DEF SameLink
<1>8. LinkOk(e, d, Put(p, out), q, n)
  BY <1>4, <1>6, <1>7, LinkGoesOn
<1>9. LinkOk(e, d, Put(p, out), Tail(q), n)
  BY <1>8, LinkTail
<1> QED BY <1>9 DEF e

\* T1 sends again what is held.
LEMMA LinkResends ==
  ASSUME NEW c \in Conn, NEW d \in Conn, NEW p \in Seq(Frame), NEW q \in Seq(Frame), NEW n \in Nat,
         LinkOk(c, d, p, q, n), c.state = "CONNECTED", NEW e, Kept(c, e),
         NEW out \in Retransmissions(c, c.va)
  PROVE  LinkOk(e, d, Put(p, out), q, n)
<1>1. Quiet(out)
  <2>1. c.va \in SeqNo
    BY ConnFields
  <2> QED BY <2>1, QuietRetransmissions
<1>2. e \in Conn /\ e.sabm = c.sabm /\ e.inc = c.inc /\ e.state = "CONNECTED"
  BY DEF Kept, SameLink
<1>3. ASSUME NEW b \in Conn, NEW u \in Nat, Agree(c, b, p, u, q, 0) /\ Timed(c)
      PROVE  Agree(e, b, Put(p, out), u, q, 0) /\ Timed(e)
  <2>1. Agree(e, b, p, u, q, 0) /\ Timed(e)
    BY <1>3, KeptAgree
  <2>2. Framed(c)
    BY <1>3 DEF Agree, OneWay
  <2>3. Sends(c, out)
    BY <2>2, RetransmissionsSend
  <2>4. Sends(e, out)
    BY <2>3, SendsSame DEF Kept
  <2> QED BY <1>2, <2>1, <2>4, SendsAgree
<1>4. \A b \in Conn, u \in Nat :
           Agree(c, b, p, u, q, 0) /\ Timed(c) => Agree(e, b, Put(p, out), u, q, 0) /\ Timed(e)
  BY <1>3, Zenon
<1> QED BY <1>1, <1>2, <1>4, LinkGoesOn

\* Nothing happens but a frame that tells V(R).
LEMMA LinkTells ==
  ASSUME NEW c \in Conn, NEW d \in Conn, NEW p \in Seq(Frame), NEW q \in Seq(Frame), NEW n \in Nat,
         LinkOk(c, d, p, q, n), c.state = "CONNECTED", NEW e, Kept(c, e), NEW type \in {"RR", "RNR"}
  PROVE  LinkOk(e, d, Put(p, <<SFrame(type, c.vr)>>), q, n)
<1> DEFINE f == SFrame(type, c.vr)
<1>1. f \in Frame
  BY ConnFields, SFrameType DEF FrameTypes
<1>2. f.type = type /\ f.nr = c.vr /\ f.inc = 0
  BY SFrameFields
<1> HIDE DEF f
<1>3. Quiet(<<f>>)
  BY <1>1, <1>2, QuietOne
<1>4. e \in Conn /\ e.sabm = c.sabm /\ e.inc = c.inc /\ e.state = "CONNECTED" /\ e.vr = c.vr
  BY DEF Kept, SameLink, SameData
<1>5. Sends(e, <<f>>)
  BY <1>1, <1>2, <1>4, SendsOne
<1>6. ASSUME NEW b \in Conn, NEW u \in Nat, Agree(c, b, p, u, q, 0) /\ Timed(c)
      PROVE  Agree(e, b, Put(p, <<f>>), u, q, 0) /\ Timed(e)
  <2>1. Agree(e, b, p, u, q, 0) /\ Timed(e)
    BY <1>6, KeptAgree
  <2> QED BY <1>4, <1>5, <2>1, SendsAgree
<1>7. \A b \in Conn, u \in Nat :
           Agree(c, b, p, u, q, 0) /\ Timed(c) => Agree(e, b, Put(p, <<f>>), u, q, 0) /\ Timed(e)
  BY <1>6, Zenon
<1>8. LinkOk(e, d, Put(p, <<f>>), q, n)
  BY <1>3, <1>4, <1>7, LinkGoesOn
<1> QED BY <1>8 DEF f

\* c is connected and takes no notice.
LEMMA LinkSilent ==
  ASSUME NEW c \in Conn, NEW d \in Conn, NEW p \in Seq(Frame), NEW q \in Seq(Frame), NEW n \in Nat,
         LinkOk(c, d, p, q, n), c.state = "CONNECTED"
  PROVE  LinkOk(c, d, Put(p, <<>>), q, n)
<1>1. ASSUME NEW b \in Conn, NEW u \in Nat, Agree(c, b, p, u, q, 0) /\ Timed(c)
      PROVE  Agree(c, b, Put(p, <<>>), u, q, 0) /\ Timed(c)
  <2>1. Sends(c, <<>>)
    BY SendsNothing
  <2> QED BY <1>1, <2>1, SendsAgree
<1>2. \A b \in Conn, u \in Nat :
           Agree(c, b, p, u, q, 0) /\ Timed(c) => Agree(c, b, Put(p, <<>>), u, q, 0) /\ Timed(c)
  BY <1>1, Zenon
<1> QED BY <1>2, QuietNothing, LinkGoesOn

-----------------------------------------------------------------------------
(***************************************************************************)
(* The invariant of the whole link.                                        *)
(***************************************************************************)
DataInv == \A s \in Station : LinkOk(conn[s], conn[Peer(s)], air[s], air[Peer(s)], dialled)

LEMMA TwoEnds ==
  ASSUME NEW s \in Station
  PROVE  /\ Peer(s) \in Station /\ Peer(s) # s /\ Peer(Peer(s)) = s
         /\ \A t \in Station : t = s \/ t = Peer(s)
<1>1. Peer(s) \in Station /\ Peer(s) # s
  BY PeerInStation
<1>2. \A t \in Station : t = s \/ t = Peer(s)
  BY <1>1, LinkAssumption
<1>3. Peer(Peer(s)) \in Station /\ Peer(Peer(s)) # Peer(s)
  BY <1>1, PeerInStation
<1> QED BY <1>1, <1>2, <1>3, Zenon

\* What an action finds.
LEMMA Finds ==
  ASSUME LinkInv, DataInv, NEW s \in Station
  PROVE  /\ conn[s] \in Conn /\ conn[Peer(s)] \in Conn /\ Sound(conn[s])
         /\ air[s] \in Seq(Frame) /\ air[Peer(s)] \in Seq(Frame) /\ dialled \in Nat
         /\ LinkOk(conn[s], conn[Peer(s)], air[s], air[Peer(s)], dialled)
BY InvFacts, TwoEnds DEF DataInv, LinkInv, TypeOK

\* By symmetry it is enough to look from one end.
LEMMA FromOneEnd ==
  ASSUME NEW s \in Station,
         LinkOk(conn'[s], conn'[Peer(s)], air'[s], air'[Peer(s)], dialled')
  PROVE  DataInv'
<1>1. LinkOk(conn'[Peer(s)], conn'[s], air'[Peer(s)], air'[s], dialled')
  BY LinkBoth
<1>2. ASSUME NEW t \in Station
      PROVE  LinkOk(conn'[t], conn'[Peer(t)], air'[t], air'[Peer(t)], dialled')
  <2>1. t = s \/ (t = Peer(s) /\ Peer(t) = s)
    BY TwoEnds
  <2> QED BY <1>1, <2>1, Zenon
<1> QED BY <1>2, Zenon DEF DataInv, Peer

LEMMA DataActs ==
  ASSUME LinkInv, NEW s \in Station, NEW c, NEW out, Act(s, c, out),
         LinkOk(c, conn[Peer(s)], Put(air[s], out), air[Peer(s)], dialled')
  PROVE  DataInv'
<1>1. Peer(s) \in Station /\ Peer(s) # s
  BY TwoEnds
<1>2. /\ conn'[s] = c /\ conn'[Peer(s)] = conn[Peer(s)]
      /\ air'[s] = Put(air[s], out) /\ air'[Peer(s)] = air[Peer(s)]
  BY <1>1 DEF Act, LinkInv, TypeOK
<1> QED BY <1>2, FromOneEnd, Zenon

LEMMA DataReacts ==
  ASSUME LinkInv, NEW s \in Station, NEW c, NEW out, React(s, c, out),
         LinkOk(c, conn[Peer(s)], Put(air[s], out), Tail(air[Peer(s)]), dialled)
  PROVE  DataInv'
<1>1. Peer(s) \in Station /\ Peer(s) # s
  BY TwoEnds
<1>2. /\ conn'[s] = c /\ conn'[Peer(s)] = conn[Peer(s)]
      /\ air'[s] = Put(air[s], out) /\ air'[Peer(s)] = Tail(air[Peer(s)]) /\ dialled' = dialled
  BY <1>1 DEF React, LinkInv, TypeOK
<1> QED BY <1>2, FromOneEnd, Zenon

LEMMA InitData == Init => DataInv
<1> SUFFICES ASSUME Init PROVE DataInv
  OBVIOUS
<1>1. ASSUME NEW s \in Station
      PROVE  LinkOk(conn[s], conn[Peer(s)], air[s], air[Peer(s)], dialled)
  <2>1. Peer(s) \in Station
    BY TwoEnds
  <2>2. /\ conn[s] = NewConn /\ conn[Peer(s)] = NewConn /\ air[s] = <<>> /\ air[Peer(s)] = <<>>
        /\ dialled = 0
    BY <2>1 DEF Init
  <2>3. NewConn.state = "DISCONNECTED" /\ NewConn.inc = 0 /\ NewConn.sabm = 0
    BY DEF NewConn
  <2>4. /\ CleanOk(NewConn, NewConn, <<>>, <<>>) /\ HalfOk(NewConn, NewConn, <<>>, <<>>)
    BY <2>3 DEF CleanOk, HalfOk, Waits
  <2>5. Numbered(NewConn, NewConn, <<>>, <<>>, 0)
    BY <2>3 DEF Numbered, CallsOf, Apart, LinedFrom
  <2> QED BY <2>2, <2>4, <2>5, Zenon DEF LinkOk
<1> QED BY <1>1 DEF DataInv

\* connect(), disconnect() and write() keep the invariant.
LEMMA CallsKeepData ==
  ASSUME LinkInv, DataInv, NEW s \in Station, Connect(s) \/ Disconnect(s) \/ Write(s)
  PROVE  DataInv'
<1> DEFINE c == conn[s]
           d == conn[Peer(s)]
           p == air[s]
           q == air[Peer(s)]
           n == dialled
<1>1. /\ c \in Conn /\ d \in Conn /\ Sound(c) /\ p \in Seq(Frame) /\ q \in Seq(Frame) /\ n \in Nat
      /\ LinkOk(c, d, p, q, n)
  BY Finds
<1>2. CASE Connect(s)
  <2> DEFINE m == n + 1
             f == UFrame("SABM", m)
             e == [c EXCEPT !.state = "AWAITING_CONNECT", !.retry = 0, !.progress = 0, !.t1 = TRUE,
                            !.sabm = m]
  <2>1. Act(s, e, <<f>>) /\ dialled' = m
    BY <1>2 DEF Connect
  <2>2. m \in Nat /\ m = n + 1
    BY <1>1
  <2> HIDE DEF m
  <2>3. f \in Frame /\ f.type = "SABM" /\ f.inc = m
    BY <2>2, UFrameType, UFrameFields DEF FrameTypes
  <2>4. e.sabm = m /\ e.inc = c.inc /\ e.state = "AWAITING_CONNECT"
    BY <1>1 DEF Conn
  <2> HIDE DEF e, f
  <2>5. LinkOk(e, d, Put(p, <<f>>), q, m)
    BY <1>1, <2>2, <2>3, <2>4, LinkCalls
  <2> QED BY <2>1, <2>5, DataActs
<1>3. CASE Disconnect(s)
  <2> DEFINE e == [c EXCEPT !.state = "AWAITING_RELEASE", !.t1 = TRUE, !.t3 = FALSE]
             f == UFrame("DISC", 0)
  <2>1. Act(s, e, <<f>>) /\ dialled' = n
    BY <1>3 DEF Disconnect
  <2>2. Quiet(<<f>>)
    BY UFrameType, UFrameFields, QuietOne DEF FrameTypes
  <2>3. e.sabm = c.sabm /\ e.inc = c.inc /\ e.state = "AWAITING_RELEASE"
    BY <1>1 DEF Conn
  <2> HIDE DEF e, f
  <2>4. LinkOk(e, d, Put(p, <<f>>), q, n)
    BY <1>1, <2>2, <2>3, LinkBroken
  <2> QED BY <2>1, <2>4, DataActs
<1>4. CASE Write(s)
  <2>1. PICK i \in 1 .. MaxWrites - written :
          LET x == [conn[s] EXCEPT !.txq = @ + i] IN Act(s, Pump(x), PumpFrames(x))
    BY <1>4, Zenon DEF Write
  <2> DEFINE k == c.txq + i
             x == [c EXCEPT !.txq = k]
  <2>2. c.state = "CONNECTED" /\ dialled' = n
    BY <1>4 DEF Write
  <2>3. k \in Nat
    BY <1>1, ConnFields, LinkAssumption DEF LinkInv, TypeOK
  <2>4. Act(s, Pump(x), PumpFrames(x))
    BY <2>1
  <2> HIDE DEF k
  <2>5. LinkOk(Pump(x), d, Put(p, PumpFrames(x)), q, n)
    BY <1>1, <2>2, <2>3, LinkWrites
  <2> HIDE DEF x
  <2> QED BY <2>2, <2>4, <2>5, DataActs
<1> QED BY <1>2, <1>3, <1>4

\* Down() and a release that is answered.
LEMMA DownLink ==
  ASSUME NEW c \in Conn
  PROVE  Down(c).sabm = c.sabm /\ Down(c).inc = c.inc /\ Down(c).state = "DISCONNECTED"
BY DEF Down, Conn

\* Receiving a frame keeps the invariant.
LEMMA ReceiveKeepsData ==
  ASSUME LinkInv, DataInv, NEW s \in Station, Receive(s)
  PROVE  DataInv'
<1> DEFINE c == conn[s]
           d == conn[Peer(s)]
           p == air[s]
           q == air[Peer(s)]
           n == dialled
           f == Head(q)
           r == Tail(q)
<1>1. /\ c \in Conn /\ d \in Conn /\ Sound(c) /\ p \in Seq(Frame) /\ q \in Seq(Frame) /\ n \in Nat
      /\ LinkOk(c, d, p, q, n)
  BY Finds
<1>2. q # <<>> /\ Arrival(s) = f
  BY Zenon DEF Receive, Arrived, Arrival, HandleSABM, HandleUA, HandleDISC, HandleDM, HandleI,
               RefuseI, HandleRR, HandleRNR, HandleREJ, IgnoreS
<1>3. f \in Frame /\ r \in Seq(Frame)
  BY <1>1, <1>2, TailAt
<1>4. f.inc \in Nat
  BY <1>3 DEF Frame
<1>5. LinkOk(c, d, p, r, n)
  BY <1>1, <1>2, LinkTail
<1>6. FrameTypes = {"SABM", "UA", "DISC", "DM", "I", "RR", "RNR", "REJ"}
  BY DEF FrameTypes
<1> HIDE DEF c, d, p, q, n
<1>7. ASSUME NEW e, NEW out, React(s, e, out), LinkOk(e, d, Put(p, out), r, n) PROVE DataInv'
  BY <1>7, DataReacts DEF d, p, q, n
<1>8. CASE HandleSABM(s)
  <2> DEFINE g == UFrame("UA", f.inc)
  <2>1. React(s, Up(c, f.inc), <<g>>) /\ f.type = "SABM"
    BY <1>2, <1>8 DEF HandleSABM, Arrived, c, q
  <2>2. g \in Frame /\ g.type = "UA" /\ g.inc = f.inc
    BY <1>4, <1>6, UFrameType, UFrameFields
  <2> HIDE DEF g
  <2>3. LinkOk(Up(c, f.inc), d, Put(p, <<g>>), r, n)
    BY <1>1, <1>2, <2>1, <2>2, LinkAnswers
  <2> QED BY <1>7, <2>1, <2>3
<1>9. CASE HandleUA(s)
  <2> DEFINE out == IF c.state = "AWAITING_CONNECT"
                    THEN PumpFrames([Up(c, 0) EXCEPT !.t1 = FALSE]) ELSE <<>>
             e == AfterUA(c, f.inc)
  <2>1. React(s, e, out) /\ f.type = "UA"
    BY <1>2, <1>9 DEF HandleUA, Arrived, c, q
  <2>2. CASE c.state = "AWAITING_CONNECT"
    <3>1. LinkOk(e, d, Put(p, out), r, n)
      BY <1>1, <1>2, <2>1, <2>2, LinkCompletes
    <3> QED BY <1>7, <2>1, <3>1
  <2>3. CASE c.state = "AWAITING_RELEASE"
    <3>1. out = <<>>
      BY <2>3
    <3>2. e = [c EXCEPT !.state = "DISCONNECTED", !.t1 = FALSE, !.woken = TRUE]
      BY <2>3 DEF AfterUA
    <3> HIDE DEF e, out
    <3>3. e.sabm = c.sabm /\ e.inc = c.inc /\ e.state = "DISCONNECTED"
      BY <1>1, <3>2 DEF Conn
    <3>4. LinkOk(e, d, Put(p, <<>>), r, n)
      BY <1>1, <1>3, <1>5, <3>3, QuietNothing, LinkBroken
    <3> QED BY <1>7, <2>1, <3>1, <3>4
  <2>4. CASE c.state \in {"CONNECTED", "DISCONNECTED"}
    <3>1. out = <<>> /\ e = c
      BY <2>4 DEF AfterUA
    <3> HIDE DEF e, out
    <3>2. LinkOk(c, d, Put(p, <<>>), r, n)
      <4>1. CASE c.state = "CONNECTED"
        BY <1>1, <1>3, <1>5, <4>1, LinkSilent
      <4>2. CASE c.state # "CONNECTED"
        <5>1. \A i \in DOMAIN <<>> : <<>>[i].type \in {"UA", "DM"}
          OBVIOUS
        <5> QED BY <1>1, <1>3, <1>5, <4>2, <5>1, QuietNothing, LinkIdle
      <4> QED BY <4>1, <4>2
    <3> QED BY <1>7, <2>1, <3>1, <3>2
  <2> QED BY <1>1, <2>2, <2>3, <2>4, ConnFields DEF States
<1>10. CASE HandleDISC(s)
  <2>1. React(s, Down(c), <<UFrame("UA", 0)>>)
    BY <1>10 DEF HandleDISC, c
  <2>2. Quiet(<<UFrame("UA", 0)>>)
    BY <1>6, UFrameType, UFrameFields, QuietOne
  <2>3. LinkOk(Down(c), d, Put(p, <<UFrame("UA", 0)>>), r, n)
    BY <1>1, <1>3, <1>5, <2>2, DownLink, LinkBroken
  <2> QED BY <1>7, <2>1, <2>3
<1>11. CASE HandleDM(s)
  <2>1. React(s, Down(c), <<>>)
    BY <1>11 DEF HandleDM, c
  <2>2. LinkOk(Down(c), d, Put(p, <<>>), r, n)
    BY <1>1, <1>3, <1>5, DownLink, QuietNothing, LinkBroken
  <2> QED BY <1>7, <2>1, <2>2
<1>12. CASE RefuseI(s)
  <2> DEFINE g == UFrame("DM", 0)
  <2>1. React(s, c, <<g>>) /\ c.state # "CONNECTED"
    BY <1>12 DEF RefuseI, c
  <2>2. g \in Frame /\ g.type = "DM" /\ g.inc = 0
    BY <1>6, UFrameType, UFrameFields
  <2> HIDE DEF g
  <2>3. Quiet(<<g>>) /\ \A i \in DOMAIN <<g>> : <<g>>[i].type \in {"UA", "DM"}
    BY <2>2, QuietOne
  <2>4. LinkOk(c, d, Put(p, <<g>>), r, n)
    BY <1>1, <1>3, <1>5, <2>1, <2>3, LinkIdle
  <2> QED BY <1>7, <2>1, <2>4
<1>13. CASE HandleI(s)
  <2> DEFINE x == AfterI(c, f)
             out == <<Answer(c, f)>> \o PumpFrames(x)
  <2>1. React(s, Pump(x), out) /\ f.type = "I" /\ c.state = "CONNECTED"
    BY <1>2, <1>13 DEF HandleI, Arrived, c, q
  <2>2. LinkOk(Pump(x), d, Put(p, out), r, n)
    BY <1>1, <1>2, <2>1, LinkHearsI
  <2> QED BY <1>7, <2>1, <2>2
<1>14. CASE HandleRR(s)
  <2> DEFINE x == AfterRR(c, f)
  <2>1. React(s, Pump(x), PumpFrames(x)) /\ f.type = "RR" /\ c.state = "CONNECTED"
    BY <1>2, <1>14 DEF HandleRR, Arrived, c, q
  <2>2. LinkOk(Pump(x), d, Put(p, PumpFrames(x)), r, n)
    BY <1>1, <1>2, <2>1, LinkHearsRR
  <2> QED BY <1>7, <2>1, <2>2
<1>15. CASE HandleRNR(s)
  <2>1. React(s, AfterRNR(c, f), <<>>) /\ f.type = "RNR" /\ c.state = "CONNECTED"
    BY <1>2, <1>15 DEF HandleRNR, Arrived, c, q
  <2>2. LinkOk(AfterRNR(c, f), d, Put(p, <<>>), r, n)
    BY <1>1, <1>2, <2>1, LinkHearsRNR
  <2> QED BY <1>7, <2>1, <2>2
<1>16. CASE HandleREJ(s)
  <2>1. f.type = "REJ" /\ c.state = "CONNECTED"
    BY <1>2, <1>16 DEF HandleREJ, Arrived, c, q
  <2>2. PICK out \in Retransmissions(UpdateVA(c, f.nr), f.nr) : React(s, AfterREJ(c, f), out)
    BY <1>2, <1>16 DEF HandleREJ, c
  <2>3. LinkOk(AfterREJ(c, f), d, Put(p, out), r, n)
    BY <1>1, <1>2, <2>1, LinkHearsREJ
  <2> QED BY <1>7, <2>2, <2>3
<1>17. CASE IgnoreS(s)
  <2>1. React(s, c, <<>>) /\ c.state # "CONNECTED"
    BY <1>17 DEF IgnoreS, c
  <2>2. \A i \in DOMAIN <<>> : <<>>[i].type \in {"UA", "DM"}
    OBVIOUS
  <2>3. LinkOk(c, d, Put(p, <<>>), r, n)
    BY <1>1, <1>3, <1>5, <2>1, <2>2, QuietNothing, LinkIdle
  <2> QED BY <1>7, <2>1, <2>3
<1> QED
  BY <1>8, <1>9, <1>10, <1>11, <1>12, <1>13, <1>14, <1>15, <1>16, <1>17 DEF Receive

\* A timer that expires keeps the invariant.
LEMMA TimersKeepData ==
  ASSUME LinkInv, DataInv, NEW s \in Station, T1Expire(s) \/ T3Expire(s)
  PROVE  DataInv'
<1> DEFINE c == conn[s]
           d == conn[Peer(s)]
           p == air[s]
           q == air[Peer(s)]
           n == dialled
<1>1. /\ c \in Conn /\ d \in Conn /\ Sound(c) /\ p \in Seq(Frame) /\ q \in Seq(Frame) /\ n \in Nat
      /\ LinkOk(c, d, p, q, n)
  BY Finds
<1> HIDE DEF c, d, p, q, n
<1>2. ASSUME NEW e, NEW out, Act(s, e, out), LinkOk(e, d, Put(p, out), q, dialled') PROVE DataInv'
  BY <1>2, DataActs DEF d, p, q
<1>3. ASSUME c.state # "DISCONNECTED"
      PROVE  /\ Retry(c) \in Conn /\ Retry(c).state = c.state /\ Retry(c).sabm = c.sabm
             /\ Retry(c).inc = c.inc /\ Kept(c, Retry(c))
  <2>1. Retry(c) \in Conn /\ Retry(c).state = c.state /\ Retry(c).t1 = c.t1
    BY <1>1, <1>3, RetrySound
  <2>2. Retry(c).sabm = c.sabm /\ Retry(c).inc = c.inc /\ SameData(c, Retry(c))
    BY <1>1 DEF Retry, Conn, SameData
  <2> QED BY <2>1, <2>2 DEF Kept, SameLink
<1>4. CASE T1Connect(s)
  <2> DEFINE m == n + 1
             f == UFrame("SABM", m)
             g == Retry(c)
             e == [g EXCEPT !.sabm = m]
  <2>1. Act(s, e, <<f>>) /\ dialled' = m /\ c.state = "AWAITING_CONNECT"
    BY <1>4 DEF T1Connect, c, n
  <2>2. m \in Nat /\ m = n + 1
    BY <1>1
  <2> HIDE DEF m
  <2>3. f \in Frame /\ f.type = "SABM" /\ f.inc = m
    BY <2>2, UFrameType, UFrameFields DEF FrameTypes
  <2>4. g \in Conn /\ g.state = "AWAITING_CONNECT" /\ g.inc = c.inc
    BY <1>3, <2>1
  <2> HIDE DEF g
  <2>5. e.sabm = m /\ e.inc = c.inc /\ e.state = "AWAITING_CONNECT"
    BY <2>4 DEF Conn
  <2> HIDE DEF e, f
  <2>6. LinkOk(e, d, Put(p, <<f>>), q, m)
    BY <1>1, <2>2, <2>3, <2>5, LinkCalls
  <2> QED BY <1>2, <2>1, <2>6
<1>5. CASE T1NoAnswer(s)
  <2> DEFINE g == Retry(c)
             e == [g EXCEPT !.state = "DISCONNECTED", !.t1 = FALSE]
  <2>1. Act(s, e, <<>>) /\ dialled' = n /\ c.state = "AWAITING_CONNECT"
    BY <1>5 DEF T1NoAnswer, c, n
  <2>2. g \in Conn /\ g.sabm = c.sabm /\ g.inc = c.inc
    BY <1>3, <2>1
  <2> HIDE DEF g
  <2>3. e.sabm = c.sabm /\ e.inc = c.inc /\ e.state = "DISCONNECTED"
    BY <2>2 DEF Conn
  <2> HIDE DEF e
  <2>4. LinkOk(e, d, Put(p, <<>>), q, n)
    BY <1>1, <2>3, QuietNothing, LinkBroken
  <2> QED BY <1>2, <2>1, <2>4
<1>6. CASE T1Release(s)
  <2>1. dialled' = n /\ c.state = "AWAITING_RELEASE"
    BY <1>6 DEF T1Release, c, n
  <2>2. \/ Act(s, Retry(c), <<UFrame("DISC", 0)>>)
        \/ Act(s, Down(Retry(c)), <<>>)
    BY <1>6, Zenon DEF T1Release, c
  <2> DEFINE g == Retry(c)
             e == Down(g)
  <2>3. g \in Conn /\ g.sabm = c.sabm /\ g.inc = c.inc /\ g.state = "AWAITING_RELEASE"
    BY <1>3, <2>1
  <2> HIDE DEF g
  <2>4. Quiet(<<UFrame("DISC", 0)>>)
    BY UFrameType, UFrameFields, QuietOne DEF FrameTypes
  <2>5. LinkOk(g, d, Put(p, <<UFrame("DISC", 0)>>), q, n)
    BY <1>1, <2>3, <2>4, LinkBroken
  <2>6. e.sabm = c.sabm /\ e.inc = c.inc /\ e.state = "DISCONNECTED"
    BY <2>3, DownLink
  <2> HIDE DEF e
  <2>7. LinkOk(e, d, Put(p, <<>>), q, n)
    BY <1>1, <2>6, QuietNothing, LinkBroken
  <2>8. CASE Act(s, g, <<UFrame("DISC", 0)>>)
    BY <1>2, <2>1, <2>5, <2>8
  <2>9. CASE Act(s, e, <<>>)
    BY <1>2, <2>1, <2>7, <2>9
  <2> QED BY <2>2, <2>8, <2>9 DEF e, g
<1>7. CASE T1Retransmit(s)
  <2>1. PICK out \in Retransmissions(c, c.va) : Act(s, Retry(c), out)
    BY <1>7 DEF T1Retransmit, c
  <2>2. dialled' = n /\ c.state = "CONNECTED"
    BY <1>7 DEF T1Retransmit, c, n
  <2>3. Kept(c, Retry(c))
    BY <1>3, <2>2
  <2>4. LinkOk(Retry(c), d, Put(p, out), q, n)
    BY <1>1, <2>2, <2>3, LinkResends
  <2> QED BY <1>2, <2>1, <2>2, <2>4
<1>8. CASE LinkFailure(s)
  <2> DEFINE g == Retry(c)
             e == Down(g)
  <2>1. Act(s, e, <<>>) /\ dialled' = n /\ c.state = "CONNECTED"
    BY <1>8 DEF LinkFailure, c, n
  <2>2. g \in Conn /\ g.sabm = c.sabm /\ g.inc = c.inc
    BY <1>3, <2>1
  <2> HIDE DEF g
  <2>3. e.sabm = c.sabm /\ e.inc = c.inc /\ e.state = "DISCONNECTED"
    BY <2>2, DownLink
  <2> HIDE DEF e
  <2>4. LinkOk(e, d, Put(p, <<>>), q, n)
    BY <1>1, <2>3, QuietNothing, LinkBroken
  <2> QED BY <1>2, <2>1, <2>4
<1>9. CASE T1Poll(s)
  <2>1. Act(s, c, <<SFrame("RR", c.vr)>>) /\ dialled' = n /\ c.state = "CONNECTED"
    BY <1>9 DEF T1Poll, c, n
  <2>2. Kept(c, c)
    BY <1>1 DEF Kept, SameLink, SameData
  <2>3. LinkOk(c, d, Put(p, <<SFrame("RR", c.vr)>>), q, n)
    BY <1>1, <2>1, <2>2, LinkTells
  <2> QED BY <1>2, <2>1, <2>3
<1>10. CASE T3Expire(s)
  <2> DEFINE e == [c EXCEPT !.t3 = FALSE, !.t1 = TRUE]
  <2>1. Act(s, e, <<SFrame("RR", c.vr)>>) /\ dialled' = n /\ c.state = "CONNECTED"
    BY <1>10 DEF T3Expire, c, n
  <2>2. Kept(c, e)
    BY <1>1, FlagsKept
  <2> HIDE DEF e
  <2>3. LinkOk(e, d, Put(p, <<SFrame("RR", c.vr)>>), q, n)
    BY <1>1, <2>1, <2>2, LinkTells
  <2> QED BY <1>2, <2>1, <2>3
<1> QED BY <1>4, <1>5, <1>6, <1>7, <1>8, <1>9, <1>10 DEF T1Expire

\* Every step keeps the invariant.
LEMMA StepKeepsData == LinkInv /\ DataInv /\ [Next]_vars => DataInv'
<1> SUFFICES ASSUME LinkInv, DataInv, [Next]_vars PROVE DataInv'
  OBVIOUS
<1>1. CASE UNCHANGED vars
  BY <1>1, Zenon DEF vars, DataInv, Peer
<1>2. ASSUME NEW s \in Station, Step(s) PROVE DataInv'
  <2>1. CASE Connect(s) \/ Disconnect(s) \/ Write(s)
    BY <2>1, CallsKeepData
  <2>2. CASE Receive(s)
    BY <2>2, ReceiveKeepsData
  <2>3. CASE T1Expire(s) \/ T3Expire(s)
    BY <2>3, TimersKeepData
  <2>4. CASE ForeignRNR(s)
    <3> DEFINE c == conn[s]
    <3>1. Act(s, c, <<SFrame("RNR", c.vr)>>) /\ dialled' = dialled /\ c.state = "CONNECTED"
      BY <2>4 DEF ForeignRNR
    <3>2. /\ c \in Conn /\ conn[Peer(s)] \in Conn /\ air[s] \in Seq(Frame) /\ air[Peer(s)] \in Seq(Frame)
          /\ dialled \in Nat /\ LinkOk(c, conn[Peer(s)], air[s], air[Peer(s)], dialled)
      BY Finds
    <3>3. Kept(c, c)
      BY <3>2 DEF Kept, SameLink, SameData
    <3> HIDE DEF c
    <3>4. LinkOk(c, conn[Peer(s)], Put(air[s], <<SFrame("RNR", c.vr)>>), air[Peer(s)], dialled)
      BY <3>1, <3>2, <3>3, LinkTells
    <3> QED BY <3>1, <3>4, DataActs
  <2>5. CASE Lose(s)
    <3>1. Peer(s) \in Station /\ Peer(s) # s /\ Peer(Peer(s)) = s
      BY TwoEnds
    <3>2. /\ air[s] \in Seq(Frame) /\ air[s] # <<>>
          /\ LinkOk(conn[Peer(s)], conn[s], air[Peer(s)], air[s], dialled)
      BY <2>5, <3>1, Finds, LinkBoth DEF Lose
    <3>3. LinkOk(conn[Peer(s)], conn[s], air[Peer(s)], Tail(air[s]), dialled)
      BY <3>2, LinkTail
    <3>4. LinkOk(conn[s], conn[Peer(s)], Tail(air[s]), air[Peer(s)], dialled)
      BY <3>3, LinkBoth
    <3>5. /\ conn' = conn /\ dialled' = dialled /\ air'[s] = Tail(air[s])
          /\ air'[Peer(s)] = air[Peer(s)]
      BY <2>5, <3>1 DEF Lose, LinkInv, TypeOK
    <3> QED BY <3>4, <3>5, FromOneEnd, Zenon
  <2> QED BY <1>2, <2>1, <2>2, <2>3, <2>4, <2>5 DEF Step
<1> QED BY <1>1, <1>2 DEF Next

\* The invariant of the data holds in every state of every behaviour.
THEOREM DataInvariance == Spec => []DataInv
<1>1. Init => DataInv
  BY InitData
<1>2. LinkInv /\ DataInv /\ [Next]_vars => DataInv'
  BY StepKeepsData
<1> QED BY <1>1, <1>2, Invariance, PTL DEF Spec

\* On a clean link both ends agree, and T1 is pending where it has to be.
LEMMA CleanFacts ==
  ASSUME LinkInv, DataInv, Clean, NEW s \in Station
  PROVE  /\ conn[s] \in Conn /\ conn[Peer(s)] \in Conn
         /\ Agree(conn[s], conn[Peer(s)], air[s], 0, air[Peer(s)], 0) /\ Timed(conn[s])
<1>1. Peer(s) \in Station
  BY TwoEnds
<1>2. /\ conn[s] \in Conn /\ conn[Peer(s)] \in Conn
      /\ LinkOk(conn[s], conn[Peer(s)], air[s], air[Peer(s)], dialled)
  BY Finds
<1>3. /\ conn[s].state = "CONNECTED" /\ conn[Peer(s)].state = "CONNECTED"
      /\ conn[s].inc # 0 /\ conn[s].inc = conn[Peer(s)].inc
  BY <1>1 DEF Clean
<1> QED BY <1>2, <1>3, Zenon DEF LinkOk, CleanOk

\* Go-back-N for every modulus and window: whatever is lost or sent again by
\* _handle_rej and _t1_expire, the reader of a clean link gets the chunks of the
\* other end from the first on, none missing, none twice, in order.
THEOREM InOrder == Spec => []InOrderDelivery
<1>1. LinkInv /\ DataInv => InOrderDelivery
  <2> SUFFICES ASSUME LinkInv, DataInv, Clean, NEW s \in Station
               PROVE  /\ Len(conn[s].rcvd) <= conn[Peer(s)].sent
                      /\ \A i \in DOMAIN conn[s].rcvd : conn[s].rcvd[i] = i
    BY DEF InOrderDelivery
  <2>1. /\ conn[s] \in Conn /\ conn[Peer(s)] \in Conn
        /\ Agree(conn[s], conn[Peer(s)], air[s], 0, air[Peer(s)], 0)
    BY CleanFacts
  <2> QED BY <2>1, AgreeFacts DEF Taken
<1> QED BY <1>1, Invariance, DataInvariance, PTL

\* _update_va gives up no chunk that the other end has not taken: what is not
\* with the receiver is still held for retransmission.
THEOREM NothingForgotten == Spec => []NothingForgottenEarly
<1>1. LinkInv /\ DataInv => NothingForgottenEarly
  <2> SUFFICES ASSUME LinkInv, DataInv, Clean, NEW s \in Station, NEW k \in 1 .. conn[s].sent,
                      ~(k <= Len(conn[Peer(s)].rcvd))
               PROVE  \E n \in SeqNo : conn[s].unacked[n] = k
    BY DEF NothingForgottenEarly
  <2> DEFINE c == conn[s]
  <2>1. /\ c \in Conn /\ conn[Peer(s)] \in Conn
        /\ Agree(c, conn[Peer(s)], air[s], 0, air[Peer(s)], 0)
    BY CleanFacts
  <2>2. /\ Framed(c) /\ Acked(c) \in Nat /\ c.sent \in Nat /\ Acked(c) <= Len(conn[Peer(s)].rcvd)
        /\ Len(conn[Peer(s)].rcvd) \in Nat
    BY <2>1, AgreeFacts
  <2>3. k \in Acked(c) + 1 .. c.sent /\ k - 1 \in Int
    BY <2>2
  <2>4. c.unacked[(k - 1) % Mod] = k
    BY <2>2, <2>3 DEF Framed, FramedFrom
  <2> QED BY <2>3, <2>4, ModInSeqNo
<1> QED BY <1>1, Invariance, DataInvariance, PTL

\* _pump_tx never frames more than the window, and what the counters V(A) and
\* V(S) call outstanding is what is held.
THEOREM WindowHolds == Spec => []WindowIsHeld
<1>1. LinkInv /\ DataInv => WindowIsHeld
  <2> SUFFICES ASSUME LinkInv, DataInv, Clean, NEW s \in Station
               PROVE  WindowHeld(conn[s])
    BY DEF WindowIsHeld
  <2> DEFINE c == conn[s]
             k == Acked(c)
  <2>1. /\ c \in Conn /\ conn[Peer(s)] \in Conn
        /\ Agree(c, conn[Peer(s)], air[s], 0, air[Peer(s)], 0)
    BY CleanFacts
  <2>2. Framed(c)
    BY <2>1 DEF Agree, OneWay
  <2>3. /\ k \in Nat /\ c.sent \in Nat /\ k <= c.sent /\ c.sent <= k + Window
        /\ Outstanding(c) = c.sent - k /\ FramedFrom(c, k) /\ Window \in Nat
    BY <2>1, <2>2, FramedFacts, ModIsSmall
  <2> HIDE DEF k
  <2>4. ASSUME NEW n \in SeqNo, Dist(c.va, n) < Outstanding(c) PROVE c.unacked[n] # None
    <3>1. PICK z \in Nat : k <= z /\ n = z % Mod /\ Dist(k % Mod, n) = z - k
      BY <2>3, NumberOf
    <3>2. z - k < c.sent - k
      BY <2>3, <2>4, <3>1 DEF FramedFrom
    <3>3. z + 1 \in k + 1 .. c.sent /\ (z + 1) - 1 = z /\ z + 1 # 0
      BY <2>3, <3>1, <3>2
    <3>4. c.unacked[n] = z + 1
      BY <2>3, <3>1, <3>3 DEF FramedFrom
    <3> QED BY <3>3, <3>4 DEF None
  <2>5. ASSUME NEW n \in SeqNo, c.unacked[n] # None PROVE Dist(c.va, n) < Outstanding(c)
    <3>1. Dist(c.va, n) \in Nat
      BY <2>1, ConnFields, DistType, SeqNoInt
    <3>2. ~(Dist(c.va, n) >= c.sent - k)
      BY <2>3, <2>5 DEF FramedFrom
    <3> QED BY <2>3, <3>1, <3>2
  <2>6. HeldNumbers(c) = {n \in SeqNo : Dist(c.va, n) < Outstanding(c)}
    BY <2>4, <2>5 DEF HeldNumbers
  <2>7. Outstanding(c) <= Window
    BY <2>3
  <2> QED BY <2>6, <2>7 DEF WindowHeld
<1> QED BY <1>1, Invariance, DataInvariance, PTL

\* Whoever waits for an answer has T1 pending: no loss leaves a call, a release
\* or an unacknowledged frame of a clean link without a timer.
THEOREM NoStall == Spec => []NoSilentStall
<1>1. LinkInv /\ DataInv => NoSilentStall
  <2> SUFFICES ASSUME LinkInv, DataInv, NEW s \in Station
               PROVE  /\ conn[s].state \in {"AWAITING_CONNECT", "AWAITING_RELEASE"} => conn[s].t1
                      /\ Clean /\ Outstanding(conn[s]) # 0 => conn[s].t1
    BY DEF NoSilentStall
  <2>1. Sound(conn[s])
    BY Finds
  <2>2. Clean => Timed(conn[s])
    BY CleanFacts
  <2> QED BY <2>1, <2>2 DEF Sound, Timed
<1> QED BY <1>1, Invariance, DataInvariance, PTL

-----------------------------------------------------------------------------
(***************************************************************************)
(* The link implements ReliableLink.                                       *)
(***************************************************************************)
Together(c, d) ==
  c.state = "CONNECTED" /\ d.state = "CONNECTED" /\ c.inc # 0 /\ c.inc = d.inc

\* More is framed, and at most the next chunk is taken.
Grows(c, e) ==
  /\ e.sent >= c.sent
  /\ e.rcvd = c.rcvd \/ e.rcvd = Append(c.rcvd, Len(c.rcvd) + 1)

\* What a step of the end c, which becomes e, may do to a link with d.
Moves(c, e, d) ==
  /\ ~Together(c, d) /\ Together(e, d) => e.rcvd = <<>> /\ d.rcvd = <<>>
  /\ Together(c, d) /\ Together(e, d) => Grows(c, e)

LEMMA MovesDown ==
  ASSUME NEW c, NEW e, NEW d, e.state # "CONNECTED"
  PROVE  Moves(c, e, d)
BY DEF Moves, Together

LEMMA MovesOn ==
  ASSUME NEW c, NEW e, NEW d, SameLink(c, e), e.sent >= c.sent, e.rcvd = c.rcvd
  PROVE  Moves(c, e, d)
<1>1. Together(e, d) = Together(c, d)
  BY DEF SameLink, Together
<1> QED BY <1>1, Zenon DEF Moves, Grows

\* A step that does no more than _pump_tx.
LEMMA MovesPump ==
  ASSUME NEW c \in Conn, NEW x, NEW d, SameLink(c, x), x.sent = c.sent, x.rcvd = c.rcvd
  PROVE  Moves(c, Pump(x), d)
<1>1. x \in Conn
  BY DEF SameLink
<1>2. Pump(x).sent = x.sent + PumpCount(x) /\ Pump(x).rcvd = x.rcvd /\ PumpCount(x) \in Nat
  BY <1>1, PumpFields, PumpCountType
<1>3. SameLink(c, Pump(x))
  BY <1>1, PumpLink, SameLinkOn
<1>4. Pump(x).sent >= c.sent
  <2>1. c.sent \in Nat
    BY ConnFields
  <2>2. c.sent + PumpCount(x) >= c.sent
    BY <1>2, <2>1
  <2> QED BY <1>2, <2>2, Zenon
<1> QED BY <1>2, <1>3, <1>4, MovesOn

LEMMA MovesKept ==
  ASSUME NEW c \in Conn, NEW e, NEW d, Kept(c, e)
  PROVE  Moves(c, e, d)
<1>1. SameLink(c, e) /\ e.sent = c.sent /\ e.rcvd = c.rcvd
  BY DEF Kept, SameData
<1>2. e.sent >= c.sent
  BY <1>1, ConnFields
<1> QED BY <1>1, <1>2, MovesOn

LEMMA MovesI ==
  ASSUME NEW c \in Conn, NEW d \in Conn, NEW p, NEW q \in Seq(Frame), NEW n, LinkOk(c, d, p, q, n),
         q # <<>>, Head(q).type = "I"
  PROVE  Moves(c, Pump(AfterI(c, Head(q))), d)
<1> DEFINE x == AfterI(c, Head(q))
           e == Pump(x)
<1>1. Head(q) \in Frame
  OBVIOUS
<1>2. SameLink(c, x)
  BY <1>1, AfterILink
<1>3. Together(c, d) => /\ x.sent = c.sent
                        /\ x.rcvd = c.rcvd \/ x.rcvd = Append(c.rcvd, Len(c.rcvd) + 1)
  <2> SUFFICES ASSUME Together(c, d)
               PROVE  /\ x.sent = c.sent
                      /\ x.rcvd = c.rcvd \/ x.rcvd = Append(c.rcvd, Len(c.rcvd) + 1)
    OBVIOUS
  <2>1. Agree(c, d, p, 0, q, 0) /\ Timed(c)
    BY Zenon DEF Together, LinkOk, CleanOk
  <2> QED BY <2>1, AfterIAgrees
<1> HIDE DEF x
<1>4. x \in Conn
  BY <1>2 DEF SameLink
<1>5. /\ e.rcvd = x.rcvd /\ e.sent = x.sent + PumpCount(x) /\ PumpCount(x) \in Nat
      /\ SameLink(x, e) /\ x.sent \in Nat
  BY <1>4, PumpFields, PumpCountType, PumpLink, ConnFields
<1>6. e.sent >= x.sent
  BY <1>5
<1> HIDE DEF e
<1>7. Together(e, d) = Together(c, d)
  BY <1>2, <1>5 DEF SameLink, Together
<1>8. Together(c, d) => Grows(c, e)
  BY <1>3, <1>5, <1>6, Zenon DEF Grows
<1>9. Moves(c, e, d)
  BY <1>7, <1>8, Zenon DEF Moves
<1> QED BY <1>9 DEF e, x

\* A call that arrives is not the one the other end is up with.
LEMMA MovesSABM ==
  ASSUME NEW c \in Conn, NEW d \in Conn, NEW p, NEW q \in Seq(Frame), NEW n, LinkOk(c, d, p, q, n),
         q # <<>>, Head(q).type = "SABM"
  PROVE  Moves(c, Up(c, Head(q).inc), d)
<1>1. Head(q) = q[1] /\ 1 \in DOMAIN q /\ Head(q) \in Frame
  BY TailAt
<1>2. Head(q).inc # d.inc
  <2>1. q[1] \in CallOf(d, n)
    BY <1>1 DEF LinkOk, Numbered, CallsOf, LinedFrom
  <2> QED BY <1>1, <2>1 DEF CallOf
<1>3. Head(q).inc \in Nat
  BY <1>1 DEF Frame
<1>4. Up(c, Head(q).inc).inc = Head(q).inc
  BY <1>3, UpFields
<1> QED BY <1>2, <1>4 DEF Moves, Together

\* The UA that completes a call finds nothing read at either end.
LEMMA MovesUA ==
  ASSUME NEW c \in Conn, NEW d \in Conn, NEW p, NEW q \in Seq(Frame), NEW n, LinkOk(c, d, p, q, n),
         q # <<>>, Head(q).type = "UA", c.state = "AWAITING_CONNECT"
  PROVE  Moves(c, AfterUA(c, Head(q).inc), d)
<1> DEFINE h == Head(q)
           k == IF h.inc = c.sabm THEN h.inc ELSE 0
           z == [c EXCEPT !.t1 = FALSE]
           x == Up(z, k)
           e == Pump(x)
<1>1. h = q[1] /\ 1 \in DOMAIN q /\ h \in Frame
  BY TailAt
<1>2. h.inc \in Nat /\ k \in Nat /\ (k # 0 => k = h.inc /\ k = c.sabm)
  <2>1. h.inc \in Nat
    BY <1>1 DEF Frame
  <2> QED BY <2>1
<1>3. AfterUA(c, h.inc) = e
  BY DEF AfterUA
<1> HIDE DEF h, k
<1>4. z \in Conn
  BY Zenon DEF Conn
<1> HIDE DEF z
<1>5. x \in Conn /\ x.rcvd = <<>> /\ x.inc = k
  BY <1>2, <1>4, UpFields DEF Fresh
<1> HIDE DEF x
<1>6. e.rcvd = <<>> /\ e.inc = k
  BY <1>5, PumpFields
<1> HIDE DEF e
<1>7. ASSUME Together(e, d) PROVE d.rcvd = <<>>
  <2>1. Waits(c, d) /\ q[1].type = "UA" /\ q[1].inc = c.sabm
    BY <1>1, <1>2, <1>6, <1>7 DEF Waits, Together, h
  <2>2. Agree(Reset(c), d, p, 0, q, 1)
    BY <1>1, <2>1, Zenon DEF LinkOk, HalfOk
  <2>3. Reset(c) \in Conn /\ Reset(c).sent = 0
    <3>1. 0 \in Nat
      OBVIOUS
    <3> QED BY <3>1, ResetType, UpFields DEF Fresh
  <2>4. Len(d.rcvd) <= 0 /\ Len(d.rcvd) \in Nat
    BY <2>2, <2>3, AgreeFacts
  <2>5. d.rcvd \in Seq(Nat)
    BY ConnFields
  <2> QED BY <2>4, <2>5
<1>8. ~Together(c, d)
  BY DEF Together
<1>9. Moves(c, e, d)
  BY <1>6, <1>7, <1>8, Zenon DEF Moves
<1> QED BY <1>3, <1>9 DEF h

\* What a step of s does to the two ends.
StepMoves(s) == conn'[Peer(s)] = conn[Peer(s)] /\ Moves(conn[s], conn'[s], conn[Peer(s)])

LEMMA ActMoves ==
  ASSUME LinkInv, NEW s \in Station, NEW c, NEW out, Act(s, c, out) \/ React(s, c, out),
         Moves(conn[s], c, conn[Peer(s)])
  PROVE  StepMoves(s)
<1>1. Peer(s) \in Station /\ Peer(s) # s
  BY TwoEnds
<1>2. conn' = [conn EXCEPT ![s] = c]
  BY Zenon DEF Act, React
<1>3. conn'[s] = c /\ conn'[Peer(s)] = conn[Peer(s)]
  BY <1>1, <1>2 DEF LinkInv, TypeOK
<1> QED BY <1>3, Zenon DEF StepMoves

LEMMA SameKept == \A c \in Conn : Kept(c, c)
BY DEF Kept, SameLink, SameData

LEMMA CallsMove ==
  ASSUME LinkInv, DataInv, NEW s \in Station, Connect(s) \/ Disconnect(s) \/ Write(s) \/ ForeignRNR(s) \/ Lose(s)
  PROVE  StepMoves(s)
<1> DEFINE c == conn[s]
           d == conn[Peer(s)]
<1>1. c \in Conn /\ d \in Conn
  BY Finds
<1> HIDE DEF c, d
<1>2. ASSUME NEW e, NEW out, Act(s, e, out), Moves(c, e, d) PROVE StepMoves(s)
  BY <1>2, ActMoves DEF c, d
<1>3. CASE Connect(s)
  <2> DEFINE e == [c EXCEPT !.state = "AWAITING_CONNECT", !.retry = 0,
                            !.progress = 0, !.t1 = TRUE, !.sabm = dialled + 1]
  <2>1. Act(s, e, <<UFrame("SABM", dialled + 1)>>)
    BY <1>3 DEF Connect, c
  <2>2. e.state # "CONNECTED"
    BY <1>1 DEF Conn
  <2> HIDE DEF e
  <2> QED BY <1>2, <2>1, <2>2, MovesDown
<1>4. CASE Disconnect(s)
  <2> DEFINE e == [c EXCEPT !.state = "AWAITING_RELEASE", !.t1 = TRUE, !.t3 = FALSE]
  <2>1. Act(s, e, <<UFrame("DISC", 0)>>)
    BY <1>4 DEF Disconnect, c
  <2>2. e.state # "CONNECTED"
    BY <1>1 DEF Conn
  <2> HIDE DEF e
  <2> QED BY <1>2, <2>1, <2>2, MovesDown
<1>5. CASE Write(s)
  <2>1. PICK n \in 1 .. MaxWrites - written :
          Act(s, Pump([c EXCEPT !.txq = @ + n]), PumpFrames([c EXCEPT !.txq = @ + n]))
    BY <1>5 DEF Write, c
  <2> DEFINE k == c.txq + n
             x == [c EXCEPT !.txq = k]
  <2>2. [c EXCEPT !.txq = @ + n] = x
    BY <1>1 DEF Conn
  <2>3. k \in Nat
    <3>1. c.txq \in Nat
      BY <1>1, ConnFields
    <3>2. MaxWrites - written \in Int
      BY LinkAssumption DEF LinkInv, TypeOK
    <3> QED BY <3>1, <3>2
  <2> HIDE DEF k
  <2>4. Kept(c, x)
    BY <1>1, <2>3, FlagsKept
  <2> HIDE DEF x
  <2>5. SameLink(c, x) /\ x.sent = c.sent /\ x.rcvd = c.rcvd
    BY <2>4 DEF Kept, SameData
  <2>6. Moves(c, Pump(x), d)
    BY <1>1, <2>5, MovesPump
  <2> QED BY <1>2, <2>1, <2>2, <2>6
<1>6. CASE ForeignRNR(s)
  <2>1. Act(s, c, <<SFrame("RNR", c.vr)>>)
    BY <1>6 DEF ForeignRNR, c
  <2> QED BY <1>1, <1>2, <2>1, SameKept, MovesKept
<1>7. CASE Lose(s)
  <2>1. conn' = conn
    BY <1>7 DEF Lose
  <2>2. Moves(c, c, d)
    BY <1>1, SameKept, MovesKept
  <2> QED BY <2>1, <2>2 DEF StepMoves, Peer, c, d
<1> QED BY <1>3, <1>4, <1>5, <1>6, <1>7

LEMMA TimersMove ==
  ASSUME LinkInv, DataInv, NEW s \in Station, T1Expire(s) \/ T3Expire(s)
  PROVE  StepMoves(s)
<1> DEFINE c == conn[s]
           d == conn[Peer(s)]
<1>1. c \in Conn /\ d \in Conn /\ Sound(c)
  BY Finds
<1> HIDE DEF c, d
<1>2. ASSUME NEW e, NEW out, Act(s, e, out), Moves(c, e, d) PROVE StepMoves(s)
  BY <1>2, ActMoves DEF c, d
<1>3. ASSUME c.state # "DISCONNECTED"
      PROVE  /\ Retry(c) \in Conn /\ Retry(c).state = c.state
             /\ Kept(c, Retry(c))
  <2>1. Retry(c) \in Conn /\ Retry(c).state = c.state /\ Retry(c).t1 = c.t1
    BY <1>1, <1>3, RetrySound
  <2>2. Retry(c).sabm = c.sabm /\ Retry(c).inc = c.inc /\ SameData(c, Retry(c))
    BY <1>1 DEF Retry, Conn, SameData
  <2> QED BY <2>1, <2>2 DEF Kept, SameLink
<1>4. CASE T1Connect(s)
  <2> DEFINE g == Retry(c)
             e == [g EXCEPT !.sabm = dialled + 1]
  <2>1. Act(s, e, <<UFrame("SABM", dialled + 1)>>) /\ c.state = "AWAITING_CONNECT"
    BY <1>4 DEF T1Connect, c
  <2>2. g \in Conn /\ g.state = "AWAITING_CONNECT"
    BY <1>3, <2>1
  <2> HIDE DEF g
  <2>3. e.state # "CONNECTED"
    BY <2>2 DEF Conn
  <2> HIDE DEF e
  <2> QED BY <1>2, <2>1, <2>3, MovesDown
<1>5. CASE T1NoAnswer(s)
  <2> DEFINE g == Retry(c)
             e == [g EXCEPT !.state = "DISCONNECTED", !.t1 = FALSE]
  <2>1. Act(s, e, <<>>) /\ c.state = "AWAITING_CONNECT"
    BY <1>5 DEF T1NoAnswer, c
  <2>2. g \in Conn
    BY <1>3, <2>1
  <2> HIDE DEF g
  <2>3. e.state # "CONNECTED"
    BY <2>2 DEF Conn
  <2> HIDE DEF e
  <2> QED BY <1>2, <2>1, <2>3, MovesDown
<1>6. CASE T1Release(s)
  <2> DEFINE g == Retry(c)
             e == Down(g)
  <2>1. c.state = "AWAITING_RELEASE"
    BY <1>6 DEF T1Release, c
  <2>2. \/ Act(s, g, <<UFrame("DISC", 0)>>)
        \/ Act(s, e, <<>>)
    BY <1>6, Zenon DEF T1Release, c
  <2>3. g \in Conn /\ g.state = "AWAITING_RELEASE"
    BY <1>3, <2>1
  <2> HIDE DEF g
  <2>4. e.state = "DISCONNECTED"
    BY <2>3, DownLink
  <2> HIDE DEF e
  <2>5. Moves(c, g, d) /\ Moves(c, e, d)
    BY <2>3, <2>4, MovesDown
  <2> QED BY <1>2, <2>2, <2>5
<1>7. CASE T1Retransmit(s)
  <2>1. PICK out \in Retransmissions(c, c.va) : Act(s, Retry(c), out)
    BY <1>7 DEF T1Retransmit, c
  <2>2. c.state = "CONNECTED"
    BY <1>7 DEF T1Retransmit, c
  <2>3. Kept(c, Retry(c))
    BY <1>3, <2>2
  <2>4. Moves(c, Retry(c), d)
    BY <1>1, <2>3, MovesKept
  <2> QED BY <1>2, <2>1, <2>4
<1>8. CASE LinkFailure(s)
  <2> DEFINE g == Retry(c)
             e == Down(g)
  <2>1. Act(s, e, <<>>) /\ c.state = "CONNECTED"
    BY <1>8 DEF LinkFailure, c
  <2>2. g \in Conn
    BY <1>3, <2>1
  <2> HIDE DEF g
  <2>3. e.state # "CONNECTED"
    BY <2>2, DownLink
  <2> HIDE DEF e
  <2> QED BY <1>2, <2>1, <2>3, MovesDown
<1>9. CASE T1Poll(s)
  <2>1. Act(s, c, <<SFrame("RR", c.vr)>>)
    BY <1>9 DEF T1Poll, c
  <2> QED BY <1>1, <1>2, <2>1, SameKept, MovesKept
<1>10. CASE T3Expire(s)
  <2> DEFINE e == [c EXCEPT !.t3 = FALSE, !.t1 = TRUE]
  <2>1. Act(s, e, <<SFrame("RR", c.vr)>>)
    BY <1>10 DEF T3Expire, c
  <2>2. Kept(c, e)
    BY <1>1, FlagsKept
  <2> HIDE DEF e
  <2>3. Moves(c, e, d)
    BY <1>1, <2>2, MovesKept
  <2> QED BY <1>2, <2>1, <2>3
<1> QED BY <1>4, <1>5, <1>6, <1>7, <1>8, <1>9, <1>10 DEF T1Expire

LEMMA ReceiveMoves ==
  ASSUME LinkInv, DataInv, NEW s \in Station, Receive(s)
  PROVE  StepMoves(s)
<1> DEFINE c == conn[s]
           d == conn[Peer(s)]
           p == air[s]
           q == air[Peer(s)]
           n == dialled
           f == Head(q)
<1>1. c \in Conn /\ d \in Conn /\ q \in Seq(Frame) /\ LinkOk(c, d, p, q, n)
  BY Finds
<1>2. q # <<>> /\ Arrival(s) = f
  BY Zenon DEF Receive, Arrived, Arrival, HandleSABM, HandleUA, HandleDISC, HandleDM, HandleI,
               RefuseI, HandleRR, HandleRNR, HandleREJ, IgnoreS
<1>3. f \in Frame
  BY <1>1, <1>2, TailAt
<1> HIDE DEF c, d, p, q, n
<1>4. ASSUME NEW e, NEW out, React(s, e, out), Moves(c, e, d) PROVE StepMoves(s)
  BY <1>4, ActMoves DEF c, d
<1>5. CASE HandleSABM(s)
  <2>1. React(s, Up(c, f.inc), <<UFrame("UA", f.inc)>>) /\ f.type = "SABM"
    BY <1>2, <1>5 DEF HandleSABM, Arrived, c, q
  <2>2. Moves(c, Up(c, f.inc), d)
    BY <1>1, <1>2, <2>1, MovesSABM
  <2> QED BY <1>4, <2>1, <2>2
<1>6. CASE HandleUA(s)
  <2> DEFINE out == IF c.state = "AWAITING_CONNECT"
                    THEN PumpFrames([Up(c, 0) EXCEPT !.t1 = FALSE]) ELSE <<>>
             e == AfterUA(c, f.inc)
  <2>1. React(s, e, out) /\ f.type = "UA"
    BY <1>2, <1>6 DEF HandleUA, Arrived, c, q
  <2>2. CASE c.state = "AWAITING_CONNECT"
    <3>1. Moves(c, e, d)
      BY <1>1, <1>2, <2>1, <2>2, MovesUA
    <3> QED BY <1>4, <2>1, <3>1
  <2>3. CASE c.state = "AWAITING_RELEASE"
    <3>1. e = [c EXCEPT !.state = "DISCONNECTED", !.t1 = FALSE, !.woken = TRUE]
      BY <2>3 DEF AfterUA
    <3> HIDE DEF e, out
    <3>2. e.state # "CONNECTED"
      BY <1>1, <3>1 DEF Conn
    <3> QED BY <1>4, <2>1, <3>2, MovesDown
  <2>4. CASE c.state \in {"CONNECTED", "DISCONNECTED"}
    <3>1. e = c
      BY <2>4 DEF AfterUA
    <3> HIDE DEF e, out
    <3> QED BY <1>1, <1>4, <2>1, <3>1, SameKept, MovesKept
  <2> QED BY <1>1, <2>2, <2>3, <2>4, ConnFields DEF States
<1>7. CASE HandleDISC(s) \/ HandleDM(s)
  <2>1. \/ React(s, Down(c), <<UFrame("UA", 0)>>)
        \/ React(s, Down(c), <<>>)
    BY <1>7 DEF HandleDISC, HandleDM, c
  <2>2. Down(c).state # "CONNECTED"
    BY <1>1, DownLink
  <2> QED BY <1>4, <2>1, <2>2, MovesDown
<1>8. CASE RefuseI(s) \/ IgnoreS(s)
  <2>1. \/ React(s, c, <<UFrame("DM", 0)>>)
        \/ React(s, c, <<>>)
    BY <1>8 DEF RefuseI, IgnoreS, c
  <2> QED BY <1>1, <1>4, <2>1, SameKept, MovesKept
<1>9. CASE HandleI(s)
  <2> DEFINE x == AfterI(c, f)
             out == <<Answer(c, f)>> \o PumpFrames(x)
  <2>1. React(s, Pump(x), out) /\ f.type = "I"
    BY <1>2, <1>9 DEF HandleI, Arrived, c, q
  <2>2. Moves(c, Pump(x), d)
    BY <1>1, <1>2, <2>1, MovesI
  <2> QED BY <1>4, <2>1, <2>2
<1>10. CASE HandleRR(s)
  <2> DEFINE x == AfterRR(c, f)
  <2>1. React(s, Pump(x), PumpFrames(x))
    BY <1>2, <1>10 DEF HandleRR, c
  <2>2. SameLink(c, x) /\ x.sent = c.sent /\ x.rcvd = c.rcvd
    BY <1>1, <1>3, AfterRRLink
  <2> HIDE DEF x
  <2>3. Moves(c, Pump(x), d)
    BY <1>1, <2>2, MovesPump
  <2> QED BY <1>4, <2>1, <2>3
<1>11. CASE HandleRNR(s)
  <2> DEFINE e == AfterRNR(c, f)
  <2>1. React(s, e, <<>>)
    BY <1>2, <1>11 DEF HandleRNR, c
  <2>2. SameLink(c, e) /\ e.sent = c.sent /\ e.rcvd = c.rcvd /\ c.sent \in Nat
    BY <1>1, <1>3, AfterRNRLink, ConnFields
  <2> HIDE DEF e
  <2>3. e.sent >= c.sent
    BY <2>2
  <2>4. Moves(c, e, d)
    BY <2>2, <2>3, MovesOn
  <2> QED BY <1>4, <2>1, <2>4
<1>12. CASE HandleREJ(s)
  <2> DEFINE e == AfterREJ(c, f)
  <2>1. PICK out \in Retransmissions(UpdateVA(c, f.nr), f.nr) : React(s, e, out)
    BY <1>2, <1>12 DEF HandleREJ, c
  <2>2. SameLink(c, e) /\ e.sent = c.sent /\ e.rcvd = c.rcvd /\ c.sent \in Nat
    BY <1>1, <1>3, AfterREJFields, ConnFields
  <2> HIDE DEF e
  <2>3. e.sent >= c.sent
    BY <2>2
  <2>4. Moves(c, e, d)
    BY <2>2, <2>3, MovesOn
  <2> QED BY <1>4, <2>1, <2>4
<1> QED
  BY <1>5, <1>6, <1>7, <1>8, <1>9, <1>10, <1>11, <1>12 DEF Receive

-----------------------------------------------------------------------------
(***************************************************************************)
(* The link implements ReliableLink.                                       *)
(***************************************************************************)

LEMMA CleanIs ==
  ASSUME NEW s \in Station
  PROVE  Clean <=> Together(conn[s], conn[Peer(s)])
<1>1. Peer(s) \in Station /\ Peer(Peer(s)) = s /\ \A t \in Station : t = s \/ t = Peer(s)
  BY TwoEnds
<1>2. ASSUME Clean PROVE Together(conn[s], conn[Peer(s)])
  BY <1>1, <1>2 DEF Clean, Together
<1>3. ASSUME Together(conn[s], conn[Peer(s)]), NEW t \in Station
      PROVE  /\ conn[t].state = "CONNECTED" /\ conn[t].inc # 0
             /\ conn[t].inc = conn[Peer(t)].inc
  <2>1. CASE t = s
    BY <1>3, <2>1 DEF Together
  <2>2. CASE t = Peer(s)
    <3>1. Peer(t) = s
      BY <1>1, <2>2
    <3> QED BY <1>3, <2>2, <3>1 DEF Together
  <2> QED BY <1>1, <2>1, <2>2
<1> QED BY <1>2, <1>3, Zenon DEF Clean

LEMMA CleanIsNext ==
  ASSUME NEW s \in Station
  PROVE  Clean' <=> Together(conn'[s], conn'[Peer(s)])
<1>1. Peer(s) \in Station /\ Peer(Peer(s)) = s /\ \A t \in Station : t = s \/ t = Peer(s)
  BY TwoEnds
<1>2. ASSUME Clean' PROVE Together(conn'[s], conn'[Peer(s)])
  BY <1>1, <1>2 DEF Clean, Together, Peer
<1>3. ASSUME Together(conn'[s], conn'[Peer(s)]), NEW t \in Station
      PROVE  /\ conn'[t].state = "CONNECTED" /\ conn'[t].inc # 0
             /\ conn'[t].inc = conn'[Peer(t)].inc
  <2>1. CASE t = s
    BY <1>3, <2>1 DEF Together
  <2>2. CASE t = Peer(s)
    <3>1. Peer(t) = s
      BY <1>1, <2>2
    <3> QED BY <1>3, <2>2, <3>1 DEF Together
  <2> QED BY <1>1, <2>1, <2>2
<1> QED BY <1>2, <1>3, Zenon DEF Clean, Peer

\* The chunks of the other end are numbered from one.
LEMMA MoreChunks ==
  ASSUME NEW m \in Nat, NEW n \in Nat, n >= m
  PROVE  /\ Len([i \in 1 .. n |-> i]) = n
         /\ SubSeq([i \in 1 .. n |-> i], 1, m) = [i \in 1 .. m |-> i]
<1> DEFINE q == [i \in 1 .. n |-> i]
<1>1. q \in Seq(Nat) /\ Len(q) = n
  OBVIOUS
<1>2. ASSUME NEW i \in 1 .. m PROVE q[i] = i
  BY <1>2
<1>3. SubSeq(q, 1, m) = [i \in 1 .. m |-> q[i]]
  OBVIOUS
<1>4. SubSeq(q, 1, m) = [i \in 1 .. m |-> i]
  BY <1>2, <1>3
<1> QED BY <1>1, <1>4

LEMMA StepRefines ==
  ASSUME LinkInv, LinkInv', DataInv, DataInv', InOrderDelivery', NEW s \in Station, Step(s)
  PROVE  Service!Next \/ UNCHANGED Service!vars
<1> DEFINE p == Peer(s)
           sentOf(c) == [i \in 1 .. c.sent |-> i]
<1>1. p \in Station /\ p # s /\ Peer(p) = s /\ \A t \in Station : t = s \/ t = p
  BY TwoEnds
<1>2. StepMoves(s)
  BY CallsMove, TimersMove, ReceiveMoves, Zenon DEF Step
<1>3. conn'[p] = conn[p] /\ Moves(conn[s], conn'[s], conn[p])
  BY <1>2 DEF StepMoves
<1>4. \A t \in Station : conn[t] \in Conn /\ conn'[t] \in Conn
  BY DEF LinkInv, TypeOK
<1>5. \A t \in Station : /\ conn[t].sent \in Nat /\ conn'[t].sent \in Nat
                         /\ conn[t].rcvd \in Seq(Nat) /\ conn'[t].rcvd \in Seq(Nat)
  BY <1>4, ConnFields
<1>6. /\ Clean <=> Together(conn[s], conn[p])
      /\ Clean' <=> Together(conn'[s], conn[p])
  BY <1>3, CleanIs, CleanIsNext
<1>7. CASE ~Clean /\ ~Clean'
  <2>1. Clean' = Clean
    BY <1>7, Zenon DEF Clean
  <2>2. /\ [t \in Station |-> IF Clean' THEN sentOf(conn'[t]) ELSE <<>>]
             = [t \in Station |-> IF Clean THEN sentOf(conn[t]) ELSE <<>>]
        /\ [t \in Station |-> IF Clean' THEN conn'[t].rcvd ELSE <<>>]
             = [t \in Station |-> IF Clean THEN conn[t].rcvd ELSE <<>>]
    BY <1>7
  <2> QED BY <2>1, <2>2, Zenon DEF Service!vars
<1>8. CASE ~Clean /\ Clean'
  <2>1. conn'[s].rcvd = <<>> /\ conn'[p].rcvd = <<>>
    BY <1>3, <1>6, <1>8 DEF Moves
  <2>2. \A t \in Station : conn'[t].rcvd = <<>>
    BY <1>1, <2>1
  <2>3. [t \in Station |-> IF Clean' THEN conn'[t].rcvd ELSE <<>>] = [t \in Station |-> <<>>]
    BY <2>2
  <2>4. [t \in Station |-> IF Clean' THEN sentOf(conn'[t]) ELSE <<>>] \in [Station -> Seq(Nat)]
    <3>1. ASSUME NEW t \in Station
          PROVE  (IF Clean' THEN sentOf(conn'[t]) ELSE <<>>) \in Seq(Nat)
      BY <1>5
    <3> QED BY <3>1
  <2>5. Service!Open
    BY <1>8, <2>3, <2>4 DEF Service!Open, Service!Nothing
  <2> QED BY <2>5 DEF Service!Next
<1>9. CASE Clean /\ ~Clean'
  <2>1. Service!Close
    BY <1>9 DEF Service!Close, Service!Nothing
  <2> QED BY <2>1 DEF Service!Next
<1>10. CASE Clean /\ Clean'
  <2>1. Grows(conn[s], conn'[s])
    BY <1>3, <1>6, <1>10 DEF Moves
  <2>2. Service!Other(s) = p
    BY DEF Service!Other, Peer
  <2> DEFINE S == [t \in Station |-> IF Clean THEN sentOf(conn[t]) ELSE <<>>]
             T == [t \in Station |-> IF Clean' THEN sentOf(conn'[t]) ELSE <<>>]
             G == [t \in Station |-> IF Clean THEN conn[t].rcvd ELSE <<>>]
             H == [t \in Station |-> IF Clean' THEN conn'[t].rcvd ELSE <<>>]
  <2>3. /\ S[s] = sentOf(conn[s]) /\ T[s] = sentOf(conn'[s]) /\ S[p] = sentOf(conn[p])
        /\ T[p] = S[p] /\ G[s] = conn[s].rcvd /\ H[s] = conn'[s].rcvd /\ H[p] = G[p]
    BY <1>1, <1>3, <1>10
  <2>4. conn'[s].sent >= conn[s].sent
    BY <2>1 DEF Grows
  <2>5. /\ Len(S[s]) = conn[s].sent /\ Len(T[s]) = conn'[s].sent /\ Len(S[p]) = conn[p].sent
        /\ SubSeq(T[s], 1, conn[s].sent) = S[s]
    <3>1. /\ Len(sentOf(conn[s])) = conn[s].sent /\ Len(sentOf(conn'[s])) = conn'[s].sent
          /\ Len(sentOf(conn[p])) = conn[p].sent
          /\ SubSeq(sentOf(conn'[s]), 1, conn[s].sent) = sentOf(conn[s])
      <4>1. conn[p].sent >= conn[p].sent
        BY <1>1, <1>5
      <4>2. conn[s].sent \in Nat /\ conn'[s].sent \in Nat /\ conn[p].sent \in Nat
        BY <1>1, <1>5
      <4>3. conn[s].sent >= conn[s].sent
        BY <4>2
      <4> HIDE DEF p
      <4> QED BY <2>4, <4>1, <4>2, <4>3, MoreChunks
    <3> HIDE DEF sentOf
    <3> QED BY <2>3, <3>1
  <2>6. \/ H[s] = G[s]
        \/ /\ Len(G[s]) < Len(S[p])
           /\ H[s] = Append(G[s], S[p][Len(G[s]) + 1])
    <3>1. CASE conn'[s].rcvd = conn[s].rcvd
      BY <2>3, <3>1
    <3>2. CASE conn'[s].rcvd = Append(conn[s].rcvd, Len(conn[s].rcvd) + 1)
      <4> DEFINE r == conn[s].rcvd
                 m == conn[p].sent
      <4>1. Len(conn'[s].rcvd) <= conn'[p].sent
        BY <1>10 DEF InOrderDelivery, Peer
      <4>2. Len(r) \in Nat /\ m \in Nat /\ Len(conn'[s].rcvd) = Len(r) + 1
        BY <1>1, <1>5, <3>2
      <4>3. Len(r) + 1 <= m
        BY <1>3, <4>1, <4>2
      <4> HIDE DEF r, m
      <4>4. Len(r) < m /\ Len(r) + 1 \in 1 .. m
        BY <4>2, <4>3
      <4>5. [i \in 1 .. m |-> i][Len(r) + 1] = Len(r) + 1
        BY <4>4
      <4>6. S[p][Len(r) + 1] = Len(r) + 1
        BY <2>3, <4>5 DEF m
      <4> QED BY <2>3, <2>5, <3>2, <4>4, <4>6, Zenon DEF r, m
    <3> QED BY <2>1, <3>1, <3>2 DEF Grows
  <2>7. \A t \in Station \ {s} : T[t] = S[t] /\ H[t] = G[t]
    BY <1>1, <2>3
  <2>8. Len(T[s]) >= Len(S[s]) /\ SubSeq(T[s], 1, Len(S[s])) = S[s]
    BY <2>4, <2>5
  <2> HIDE DEF S, T, G, H
  <2>9. Service!Transfer(s)
    BY <1>10, <2>2, <2>6, <2>7, <2>8, Zenon DEF Service!Transfer, S, T, G, H
  <2> QED BY <2>9 DEF Service!Next
<1> QED BY <1>7, <1>8, <1>9, <1>10

\* The link implements the service it promises: it comes up with nothing read,
\* while it is up each end reads the next chunk of the other or nothing, and
\* whatever else the handlers and timers do is invisible to the sessions.
THEOREM Implements == Spec => ImplementsReliableLink
<1>1. Init => Service!Init
  <2> SUFFICES ASSUME Init PROVE Service!Init
    OBVIOUS
  <2>1. ~Clean
    <3>1. PICK s \in Station : TRUE
      BY LinkAssumption
    <3>2. conn[s].state = "DISCONNECTED"
      BY DEF Init, NewConn
    <3> QED BY <3>2 DEF Clean
  <2> QED BY <2>1 DEF Service!Init, Service!Nothing
<1>2. /\ LinkInv /\ LinkInv' /\ DataInv /\ DataInv' /\ InOrderDelivery' /\ [Next]_vars
      => [Service!Next]_(Service!vars)
  <2> SUFFICES ASSUME LinkInv, LinkInv', DataInv, DataInv', InOrderDelivery', [Next]_vars
               PROVE  Service!Next \/ UNCHANGED Service!vars
    OBVIOUS
  <2>1. CASE UNCHANGED vars
    <3>1. conn' = conn
      BY <2>1 DEF vars
    <3>2. Clean' = Clean
      BY <3>1 DEF Clean, Peer
    <3> QED BY <3>1, <3>2 DEF Service!vars
  <2>2. CASE \E s \in Station : Step(s)
    BY <2>2, StepRefines
  <2> QED BY <2>1, <2>2 DEF Next
<1> QED
  BY <1>1, <1>2, Invariance, DataInvariance, InOrder, PTL
  DEF Spec, ImplementsReliableLink, Service!Spec

=============================================================================
