-------------------------- MODULE ConferenceProofs --------------------------
(***************************************************************************)
(* The invariant of the conference, for any clients and rooms, any depth   *)
(* of the queues and any number of entries and lines: who is in a room,    *)
(* what is told there, and what a step of each client does to both.        *)
(* ServicesProofs states what follows of every behaviour.                  *)
(***************************************************************************)
EXTENDS Conference, FiniteSetTheorems, SequenceTheorems, NaturalsInduction, WellFoundedInduction, TLAPS

Places == {"off", "prompt", "welcome", "wait", "reap", "text", "echo", "goodbye", "thrown", "open", "room"}
InRoom == {"welcome", "wait", "reap", "text", "echo", "room"}

(***************************************************************************)
(* Who is in a room.  h maps rooms to keys, g are the keys left behind, k  *)
(* is the last key, w the rooms left behind; A, K and R tell where clients *)
(* are, their keys and their rooms.                                        *)
(***************************************************************************)
Found(h, g, A, K, R) ==
  /\ \A c \in Clients : A[c] \in InRoom => R[c] \in DOMAIN h /\ K[c] \in h[R[c]] /\ K[c] \notin g
  /\ \A r \in DOMAIN h : \A x \in h[r] \ g : \E c \in Clients : A[c] \in InRoom /\ R[c] = r /\ K[c] = x
  /\ \A c, d \in Clients : A[c] \in InRoom /\ A[d] \in InRoom /\ K[c] = K[d] => c = d

Numbered(h, g, k, A, K) ==
  /\ k \in Nat /\ g \subseteq 1 .. k
  /\ \A c \in Clients : A[c] \in InRoom => K[c] \in 1 .. k
  /\ \A r \in DOMAIN h : h[r] \subseteq 1 .. k

Emptied(h, w, A, R) ==
  \A r \in DOMAIN h : h[r] = {} => \/ r \in w
                                   \/ \E c \in Terminals : A[c] \in {"goodbye", "thrown"} /\ R[c] = r

EmptiedBut(h, w, A, R, x) ==
  \A r \in DOMAIN h \ {x} : h[r] = {} => \/ r \in w
                                         \/ \E c \in Terminals : A[c] \in {"goodbye", "thrown"} /\ R[c] = r

\* Nothing changes for anyone but c.
OnlyFor(c, A, K, R, B, L, S) == \A d \in Clients \ {c} : B[d] = A[d] /\ L[d] = K[d] /\ S[d] = R[d]

\* The hub after somebody came, left, or left a room empty.
Entered(h, r, x) == [y \in DOMAIN h \cup {r} |-> (IF y \in DOMAIN h THEN h[y] ELSE {}) \cup (IF y = r THEN {x} ELSE {})]
Gone(h, r, x) == [h EXCEPT ![r] = @ \ {x}]
Cleared(h, r) == IF r \in DOMAIN h /\ h[r] = {} THEN [y \in DOMAIN h \ {r} |-> h[y]] ELSE h

LEMMA Enters ==
  ASSUME NEW h, NEW g, NEW k, NEW A, NEW K, NEW R, NEW B, NEW L, NEW S, NEW w, NEW c \in Clients, NEW r, NEW x, x = k + 1,
         Found(h, g, A, K, R), Numbered(h, g, k, A, K), Emptied(h, w, A, R),
         A[c] \notin InRoom \cup {"goodbye", "thrown"},
         B[c] \in InRoom, L[c] = x, S[c] = r,
         OnlyFor(c, A, K, R, B, L, S)
  PROVE  /\ Found(Entered(h, r, x), g, B, L, S) /\ Numbered(Entered(h, r, x), g, x, B, L)
         /\ Emptied(Entered(h, r, x), w, B, S)
<1> DEFINE e == Entered(h, r, x)
<1>1. k \in Nat /\ x = k + 1 /\ k + 1 \notin g /\ (\A y \in DOMAIN h : k + 1 \notin h[y])
  BY DEF Numbered
<1>2. /\ DOMAIN e = DOMAIN h \cup {r} /\ x \in e[r]
      /\ \A y \in DOMAIN h : h[y] \subseteq e[y] /\ (y # r => e[y] = h[y])
      /\ \A z \in e[r] : z = x \/ (r \in DOMAIN h /\ z \in h[r])
  BY DEF Entered
<1> HIDE DEF e
<1> USE DEF OnlyFor
<1>3. \A d \in Clients : d # c /\ B[d] \in InRoom => L[d] # x
  BY <1>1 DEF Numbered
<1>4. Found(e, g, B, L, S)
  <2>1. ASSUME NEW d \in Clients, B[d] \in InRoom
        PROVE  S[d] \in DOMAIN e /\ L[d] \in e[S[d]] /\ L[d] \notin g
    BY <1>1, <1>2, <2>1 DEF Found
  <2>2. ASSUME NEW y \in DOMAIN e, NEW z \in e[y] \ g
        PROVE  \E d \in Clients : B[d] \in InRoom /\ S[d] = y /\ L[d] = z
    <3>1. CASE y = r /\ z = x
      BY <3>1
    <3>2. CASE y \in DOMAIN h /\ z \in h[y]
      <4>1. PICK d \in Clients : A[d] \in InRoom /\ R[d] = y /\ K[d] = z
        BY <3>2 DEF Found
      <4> QED BY <4>1
    <3> QED BY <1>2, <3>1, <3>2
  <2>3. ASSUME NEW d \in Clients, NEW f \in Clients, B[d] \in InRoom, B[f] \in InRoom, L[d] = L[f]
        PROVE  d = f
    BY <1>3, <2>3 DEF Found
  <2> QED BY <2>1, <2>2, <2>3 DEF Found
<1>5. Numbered(e, g, x, B, L)
  <2>1. ASSUME NEW d \in Clients, B[d] \in InRoom PROVE L[d] \in 1 .. k + 1
    BY <1>1, <2>1 DEF Numbered
  <2>2. ASSUME NEW y \in DOMAIN e PROVE e[y] \subseteq 1 .. k + 1
    BY <1>1, <1>2 DEF Numbered
  <2> QED BY <1>1, <2>1, <2>2 DEF Numbered
<1>6. Emptied(e, w, B, S)
  BY <1>2 DEF Emptied, Clients
<1> QED BY <1>4, <1>5, <1>6 DEF e

LEMMA Leaves ==
  ASSUME NEW h, NEW g, NEW k, NEW A, NEW K, NEW R, NEW B, NEW L, NEW S, NEW c \in Clients,
         Found(h, g, A, K, R), Numbered(h, g, k, A, K),
         A[c] \in InRoom, B[c] \notin InRoom,
         \A d \in Clients \ {c} : B[d] = A[d] /\ L[d] = K[d] /\ S[d] = R[d]
  PROVE  Found(Gone(h, R[c], K[c]), g, B, L, S) /\ Numbered(Gone(h, R[c], K[c]), g, k, B, L)
<1> DEFINE e == Gone(h, R[c], K[c])
<1>1. R[c] \in DOMAIN h
  BY DEF Found
<1>2. /\ DOMAIN e = DOMAIN h /\ e[R[c]] = h[R[c]] \ {K[c]}
      /\ \A y \in DOMAIN h : y # R[c] => e[y] = h[y]
  BY <1>1 DEF Gone
<1> HIDE DEF e
<1>3. Found(e, g, B, L, S)
  <2>1. ASSUME NEW d \in Clients, B[d] \in InRoom
        PROVE  S[d] \in DOMAIN e /\ L[d] \in e[S[d]] /\ L[d] \notin g
    <3>1. d # c /\ A[d] \in InRoom
      BY <2>1
    <3>2. K[d] # K[c]
      BY <3>1 DEF Found
    <3> QED BY <1>2, <3>1, <3>2 DEF Found
  <2>2. ASSUME NEW y \in DOMAIN e, NEW x \in e[y] \ g
        PROVE  \E d \in Clients : B[d] \in InRoom /\ S[d] = y /\ L[d] = x
    <3>1. x \in h[y] /\ (y = R[c] => x # K[c])
      BY <1>2
    <3>2. PICK d \in Clients : A[d] \in InRoom /\ R[d] = y /\ K[d] = x
      BY <1>2, <3>1 DEF Found
    <3> QED BY <3>1, <3>2
  <2>3. ASSUME NEW d \in Clients, NEW f \in Clients, B[d] \in InRoom, B[f] \in InRoom, L[d] = L[f]
        PROVE  d = f
    BY <2>3 DEF Found
  <2> QED BY <2>1, <2>2, <2>3 DEF Found
<1>4. Numbered(e, g, k, B, L)
  BY <1>2 DEF Numbered
<1> QED BY <1>3, <1>4 DEF e

\* The room that is left may be empty now, no other one.
LEMMA LeavesEmpty ==
  ASSUME NEW h, NEW A, NEW R, NEW B, NEW S, NEW w, NEW c \in Clients, NEW x,
         Emptied(h, w, A, R), A[c] \in InRoom,
         \A d \in Clients \ {c} : B[d] = A[d] /\ S[d] = R[d]
  PROVE  EmptiedBut(Gone(h, R[c], x), w, B, S, R[c])
<1> DEFINE e == Gone(h, R[c], x)
<1>1. DOMAIN e = DOMAIN h /\ \A y \in DOMAIN h : y # R[c] => e[y] = h[y]
  BY DEF Gone
<1> HIDE DEF e
<1>2. EmptiedBut(e, w, B, S, R[c])
  BY <1>1 DEF Emptied, EmptiedBut, Clients, InRoom
<1> QED BY <1>2 DEF e

LEMMA Clears ==
  ASSUME NEW h, NEW g, NEW k, NEW A, NEW K, NEW R, NEW w, NEW r,
         Found(h, g, A, K, R), Numbered(h, g, k, A, K), EmptiedBut(h, w, A, R, r)
  PROVE  /\ Found(Cleared(h, r), g, A, K, R) /\ Numbered(Cleared(h, r), g, k, A, K)
         /\ Emptied(Cleared(h, r), w, A, R)
<1>1. CASE r \in DOMAIN h /\ h[r] = {}
  <2> DEFINE e == Cleared(h, r)
  <2>1. DOMAIN e = DOMAIN h \ {r} /\ \A y \in DOMAIN e : e[y] = h[y]
    BY <1>1 DEF Cleared
  <2> HIDE DEF e
  <2>2. Found(e, g, A, K, R)
    BY <1>1, <2>1 DEF Found
  <2>3. Numbered(e, g, k, A, K)
    BY <2>1 DEF Numbered
  <2>4. Emptied(e, w, A, R)
    BY <2>1 DEF Emptied, EmptiedBut
  <2> QED BY <2>2, <2>3, <2>4 DEF e
<1>2. CASE ~(r \in DOMAIN h /\ h[r] = {})
  BY <1>2 DEF Cleared, Emptied, EmptiedBut
<1> QED BY <1>1, <1>2

\* Where a client is matters only for those in a room or leaving one.
LEMMA Remains ==
  ASSUME NEW h, NEW g, NEW k, NEW A, NEW K, NEW R, NEW B, NEW L, NEW S, NEW w,
         Found(h, g, A, K, R), Numbered(h, g, k, A, K), Emptied(h, w, A, R),
         \A d \in Clients : A[d] \in InRoom <=> B[d] \in InRoom,
         \A d \in Clients : A[d] \in InRoom => L[d] = K[d] /\ S[d] = R[d],
         \A d \in Clients : A[d] \in {"goodbye", "thrown"} => R[d] \in w \/ (B[d] \in {"goodbye", "thrown"} /\ S[d] = R[d])
  PROVE  Found(h, g, B, L, S) /\ Numbered(h, g, k, B, L) /\ Emptied(h, w, B, S)
<1>1. Found(h, g, B, L, S)
  BY DEF Found
<1>2. Numbered(h, g, k, B, L)
  BY DEF Numbered
<1>3. Emptied(h, w, B, S)
  BY DEF Emptied, Clients
<1> QED BY <1>1, <1>2, <1>3

\* A client whose welcome fails leaves its key behind.
LEMMA Haunts ==
  ASSUME NEW h, NEW g, NEW k, NEW A, NEW K, NEW R, NEW B, NEW L, NEW S, NEW c \in Clients, NEW G,
         \A x : x \in G <=> x \in g \/ x = K[c],
         Found(h, g, A, K, R), Numbered(h, g, k, A, K),
         A[c] \in InRoom, B[c] \notin InRoom,
         \A d \in Clients \ {c} : B[d] = A[d] /\ L[d] = K[d] /\ S[d] = R[d]
  PROVE  Found(h, G, B, L, S) /\ Numbered(h, G, k, B, L)
<1>1. Found(h, G, B, L, S)
  <2>1. ASSUME NEW d \in Clients, B[d] \in InRoom
        PROVE  S[d] \in DOMAIN h /\ L[d] \in h[S[d]] /\ L[d] \notin G
    BY <2>1 DEF Found
  <2>2. ASSUME NEW y \in DOMAIN h, NEW x \in h[y] \ G
        PROVE  \E d \in Clients : B[d] \in InRoom /\ S[d] = y /\ L[d] = x
    <3>1. PICK d \in Clients : A[d] \in InRoom /\ R[d] = y /\ K[d] = x
      BY DEF Found
    <3> QED BY <3>1
  <2>3. ASSUME NEW d \in Clients, NEW f \in Clients, B[d] \in InRoom, B[f] \in InRoom, L[d] = L[f]
        PROVE  d = f
    BY <2>3 DEF Found
  <2> QED BY <2>1, <2>2, <2>3 DEF Found
<1>2. Numbered(h, G, k, B, L)
  BY DEF Numbered
<1> QED BY <1>1, <1>2
-----------------------------------------------------------------------------
(***************************************************************************)
(* What a client is still to be sent.  t is the line its task or drain is  *)
(* sending, q its queue, o the lines it is owed, f whether q overflowed.   *)
(***************************************************************************)
Hears(t, q, o, f) == IF f THEN Subsequence(t \o q, o) ELSE t \o q = o

LEMMA MinNat ==
  ASSUME NEW U \in SUBSET Nat, U # {}
  PROVE  \E x \in U : \A y \in U : x <= y
  <1> DEFINE Q == OpToRel(<, Nat)
  <1>1. IsWellFoundedOn(Q, Nat)
    BY NatLessThanWellFounded
  <1>2. \E x \in U : \A y \in U : ~ (<<y, x>> \in Q)
    <2> HIDE DEF Q
    <2> QED BY <1>1, WFMin
  <1>3. PICK x \in U : \A y \in U : ~ (<<y, x>> \in Q)
    BY <1>2, Zenon
  <1>4. ASSUME NEW y \in U PROVE x <= y
    <2>1. x \in Nat /\ y \in Nat
      OBVIOUS
    <2>2. y < x => <<y, x>> \in Q
      BY <2>1 DEF OpToRel
    <2> HIDE DEF Q
    <2>3. ~(y < x)
      BY <1>3, <2>2, Zenon
    <2> QED BY <2>1, <2>3
  <1> QED BY <1>4

\* What follows the first m of o.
LEMMA AfterFirst ==
  ASSUME NEW o \in Seq(Texts), NEW m, NEW i \in 1 .. Len(o), o[i] = m
  PROVE  \E p \in 1 .. i : /\ o[p] = m /\ After(o, m) = SubSeq(o, p + 1, Len(o))
                          /\ \A k \in 1 .. p - 1 : o[k] # m
<1> DEFINE U == {j \in 1 .. Len(o) : o[j] = m}
           First(j) == j \in DOMAIN o /\ o[j] = m /\ \A k \in 1 .. j - 1 : o[k] # m
<1>1. Len(o) \in Nat /\ DOMAIN o = 1 .. Len(o)
  OBVIOUS
<1>2. PICK p \in U : \A y \in U : p <= y
  <2>1. U \in SUBSET Nat /\ i \in U
    BY <1>1
  <2> HIDE DEF U
  <2> QED BY <2>1, MinNat
<1>3. First(p)
  BY <1>1, <1>2
<1>4. \A j : First(j) => j = p
  BY <1>1, <1>2
<1>5. (CHOOSE j \in DOMAIN o : o[j] = m /\ \A k \in 1 .. j - 1 : o[k] # m) = p
  <2>1. p \in DOMAIN o /\ o[p] = m /\ \A k \in 1 .. p - 1 : o[k] # m
    BY <1>3
  <2>2. \A j \in DOMAIN o : (o[j] = m /\ \A k \in 1 .. j - 1 : o[k] # m) => j = p
    BY <1>4
  <2> HIDE DEF U, First
  <2> QED BY <2>1, <2>2
<1>6. After(o, m) = SubSeq(o, p + 1, Len(o))
  BY <1>5 DEF After
<1>7. p \in 1 .. i
  <2>1. i \in U /\ p \in 1 .. Len(o)
    OBVIOUS
  <2>2. p <= i
    BY <1>2, <2>1
  <2> QED BY <1>1, <2>1, <2>2
<1>8. o[p] = m /\ \A k \in 1 .. p - 1 : o[k] # m
  BY <1>3
<1> QED BY <1>6, <1>7, <1>8, Zenon

\* A line is told that fits into the queue, or one that does not.
LEMMA HearsTold ==
  ASSUME NEW t \in Seq(Texts), NEW q \in Seq(Texts), NEW o \in Seq(Texts), NEW f, NEW m \in Texts,
         Hears(t, q, o, f)
  PROVE  /\ Hears(t, Append(q, m), Append(o, m), f)
         /\ Hears(t, q, Append(o, m), TRUE)
<1> DEFINE s == t \o q
<1>1. /\ s \in Seq(Texts) /\ Len(s) \in Nat /\ Len(o) \in Nat /\ t \o Append(q, m) = Append(s, m)
      /\ DOMAIN s = 1 .. Len(s) /\ DOMAIN o = 1 .. Len(o)
  OBVIOUS
<1>2. /\ DOMAIN Append(s, m) = 1 .. Len(s) + 1 /\ DOMAIN Append(o, m) = 1 .. Len(o) + 1
      /\ \A k \in 1 .. Len(s) : Append(s, m)[k] = s[k]
      /\ \A k \in 1 .. Len(o) : Append(o, m)[k] = o[k]
      /\ Append(s, m)[Len(s) + 1] = m /\ Append(o, m)[Len(o) + 1] = m
  OBVIOUS
<1> HIDE DEF s
<1>3. PICK e \in [DOMAIN s -> DOMAIN o] : /\ \A i \in DOMAIN s : s[i] = o[e[i]]
                                         /\ \A i, j \in DOMAIN s : i < j => e[i] < e[j]
  <2>1. CASE f
    BY <2>1, Zenon DEF Hears, Subsequence, s
  <2>2. CASE ~f
    <3>1. s = o
      BY <2>2 DEF Hears, s
    <3> DEFINE id == [i \in DOMAIN s |-> i]
    <3>2. id \in [DOMAIN s -> DOMAIN o] /\ \A i \in DOMAIN s : id[i] = i
      BY <3>1
    <3> HIDE DEF id
    <3>3. \A i \in DOMAIN s : s[i] = o[id[i]]
      BY <3>1, <3>2
    <3>4. \A i, j \in DOMAIN s : i < j => id[i] < id[j]
      BY <3>2
    <3> QED BY <3>2, <3>3, <3>4
  <2> QED BY <2>1, <2>2
<1>4. Subsequence(Append(s, m), Append(o, m))
  <2> DEFINE d == [i \in 1 .. Len(s) + 1 |-> IF i = Len(s) + 1 THEN Len(o) + 1 ELSE e[i]]
             u == Append(s, m)
             v == Append(o, m)
  <2>1. \A i \in 1 .. Len(s) : d[i] = e[i] /\ e[i] \in 1 .. Len(o) /\ s[i] = o[e[i]]
    <3> TAKE i \in 1 .. Len(s)
    <3>1. i \in DOMAIN s /\ i # Len(s) + 1 /\ i \in 1 .. Len(s) + 1
      BY <1>1
    <3>2. e[i] \in DOMAIN o /\ s[i] = o[e[i]]
      BY <1>3, <3>1
    <3> QED BY <1>1, <3>1, <3>2
  <2>2. d[Len(s) + 1] = Len(o) + 1 /\ d \in [DOMAIN u -> DOMAIN v]
    BY <1>1, <1>2, <2>1
  <2> HIDE DEF d
  <2>3. ASSUME NEW i \in DOMAIN u PROVE u[i] = v[d[i]]
    BY <1>1, <1>2, <2>1, <2>2
  <2>4. ASSUME NEW i \in DOMAIN u, NEW j \in DOMAIN u, i < j PROVE d[i] < d[j]
    <3>1. i \in 1 .. Len(s) /\ i \in DOMAIN s
      BY <1>1, <1>2, <2>4
    <3>2. CASE j = Len(s) + 1
      BY <1>1, <2>1, <2>2, <3>1, <3>2
    <3>3. CASE j \in 1 .. Len(s)
      BY <1>1, <1>3, <2>1, <2>4, <3>1, <3>3
    <3> QED BY <1>1, <1>2, <3>2, <3>3
  <2> HIDE DEF u, v
  <2>5. Subsequence(u, v)
    BY <2>2, <2>3, <2>4, Zenon DEF Subsequence
  <2> QED BY <2>5 DEF u, v
<1>5. Subsequence(s, Append(o, m))
  <2>1. e \in [DOMAIN s -> DOMAIN Append(o, m)]
    BY <1>1, <1>2
  <2>2. \A i \in DOMAIN s : s[i] = Append(o, m)[e[i]]
    BY <1>1, <1>2, <1>3
  <2> QED BY <1>3, <2>1, <2>2, Zenon DEF Subsequence
<1>6. ~f => s = o
  BY DEF Hears, s
<1> QED BY <1>1, <1>4, <1>5, <1>6, Zenon DEF Hears, s

\* The head of the queue is taken, and what was taken is sent.
LEMMA HearsTaken ==
  ASSUME NEW q \in Seq(Texts), NEW o \in Seq(Texts), NEW f, q # <<>>, Hears(<<>>, q, o, f)
  PROVE  Hears(<<Head(q)>>, Tail(q), o, f)
<1>1. <<>> \o q = q /\ <<Head(q)>> \o Tail(q) = q
  OBVIOUS
<1> QED BY <1>1 DEF Hears

LEMMA HearsSent ==
  ASSUME NEW q \in Seq(Texts), NEW o \in Seq(Texts), NEW f, NEW m \in Texts, Hears(<<m>>, q, o, f)
  PROVE  After(o, m) \in Seq(Texts) /\ Hears(<<>>, q, After(o, m), f)
<1> DEFINE s == <<m>> \o q
<1>1. /\ s \in Seq(Texts) /\ Len(s) = Len(q) + 1 /\ Len(q) \in Nat /\ s[1] = m
      /\ \A k \in 1 .. Len(q) : s[k + 1] = q[k]
      /\ <<>> \o q = q /\ Len(o) \in Nat
      /\ DOMAIN s = 1 .. Len(s) /\ DOMAIN o = 1 .. Len(o) /\ DOMAIN q = 1 .. Len(q)
  OBVIOUS
<1> HIDE DEF s
<1>2. CASE f
  <2>1. PICK e \in [DOMAIN s -> DOMAIN o] : /\ \A i \in DOMAIN s : s[i] = o[e[i]]
                                           /\ \A i, j \in DOMAIN s : i < j => e[i] < e[j]
    BY <1>2, Zenon DEF Hears, Subsequence, s
  <2>2. e[1] \in 1 .. Len(o) /\ o[e[1]] = m
    BY <1>1, <2>1, SMTT(30)
  <2>3. PICK p \in 1 .. e[1] : After(o, m) = SubSeq(o, p + 1, Len(o))
    BY <2>2, AfterFirst
  <2> DEFINE a == After(o, m)
             d == [i \in 1 .. Len(q) |-> e[i + 1] - p]
  <2>4. /\ a \in Seq(Texts) /\ Len(a) = Len(o) - p /\ DOMAIN a = 1 .. Len(o) - p
        /\ \A k \in 1 .. Len(o) - p : a[k] = o[k + p]
    <3>1. p \in 1 .. Len(o)
      BY <1>1, <2>2
    <3>2. a = SubSeq(o, p + 1, Len(o)) /\ p + 1 \in 1 .. Len(o) + 1
      BY <1>1, <2>3, <3>1
    <3> HIDE DEF a
    <3>3. a \in Seq(Texts)
      BY <1>1, <3>2
    <3>4. Len(a) = Len(o) - p
      <4>1. /\ \A i \in p + 1 .. Len(o) : o[i] \in Texts
            /\ p + 1 \in Int /\ Len(o) \in Int /\ p \in 1 .. Len(o)
        BY <1>1, <3>1
      <4>2. Len(SubSeq(o, p + 1, Len(o))) = IF p + 1 <= Len(o) THEN Len(o) - (p + 1) + 1 ELSE 0
        BY <4>1, SubSeqProperties
      <4>3. Len(SubSeq(o, p + 1, Len(o))) = Len(o) - p
        BY <4>1, <4>2
      <4> QED BY <3>2, <4>3, Zenon
    <3>5. \A k \in 1 .. Len(o) - p : a[k] = o[k + p]
      <4> TAKE k \in 1 .. Len(o) - p
      <4>1. SubSeq(o, p + 1, Len(o))[k] = o[(p + 1) + k - 1] /\ (p + 1) + k - 1 = k + p
        BY <1>1, <3>1
      <4> QED BY <3>2, <4>1
    <3> QED BY <3>3, <3>4, <3>5
  <2>5. ASSUME NEW i \in 1 .. Len(q)
        PROVE  e[i + 1] \in 1 .. Len(o) /\ e[i + 1] > e[1] /\ q[i] = o[e[i + 1]]
    <3>1. i + 1 \in DOMAIN s /\ 1 \in DOMAIN s /\ 1 < i + 1
      BY <1>1
    <3> QED BY <1>1, <2>1, <3>1
  <2>6. \A i \in 1 .. Len(q) : d[i] = e[i + 1] - p /\ d[i] \in 1 .. Len(o) - p /\ q[i] = a[d[i]]
    <3> HIDE DEF a
    <3> TAKE i \in 1 .. Len(q)
    <3>1. e[i + 1] \in 1 .. Len(o) /\ e[i + 1] > e[1] /\ q[i] = o[e[i + 1]]
      BY <2>5
    <3>2. d[i] = e[i + 1] - p
      OBVIOUS
    <3>3. d[i] \in 1 .. Len(o) - p /\ d[i] + p = e[i + 1]
      BY <1>1, <2>2, <3>1, <3>2
    <3> HIDE DEF d
    <3> QED BY <2>4, <3>1, <3>2, <3>3
  <2>7. d \in [DOMAIN q -> DOMAIN a]
    <3> HIDE DEF a
    <3> QED BY <1>1, <2>4, <2>6
  <2> HIDE DEF a, d
  <2>8. ASSUME NEW i \in DOMAIN q, NEW j \in DOMAIN q, i < j PROVE d[i] < d[j]
    <3>1. i + 1 \in DOMAIN s /\ j + 1 \in DOMAIN s /\ i + 1 < j + 1
      BY <1>1, <2>8
    <3>2. e[i + 1] < e[j + 1]
      BY <2>1, <3>1
    <3>3. i \in 1 .. Len(q) /\ j \in 1 .. Len(q)
      BY <1>1
    <3>4. e[i + 1] \in 1 .. Len(o) /\ e[j + 1] \in 1 .. Len(o)
      BY <2>5, <3>3
    <3>5. d[i] = e[i + 1] - p /\ d[j] = e[j + 1] - p
      BY <2>6, <3>3
    <3>6. p \in Int /\ e[i + 1] \in Int /\ e[j + 1] \in Int
      <4>1. Len(o) \in Nat /\ p \in 1 .. Len(o)
        BY <1>1, <2>2
      <4> QED BY <3>4, <4>1
    <3>7. \A x, y, z \in Int : x < y => x - z < y - z
      OBVIOUS
    <3> HIDE DEF s
    <3> QED BY <3>2, <3>5, <3>6, <3>7
  <2>9. Subsequence(q, a)
    <3>1. \A i \in DOMAIN q : q[i] = a[d[i]]
      BY <1>1, <2>6
    <3> QED BY <2>7, <2>8, <3>1, Zenon DEF Subsequence
  <2> QED BY <1>1, <1>2, <2>4, <2>9 DEF Hears, a
<1>3. CASE ~f
  <2>1. s = o /\ o[1] = m /\ 1 \in 1 .. Len(o)
    BY <1>1, <1>3 DEF Hears, s
  <2>2. PICK p \in 1 .. 1 : After(o, m) = SubSeq(o, p + 1, Len(o))
    BY <2>1, AfterFirst
  <2>3. After(o, m) = SubSeq(o, 2, Len(o))
    BY <2>2
  <2>4. SubSeq(s, 2, Len(s)) = q
    BY <1>1 DEF s
  <2> QED BY <1>1, <1>3, <2>1, <2>3, <2>4 DEF Hears
<1> QED BY <1>2, <1>3

-----------------------------------------------------------------------------
(***************************************************************************)
(* What the operators on the hub make of it.                               *)
(***************************************************************************)
NetShape(n) ==
  /\ DOMAIN n = {"hub", "queue", "owed", "full", "keys"}
  /\ n.queue \in [Clients -> Seq(Texts)] /\ n.owed \in [Clients -> Seq(Texts)]
  /\ n.full \in [Clients -> BOOLEAN] /\ n.keys \in Nat

Fresh(n, c) == n.queue[c] = <<>> /\ n.owed[c] = <<>> /\ n.full[c] = FALSE
SameFor(n, p, c) == p.queue[c] = n.queue[c] /\ p.owed[c] = n.owed[c] /\ p.full[c] = n.full[c]
HearsIn(n, t, c) == Hears(t, n.queue[c], n.owed[c], n.full[c])

\* The queues of one client are emptied.
LEMMA Emptying ==
  ASSUME NEW n, NetShape(n), NEW c \in Clients, NEW p, DOMAIN p = DOMAIN n, p.keys \in Nat,
         p.queue = [n.queue EXCEPT ![c] = <<>>], p.owed = [n.owed EXCEPT ![c] = <<>>],
         p.full = [n.full EXCEPT ![c] = FALSE]
  PROVE  NetShape(p) /\ Fresh(p, c) /\ \A d \in Clients \ {c} : SameFor(n, p, d)
<1>1. <<>> \in Seq(Texts)
  OBVIOUS
<1>2. NetShape(p)
  BY <1>1 DEF NetShape
<1>3. Fresh(p, c) /\ \A d \in Clients \ {c} : SameFor(n, p, d)
  BY DEF NetShape, Fresh, SameFor
<1> QED BY <1>2, <1>3

LEMMA JoinedNet ==
  ASSUME NEW n, NetShape(n), NEW c \in Clients, NEW r
  PROVE  /\ NetShape(Joined(n, c, r)) /\ Fresh(Joined(n, c, r), c)
         /\ \A d \in Clients \ {c} : SameFor(n, Joined(n, c, r), d)
         /\ Joined(n, c, r).hub = Entered(n.hub, r, n.keys + 1) /\ Joined(n, c, r).keys = n.keys + 1
<1> DEFINE p == Joined(n, c, r)
<1>1. DOMAIN p = DOMAIN n /\ p.keys = n.keys + 1 /\ p.keys \in Nat
  BY DEF Joined, NetShape
<1>2. p.hub = Entered(n.hub, r, n.keys + 1)
  BY DEF Joined, NetShape, Entered
<1>3. /\ p.queue = [n.queue EXCEPT ![c] = <<>>] /\ p.owed = [n.owed EXCEPT ![c] = <<>>]
      /\ p.full = [n.full EXCEPT ![c] = FALSE]
  BY DEF Joined, NetShape
<1> HIDE DEF p
<1>4. NetShape(p) /\ Fresh(p, c) /\ \A d \in Clients \ {c} : SameFor(n, p, d)
  BY <1>1, <1>3, Emptying
<1> QED BY <1>1, <1>2, <1>4 DEF p

LEMMA PoppedNet ==
  ASSUME NEW n, NetShape(n), NEW c \in Clients
  PROVE  /\ NetShape(Popped(n, c)) /\ Fresh(Popped(n, c), c)
         /\ \A d \in Clients \ {c} : SameFor(n, Popped(n, c), d)
         /\ Popped(n, c).hub = Gone(n.hub, room[c], key[c]) /\ Popped(n, c).keys = n.keys
<1> DEFINE p == Popped(n, c)
<1>1. DOMAIN p = DOMAIN n /\ p.keys = n.keys /\ p.keys \in Nat
  BY DEF Popped, NetShape
<1>2. p.hub = Gone(n.hub, room[c], key[c])
  BY DEF Popped, NetShape, Gone
<1>3. /\ p.queue = [n.queue EXCEPT ![c] = <<>>] /\ p.owed = [n.owed EXCEPT ![c] = <<>>]
      /\ p.full = [n.full EXCEPT ![c] = FALSE]
  BY DEF Popped, NetShape
<1> HIDE DEF p
<1>4. NetShape(p) /\ Fresh(p, c) /\ \A d \in Clients \ {c} : SameFor(n, p, d)
  BY <1>1, <1>3, Emptying
<1> QED BY <1>1, <1>2, <1>4 DEF p

LEMMA SweptNet ==
  ASSUME NEW n, NetShape(n), NEW r
  PROVE  /\ NetShape(Swept(n, r)) /\ Swept(n, r).hub = Cleared(n.hub, r) /\ Swept(n, r).keys = n.keys
         /\ \A d \in Clients : SameFor(n, Swept(n, r), d)
<1>1. CASE r \in DOMAIN n.hub /\ n.hub[r] = {}
  <2> DEFINE p == Swept(n, r)
  <2>1. /\ DOMAIN p = DOMAIN n /\ p.keys = n.keys /\ p.queue = n.queue /\ p.owed = n.owed
        /\ p.full = n.full
    BY <1>1 DEF Swept, NetShape
  <2>2. p.hub = Cleared(n.hub, r)
    BY <1>1 DEF Swept, NetShape, Cleared
  <2> HIDE DEF p
  <2>3. NetShape(p) /\ \A d \in Clients : SameFor(n, p, d)
    BY <2>1 DEF NetShape, SameFor
  <2> QED BY <2>1, <2>2, <2>3 DEF p
<1>2. CASE ~(r \in DOMAIN n.hub /\ n.hub[r] = {})
  BY <1>2 DEF Swept, Cleared, SameFor
<1> QED BY <1>1, <1>2

\* Whom a line reaches.
Member(n, r, c, apart) == r \in DOMAIN n.hub /\ key[c] \in n.hub[r] \ {key[d] : d \in apart}
Fits(n, c) == Len(n.queue[c]) < Depth
Told(r, c, apart) == Inside(c) /\ room[c] = r /\ c \notin apart

LEMMA TellNet ==
  ASSUME NEW n, NetShape(n), NEW r, NEW m \in Texts, NEW apart
  PROVE  LET p == Tell(n, r, m, apart)
         IN /\ NetShape(p) /\ p.hub = n.hub /\ p.keys = n.keys
            /\ \A c \in Clients :
                 /\ p.queue[c] = IF Member(n, r, c, apart) /\ Fits(n, c)
                                 THEN Append(n.queue[c], m) ELSE n.queue[c]
                 /\ p.full[c] = (n.full[c] \/ (Member(n, r, c, apart) /\ ~Fits(n, c)))
                 /\ p.owed[c] = IF Told(r, c, apart) THEN Append(n.owed[c], m) ELSE n.owed[c]
<1> DEFINE b == Broadcast(n, r, m, {key[c] : c \in apart})
           p == Tell(n, r, m, apart)
<1>1. /\ DOMAIN b = DOMAIN n /\ b.keys = n.keys /\ b.hub = n.hub /\ b.owed = n.owed
      /\ b.queue = [c \in Clients |-> IF Member(n, r, c, apart) /\ Fits(n, c)
                                      THEN Append(n.queue[c], m) ELSE n.queue[c]]
      /\ b.full = [c \in Clients |-> n.full[c] \/ (Member(n, r, c, apart) /\ ~Fits(n, c))]
  BY DEF Broadcast, Member, Fits, NetShape
<1>2. /\ DOMAIN p = DOMAIN b /\ p.keys = b.keys /\ p.hub = b.hub /\ p.queue = b.queue /\ p.full = b.full
      /\ p.owed = [c \in Clients |-> IF Told(r, c, apart) THEN Append(b.owed[c], m) ELSE b.owed[c]]
  <2> HIDE DEF b
  <2>1. p = [b EXCEPT !.owed = [c \in Clients |-> IF Inside(c) /\ room[c] = r /\ c \notin apart
                                                 THEN Append(@[c], m) ELSE @[c]]]
    BY DEF Tell, b
  <2> HIDE DEF p
  <2> QED BY <1>1, <2>1 DEF Told, NetShape
<1> HIDE DEF b, p
<1>3. \A c \in Clients :
        /\ n.queue[c] \in Seq(Texts) /\ n.owed[c] \in Seq(Texts) /\ n.full[c] \in BOOLEAN
        /\ Append(n.queue[c], m) \in Seq(Texts) /\ Append(n.owed[c], m) \in Seq(Texts)
  BY DEF NetShape
<1>4. p.queue \in [Clients -> Seq(Texts)] /\ p.owed \in [Clients -> Seq(Texts)]
  BY <1>1, <1>2, <1>3
<1>5. p.full \in [Clients -> BOOLEAN]
  BY <1>1, <1>2
<1>6. NetShape(p)
  BY <1>1, <1>2, <1>4, <1>5 DEF NetShape
<1> QED BY <1>1, <1>2, <1>6 DEF p

LEMMA TellHears ==
  ASSUME NEW n, NetShape(n), NEW r, NEW m \in Texts, NEW apart, NEW c \in Clients, Inside(c),
         NEW t \in Seq(Texts), HearsIn(n, t, c),
         c \in apart \/ (/\ \A d \in apart : key[d] # key[c]
                        /\ (r \in DOMAIN n.hub /\ key[c] \in n.hub[r]) <=> room[c] = r)
  PROVE  HearsIn(Tell(n, r, m, apart), t, c)
<1> DEFINE p == Tell(n, r, m, apart)
<1>1. /\ p.queue[c] = IF Member(n, r, c, apart) /\ Fits(n, c) THEN Append(n.queue[c], m) ELSE n.queue[c]
      /\ p.full[c] = (n.full[c] \/ (Member(n, r, c, apart) /\ ~Fits(n, c)))
      /\ p.owed[c] = IF Told(r, c, apart) THEN Append(n.owed[c], m) ELSE n.owed[c]
  BY TellNet
<1>2. Member(n, r, c, apart) <=> Told(r, c, apart)
  BY DEF Member, Told
<1>3. n.queue[c] \in Seq(Texts) /\ n.owed[c] \in Seq(Texts) /\ n.full[c] \in BOOLEAN
  BY DEF NetShape
<1> HIDE DEF p
<1>4. /\ Hears(t, Append(n.queue[c], m), Append(n.owed[c], m), n.full[c])
      /\ Hears(t, n.queue[c], Append(n.owed[c], m), TRUE)
  BY <1>3, HearsTold DEF HearsIn
<1>5. CASE ~Told(r, c, apart)
  <2>1. p.queue[c] = n.queue[c] /\ p.owed[c] = n.owed[c] /\ p.full[c] = n.full[c]
    BY <1>1, <1>2, <1>3, <1>5
  <2> QED BY <2>1, Zenon DEF HearsIn, p
<1>6. CASE Told(r, c, apart) /\ Fits(n, c)
  <2>1. p.queue[c] = Append(n.queue[c], m) /\ p.owed[c] = Append(n.owed[c], m) /\ p.full[c] = n.full[c]
    BY <1>1, <1>2, <1>3, <1>6
  <2> QED BY <1>4, <2>1, Zenon DEF HearsIn, p
<1>7. CASE Told(r, c, apart) /\ ~Fits(n, c)
  <2>1. p.queue[c] = n.queue[c] /\ p.owed[c] = Append(n.owed[c], m) /\ p.full[c] = TRUE
    BY <1>1, <1>2, <1>3, <1>7
  <2> QED BY <1>4, <2>1, Zenon DEF HearsIn, p
<1> QED BY <1>5, <1>6, <1>7

-----------------------------------------------------------------------------
(***************************************************************************)
(* The invariant: the values the operators need, who is in which room,     *)
(* what everyone in a room is still to hear, and which sockets are listed. *)
(***************************************************************************)
ConfTyped ==
  /\ NetShape(net) /\ net.keys <= MaxEntries
  /\ at \in [Clients -> Places]
  /\ \A s \in Terminals : at[s] \notin {"open", "room"}
  /\ \A b \in Browsers : at[b] \in {"off", "open", "room"}
  /\ room \in [Clients -> Rooms \cup {NoRoom}] /\ key \in [Clients -> 0 .. MaxEntries]
  /\ text \in [Clients -> Seq(Texts)] /\ said \in 0 .. MaxSaid
  /\ DOMAIN wreck = {"ghosts", "rooms", "browsers", "deaf"} /\ listed \subseteq Browsers

HubTells ==
  /\ Found(net.hub, wreck.ghosts, at, key, room)
  /\ Numbered(net.hub, wreck.ghosts, net.keys, at, key)
  /\ Emptied(net.hub, wreck.rooms, at, room)
  /\ \A c \in Clients : at[c] \notin InRoom \cup {"goodbye", "thrown"} => key[c] = 0

\* The line that is being sent, or will be when the other task has ended.
Held(place, t) == IF place = "text" THEN Len(t) = 1 ELSE t = <<>> \/ (place = "reap" /\ Len(t) = 1)

AllHear ==
  \A c \in Clients : /\ at[c] \in InRoom => HearsIn(net, text[c], c)
                     /\ Held(at[c], text[c])

ConfInv == ConfTyped /\ HubTells /\ AllHear /\ ListedAreOpen

\* A key is found in a room by whoever is there.
LEMMA Knows ==
  ASSUME NEW h, NEW g, NEW A, NEW K, NEW R, Found(h, g, A, K, R), NEW c \in Clients, A[c] \in InRoom, NEW r
  PROVE  (r \in DOMAIN h /\ K[c] \in h[r]) <=> R[c] = r
<1>1. ASSUME r \in DOMAIN h, K[c] \in h[r] PROVE R[c] = r
  <2>1. K[c] \in h[r] \ g
    BY <1>1 DEF Found
  <2>2. PICK d \in Clients : A[d] \in InRoom /\ R[d] = r /\ K[d] = K[c]
    BY <1>1, <2>1 DEF Found
  <2> QED BY <2>2 DEF Found
<1>2. ASSUME R[c] = r PROVE r \in DOMAIN h /\ K[c] \in h[r]
  BY <1>2 DEF Found
<1> QED BY <1>1, <1>2

LEMMA InsideIs == \A c : Inside(c) <=> at[c] \in InRoom
BY DEF Inside, InRoom

\* Whoever has the same queues hears the same.
LEMMA SameHears ==
  ASSUME NEW n, NEW p, NEW c, NEW t, SameFor(n, p, c), HearsIn(n, t, c)
  PROVE  HearsIn(p, t, c)
BY Zenon DEF SameFor, HearsIn

\* Notices and lines said are texts.
LEMMA Tellable ==
  ASSUME ConfTyped, HubTells, NEW c \in Clients
  PROVE  /\ at[c] \in InRoom => /\ key[c] \in Keys /\ Notice("joined", c) \in Texts /\ Notice("left", c) \in Texts
         /\ \A k \in Keys, i \in 0 .. MaxSaid, x \in {"joined", "said"} : [kind |-> x, of |-> k, nth |-> i] \in Texts
<1>1. MaxEntries \in Nat /\ MaxSaid \in Nat /\ net.keys \in Nat /\ net.keys <= MaxEntries /\ 0 \in 0 .. MaxSaid
  BY ConferenceAssumption DEF ConfTyped, NetShape
<1>2. at[c] \in InRoom => key[c] \in Keys
  BY <1>1 DEF HubTells, Numbered, Keys
<1> QED BY <1>1, <1>2 DEF Texts, Notice

\* A client in a room is taken out of it and the others are told.
LEMMA PartedNet ==
  ASSUME ConfTyped, HubTells, AllHear, NEW c \in Clients, at[c] \in InRoom
  PROVE  LET p == Parted(net, c)
         IN /\ NetShape(p) /\ p.keys = net.keys /\ p.hub = Gone(net.hub, room[c], key[c])
            /\ \A d \in Clients \ {c} : at[d] \in InRoom => HearsIn(p, text[d], d)
<1> DEFINE n == Popped(net, c)
           m == Notice("left", c)
           p == Tell(n, room[c], m, {c})
           A == [at EXCEPT ![c] = "off"]
<1>1. /\ NetShape(n) /\ n.hub = Gone(net.hub, room[c], key[c]) /\ n.keys = net.keys
      /\ \A d \in Clients \ {c} : SameFor(net, n, d)
  BY PoppedNet DEF ConfTyped
<1>2. Found(n.hub, wreck.ghosts, A, key, room)
  <2>1. A[c] \notin InRoom /\ \A d \in Clients \ {c} : A[d] = at[d]
    BY DEF ConfTyped, InRoom
  <2> HIDE DEF A
  <2> QED BY <1>1, <2>1, Leaves DEF HubTells
<1>3. m \in Texts
  BY Tellable
<1> HIDE DEF n, m
<1>4. NetShape(p) /\ p.hub = n.hub /\ p.keys = n.keys
  BY <1>1, <1>3, TellNet
<1>5. ASSUME NEW d \in Clients \ {c}, at[d] \in InRoom PROVE HearsIn(p, text[d], d)
  <2>1. HearsIn(n, text[d], d)
    BY <1>1, <1>5, SameHears DEF AllHear, Held
  <2>2. key[c] # key[d]
    BY <1>5 DEF HubTells, Found
  <2>3. A[d] \in InRoom
    BY <1>5 DEF ConfTyped
  <2>4. (room[c] \in DOMAIN n.hub /\ key[d] \in n.hub[room[c]]) <=> room[d] = room[c]
    <3> HIDE DEF A
    <3> QED BY <1>2, <2>3, Knows
  <2>5. text[d] \in Seq(Texts) /\ Inside(d)
    BY <1>5, InsideIs DEF ConfTyped
  <2> QED BY <1>1, <1>3, <2>1, <2>2, <2>4, <2>5, TellHears
<1> QED BY <1>1, <1>4, <1>5 DEF Parted, n, m

\* A browser is out of the room it was in, if any.
LEMMA OutNet ==
  ASSUME ConfTyped, HubTells, AllHear, NEW b \in Browsers, at[b] \in {"open", "room"}
  PROVE  LET p == Out(net, b)
             A == [at EXCEPT ![b] = "open"]
         IN /\ NetShape(p) /\ p.keys = net.keys
            /\ Found(p.hub, wreck.ghosts, A, key, room) /\ Numbered(p.hub, wreck.ghosts, p.keys, A, key)
            /\ Emptied(p.hub, wreck.rooms, A, room)
            /\ \A d \in Clients \ {b} : at[d] \in InRoom => HearsIn(p, text[d], d)
<1> DEFINE A == [at EXCEPT ![b] = "open"]
           n == Parted(net, b)
           p == Swept(n, room[b])
<1>1. b \in Clients /\ "open" \notin InRoom /\ "room" \in InRoom
  BY DEF Clients, InRoom
<1>2. A[b] = "open" /\ \A d \in Clients \ {b} : A[d] = at[d]
  BY <1>1 DEF ConfTyped
<1>3. CASE at[b] = "room"
  <2>1. /\ NetShape(n) /\ n.keys = net.keys /\ n.hub = Gone(net.hub, room[b], key[b])
        /\ \A d \in Clients \ {b} : at[d] \in InRoom => HearsIn(n, text[d], d)
    BY <1>1, <1>3, PartedNet
  <2>2. /\ Found(n.hub, wreck.ghosts, A, key, room) /\ Numbered(n.hub, wreck.ghosts, n.keys, A, key)
        /\ EmptiedBut(n.hub, wreck.rooms, A, room, room[b])
    <3> HIDE DEF A, n
    <3>1. at[b] \in InRoom /\ A[b] \notin InRoom
      BY <1>1, <1>2, <1>3
    <3>2. /\ Found(net.hub, wreck.ghosts, at, key, room) /\ Numbered(net.hub, wreck.ghosts, net.keys, at, key)
          /\ Emptied(net.hub, wreck.rooms, at, room)
      BY DEF HubTells
    <3>3. /\ Found(Gone(net.hub, room[b], key[b]), wreck.ghosts, A, key, room)
          /\ Numbered(Gone(net.hub, room[b], key[b]), wreck.ghosts, net.keys, A, key)
      BY <1>1, <1>2, <3>1, <3>2, Leaves
    <3>4. EmptiedBut(Gone(net.hub, room[b], key[b]), wreck.rooms, A, room, room[b])
      BY <1>1, <1>2, <3>1, <3>2, LeavesEmpty
    <3> QED BY <2>1, <3>3, <3>4, Zenon
  <2> HIDE DEF A, n
  <2>4. /\ NetShape(p) /\ p.hub = Cleared(n.hub, room[b]) /\ p.keys = n.keys
        /\ \A d \in Clients : SameFor(n, p, d)
    BY <2>1, SweptNet
  <2>5. /\ Found(p.hub, wreck.ghosts, A, key, room) /\ Numbered(p.hub, wreck.ghosts, p.keys, A, key)
        /\ Emptied(p.hub, wreck.rooms, A, room)
    <3> HIDE DEF p
    <3>1. /\ Found(Cleared(n.hub, room[b]), wreck.ghosts, A, key, room)
          /\ Numbered(Cleared(n.hub, room[b]), wreck.ghosts, n.keys, A, key)
          /\ Emptied(Cleared(n.hub, room[b]), wreck.rooms, A, room)
      BY <2>2, Clears
    <3> QED BY <2>4, <3>1, Zenon
  <2>6. \A d \in Clients \ {b} : at[d] \in InRoom => HearsIn(p, text[d], d)
    BY <2>1, <2>4, SameHears
  <2> QED BY <1>3, <2>1, <2>4, <2>5, <2>6 DEF Out, A, n
<1>4. CASE at[b] = "open"
  <2>1. A = at /\ Out(net, b) = net
    BY <1>1, <1>4 DEF Out, ConfTyped
  <2>2. NetShape(net) /\ \A d \in Clients \ {b} : at[d] \in InRoom => HearsIn(net, text[d], d)
    BY DEF ConfTyped, AllHear, Held
  <2>3. /\ Found(net.hub, wreck.ghosts, at, key, room) /\ Numbered(net.hub, wreck.ghosts, net.keys, at, key)
        /\ Emptied(net.hub, wreck.rooms, at, room)
    BY DEF HubTells
  <2> QED BY <2>1, <2>2, <2>3
<1> QED BY <1>3, <1>4

-----------------------------------------------------------------------------
(***************************************************************************)
(* The steps.                                                              *)
(***************************************************************************)
\* A step that nobody enters or leaves a room in.
LEMMA HubStays ==
  ASSUME HubTells, UNCHANGED <<room, key, wreck>>, net'.hub = net.hub, net'.keys = net.keys,
         \A d \in Clients : /\ at'[d] \in InRoom <=> at[d] \in InRoom
                            /\ at'[d] \in {"goodbye", "thrown"} <=> at[d] \in {"goodbye", "thrown"}
  PROVE  HubTells'
<1>1. /\ Found(net.hub, wreck.ghosts, at', key, room)
      /\ Numbered(net.hub, wreck.ghosts, net.keys, at', key)
      /\ Emptied(net.hub, wreck.rooms, at', room)
  BY Remains DEF HubTells
<1> QED BY <1>1 DEF HubTells

\* What a terminal does leaves the sockets alone.
LEMMA ListedStays ==
  ASSUME ListedAreOpen, ConfTyped, NEW s \in Terminals, NEW x, at' = [at EXCEPT ![s] = x],
         UNCHANGED listed, wreck'.browsers = wreck.browsers, lost' \in {lost, lost \ {s}}
  PROVE  ListedAreOpen'
<1>1. \A b \in Browsers : at'[b] = at[b] /\ (b \in lost' <=> b \in lost)
  BY ConferenceAssumption DEF ConfTyped, Clients
<1>2. listed \subseteq Browsers
  BY DEF ConfTyped
<1> QED BY <1>1, <1>2 DEF ListedAreOpen

\* A client in a room tells the others, or all that are there.
LEMMA TellsRoom ==
  ASSUME ConfTyped, HubTells, AllHear, NEW c \in Clients, at[c] \in InRoom, NEW apart, apart \in {{}, {c}},
         NEW m \in Texts
  PROVE  LET p == Tell(net, room[c], m, apart)
         IN /\ NetShape(p) /\ p.hub = net.hub /\ p.keys = net.keys
            /\ \A d \in Clients : at[d] \in InRoom => HearsIn(p, text[d], d)
<1> DEFINE p == Tell(net, room[c], m, apart)
<1>1. NetShape(net)
  BY DEF ConfTyped
<1>2. NetShape(p) /\ p.hub = net.hub /\ p.keys = net.keys
  BY <1>1, TellNet
<1>3. ASSUME NEW d \in Clients, at[d] \in InRoom PROVE HearsIn(p, text[d], d)
  <2>1. (room[c] \in DOMAIN net.hub /\ key[d] \in net.hub[room[c]]) <=> room[d] = room[c]
    BY <1>3, Knows DEF HubTells
  <2>2. d \in apart \/ \A e \in apart : key[e] # key[d]
    BY <1>3 DEF HubTells, Found
  <2>3. text[d] \in Seq(Texts) /\ Inside(d) /\ HearsIn(net, text[d], d)
    BY <1>3, InsideIs DEF ConfTyped, AllHear, Held
  <2> QED BY <1>1, <2>1, <2>2, <2>3, TellHears
<1> QED BY <1>2, <1>3

LEMMA AcceptStep ==
  ASSUME ConfInv, NEW s \in Terminals, Accept(s)
  PROVE  ConfInv'
<1>1. /\ at' = [at EXCEPT ![s] = "prompt"] /\ at[s] = "off" /\ s \in Clients /\ at \in [Clients -> Places]
      /\ UNCHANGED <<net, room, key, text, line, stopped, lost, dead, listed, said, wreck>>
      /\ ConfTyped /\ HubTells /\ AllHear /\ ListedAreOpen
  BY DEF Accept, ConfInv, ConfTyped, Clients
<1>2. ConfTyped'
  BY <1>1, ConferenceAssumption DEF ConfTyped, Places, Clients
<1>3. HubTells'
  <2>1. \A d \in Clients : /\ at'[d] \in InRoom <=> at[d] \in InRoom
                           /\ at'[d] \in {"goodbye", "thrown"} <=> at[d] \in {"goodbye", "thrown"}
    BY <1>1 DEF InRoom
  <2> QED BY <1>1, <2>1, HubStays
<1>4. AllHear'
  BY <1>1 DEF AllHear, Held, HearsIn, InRoom
<1>5. ListedAreOpen'
  BY <1>1, ListedStays
<1> QED BY <1>2, <1>3, <1>4, <1>5 DEF ConfInv

\* The line s tells, m, is a notice of its coming or a line said.
LEMMA SpeechStep ==
  ASSUME ConfInv, NEW s \in Terminals, Welcomed(s) \/ Echoed(s)
  PROVE  ConfInv'
<1>1. /\ at' = [at EXCEPT ![s] = "wait"] /\ at[s] \in {"welcome", "echo"} /\ s \in Clients
      /\ at \in [Clients -> Places] /\ at[s] \in InRoom
      /\ UNCHANGED <<room, key, text, line, stopped, lost, dead, listed, said, wreck>>
      /\ ConfTyped /\ HubTells /\ AllHear /\ ListedAreOpen
  BY DEF Welcomed, Echoed, ConfInv, ConfTyped, Clients, InRoom
<1>2. PICK m \in Texts : net' = Tell(net, room[s], m, {s})
  <2>1. said \in 0 .. MaxSaid
    BY <1>1 DEF ConfTyped
  <2> QED BY <1>1, <2>1, Tellable DEF Welcomed, Echoed
<1>3. /\ NetShape(net') /\ net'.hub = net.hub /\ net'.keys = net.keys
      /\ \A d \in Clients : at[d] \in InRoom => HearsIn(net', text[d], d)
  BY <1>1, <1>2, TellsRoom
<1>4. ConfTyped'
  BY <1>1, <1>3, ConferenceAssumption DEF ConfTyped, Places, Clients, NetShape
<1>5. \A d \in Clients : /\ at'[d] \in InRoom <=> at[d] \in InRoom
                         /\ at'[d] \in {"goodbye", "thrown"} <=> at[d] \in {"goodbye", "thrown"}
                         /\ at'[d] = "text" <=> at[d] = "text"
  BY <1>1 DEF InRoom
<1>6. HubTells'
  BY <1>1, <1>3, <1>5, HubStays
<1>7. AllHear'
  BY <1>1, <1>3, <1>5 DEF AllHear, Held, HearsIn
<1>8. ListedAreOpen'
  BY <1>1, ListedStays
<1> QED BY <1>4, <1>6, <1>7, <1>8 DEF ConfInv

LEMMA QuitsStep ==
  ASSUME ConfInv, NEW s \in Terminals, at[s] \in {"wait", "reap", "text", "echo"},
         NEW way \in {"goodbye", "thrown"}, Quits(s, way),
         UNCHANGED <<room, key, lost, dead, listed, said, wreck>>
  PROVE  ConfInv'
<1>1. /\ at' = [at EXCEPT ![s] = way] /\ text' = [text EXCEPT ![s] = <<>>] /\ s \in Clients
      /\ at \in [Clients -> Places] /\ at[s] \in InRoom /\ way \notin InRoom
      /\ ConfTyped /\ HubTells /\ AllHear /\ ListedAreOpen
      /\ net' = Parted(net, s)
  BY DEF Quits, ConfInv, ConfTyped, Clients, InRoom
<1>2. /\ NetShape(net') /\ net'.keys = net.keys /\ net'.hub = Gone(net.hub, room[s], key[s])
      /\ \A d \in Clients \ {s} : at[d] \in InRoom => HearsIn(net', text[d], d)
  BY <1>1, PartedNet
<1>3. ConfTyped'
  <2>1. text' \in [Clients -> Seq(Texts)]
    BY <1>1 DEF ConfTyped
  <2> QED BY <1>1, <1>2, <2>1, ConferenceAssumption DEF ConfTyped, Places, Clients, NetShape
<1>4. /\ at'[s] = way
      /\ \A d \in Clients \ {s} : at'[d] = at[d] /\ key'[d] = key[d] /\ room'[d] = room[d]
  BY <1>1
<1>5. /\ Found(net'.hub, wreck.ghosts, at', key', room') /\ Numbered(net'.hub, wreck.ghosts, net'.keys, at', key')
      /\ EmptiedBut(net'.hub, wreck.rooms, at', room', room[s])
  <2>1. /\ Found(net.hub, wreck.ghosts, at, key, room) /\ Numbered(net.hub, wreck.ghosts, net.keys, at, key)
        /\ Emptied(net.hub, wreck.rooms, at, room)
    BY <1>1 DEF HubTells
  <2>2. /\ Found(Gone(net.hub, room[s], key[s]), wreck.ghosts, at', key', room')
        /\ Numbered(Gone(net.hub, room[s], key[s]), wreck.ghosts, net.keys, at', key')
    BY <1>1, <1>4, <2>1, Leaves
  <2>3. EmptiedBut(Gone(net.hub, room[s], key[s]), wreck.rooms, at', room', room[s])
    BY <1>1, <1>4, <2>1, LeavesEmpty
  <2> QED BY <1>2, <2>2, <2>3, Zenon
<1>6. Emptied(net'.hub, wreck.rooms, at', room')
  <2>1. at'[s] \in {"goodbye", "thrown"} /\ room'[s] = room[s]
    BY <1>4
  <2> QED BY <1>5, <2>1 DEF Emptied, EmptiedBut
<1>7. HubTells'
  BY <1>1, <1>4, <1>5, <1>6 DEF HubTells
<1>8. AllHear'
  <2>1. text'[s] = <<>> /\ \A d \in Clients \ {s} : text'[d] = text[d]
    BY <1>1 DEF ConfTyped
  <2>2. ASSUME NEW d \in Clients
        PROVE  /\ at'[d] \in InRoom => HearsIn(net', text'[d], d)
               /\ Held(at'[d], text'[d])
    <3>1. CASE d = s
      BY <1>1, <1>4, <2>1, <3>1 DEF Held
    <3>2. CASE d # s
      BY <1>1, <1>2, <1>4, <2>1, <3>2 DEF AllHear, Held
    <3> QED BY <3>1, <3>2
  <2> QED BY <2>2 DEF AllHear, Held, HearsIn
<1>9. ListedAreOpen'
  BY <1>1, ListedStays
<1> QED BY <1>3, <1>7, <1>8, <1>9 DEF ConfInv

LEMMA EndsSession ==
  ASSUME ConfInv, NEW s \in Terminals, at[s] \in {"prompt", "welcome", "goodbye", "thrown"}, Ends(s)
  PROVE  ConfInv'
<1>1. /\ at' = [at EXCEPT ![s] = "off"] /\ key' = [key EXCEPT ![s] = 0] /\ room' = [room EXCEPT ![s] = NoRoom]
      /\ s \in Clients /\ at \in [Clients -> Places] /\ "off" \notin InRoom \cup {"goodbye", "thrown"}
      /\ ConfTyped /\ HubTells /\ AllHear /\ ListedAreOpen
      /\ UNCHANGED <<text, line, dead, listed, said>> /\ lost' = lost \ {s}
      /\ net' = [net EXCEPT !.queue[s] = <<>>, !.owed[s] = <<>>, !.full[s] = FALSE]
      /\ wreck' = [wreck EXCEPT !.ghosts = IF at[s] = "welcome" THEN @ \cup {key[s]} ELSE @,
                                !.rooms = IF at[s] \in {"goodbye", "thrown"} THEN @ \cup {room[s]} ELSE @,
                                !.deaf = @ \ {s}]
  BY DEF Ends, Leaving, Forgets, ConfInv, ConfTyped, Clients, InRoom
<1>2. /\ NetShape(net') /\ net'.keys = net.keys /\ net'.hub = net.hub
      /\ \A d \in Clients \ {s} : SameFor(net, net', d)
  <2>1. /\ DOMAIN net' = DOMAIN net /\ net'.keys = net.keys /\ net'.hub = net.hub
        /\ net'.queue = [net.queue EXCEPT ![s] = <<>>] /\ net'.owed = [net.owed EXCEPT ![s] = <<>>]
        /\ net'.full = [net.full EXCEPT ![s] = FALSE]
    BY <1>1 DEF ConfTyped, NetShape
  <2>2. NetShape(net) /\ net.keys \in Nat
    BY <1>1 DEF ConfTyped, NetShape
  <2> QED BY <1>1, <2>1, <2>2, Emptying
<1>3. /\ at'[s] = "off" /\ key'[s] = 0
      /\ \A d \in Clients \ {s} : at'[d] = at[d] /\ key'[d] = key[d] /\ room'[d] = room[d]
  BY <1>1 DEF ConfTyped
<1>4. /\ DOMAIN wreck' = DOMAIN wreck /\ wreck'.browsers = wreck.browsers
      /\ wreck'.ghosts = IF at[s] = "welcome" THEN wreck.ghosts \cup {key[s]} ELSE wreck.ghosts
      /\ wreck'.rooms = IF at[s] \in {"goodbye", "thrown"} THEN wreck.rooms \cup {room[s]} ELSE wreck.rooms
  BY <1>1 DEF ConfTyped
<1>5. ConfTyped'
  <2>1. key' \in [Clients -> 0 .. MaxEntries] /\ room' \in [Clients -> Rooms \cup {NoRoom}]
    BY <1>1, ConferenceAssumption DEF ConfTyped
  <2> QED BY <1>1, <1>2, <1>4, <2>1, ConferenceAssumption DEF ConfTyped, Places, Clients, NetShape
<1>6. /\ Found(net.hub, wreck'.ghosts, at', key', room') /\ Numbered(net.hub, wreck'.ghosts, net.keys, at', key')
      /\ Emptied(net.hub, wreck'.rooms, at', room')
  <2>1. /\ Found(net.hub, wreck.ghosts, at, key, room) /\ Numbered(net.hub, wreck.ghosts, net.keys, at, key)
        /\ Emptied(net.hub, wreck.rooms, at, room)
    BY <1>1 DEF HubTells
  <2>2. CASE at[s] = "welcome"
    <3>1. at[s] \in InRoom /\ at'[s] \notin InRoom
      BY <1>1, <1>3, <2>2 DEF InRoom
    <3>2. wreck'.ghosts = wreck.ghosts \cup {key[s]} /\ wreck'.rooms = wreck.rooms
      BY <1>4, <2>2
    <3>3. Found(net.hub, wreck'.ghosts, at', key', room') /\ Numbered(net.hub, wreck'.ghosts, net.keys, at', key')
      <4>1. s \in Clients /\ \A x : x \in wreck'.ghosts <=> x \in wreck.ghosts \/ x = key[s]
        BY <1>1, <3>2
      <4>2. \A d \in Clients \ {s} : at'[d] = at[d] /\ key'[d] = key[d] /\ room'[d] = room[d]
        BY <1>3
      <4> QED BY <2>1, <3>1, <4>1, <4>2, Haunts, Z3
    <3>4. Emptied(net.hub, wreck.rooms, at', room')
      BY <1>3, <2>1, <2>2 DEF Emptied, Clients
    <3> QED BY <3>2, <3>3, <3>4
  <2>3. CASE at[s] # "welcome"
    <3>1. wreck'.ghosts = wreck.ghosts
      BY <1>4, <2>3
    <3>2. Emptied(net.hub, wreck'.rooms, at, room)
      BY <1>4, <2>1 DEF Emptied
    <3>3. \A d \in Clients : /\ at[d] \in InRoom <=> at'[d] \in InRoom
                             /\ at[d] \in InRoom => key'[d] = key[d] /\ room'[d] = room[d]
      BY <1>3, <2>3 DEF InRoom
    <3>4. \A d \in Clients : at[d] \in {"goodbye", "thrown"} =>
                               room[d] \in wreck'.rooms \/ (at'[d] \in {"goodbye", "thrown"} /\ room'[d] = room[d])
      BY <1>3, <1>4
    <3> QED BY <2>1, <3>1, <3>2, <3>3, <3>4, Remains
  <2> QED BY <2>2, <2>3
<1>7. HubTells'
  BY <1>1, <1>2, <1>3, <1>6 DEF HubTells
<1>8. AllHear'
  <2>1. ASSUME NEW d \in Clients
        PROVE  /\ at'[d] \in InRoom => HearsIn(net', text'[d], d)
               /\ Held(at'[d], text'[d])
    <3>1. CASE d = s
      BY <1>1, <1>3, <3>1 DEF AllHear, Held
    <3>2. CASE d # s
      BY <1>1, <1>2, <1>3, <3>2, SameHears DEF AllHear, Held
    <3> QED BY <3>1, <3>2
  <2> QED BY <2>1 DEF AllHear, Held, HearsIn
<1>9. ListedAreOpen'
  BY <1>1, <1>4, ListedStays
<1> QED BY <1>5, <1>7, <1>8, <1>9 DEF ConfInv

\* A terminal's task goes on in the room.
LEMMA TaskStep ==
  ASSUME ConfInv, NEW s \in Terminals, at[s] \in {"wait", "reap", "text"}, NEW x \in {"wait", "reap", "text", "echo"},
         NEW t \in Seq(Texts), Held(x, t),
         at' = [at EXCEPT ![s] = x], text' = [text EXCEPT ![s] = t],
         NetShape(net'), net'.hub = net.hub, net'.keys = net.keys,
         \A d \in Clients \ {s} : SameFor(net, net', d), HearsIn(net', t, s),
         said' \in 0 .. MaxSaid, UNCHANGED <<room, key, lost, dead, listed, wreck>>
  PROVE  ConfInv'
<1>1. /\ s \in Clients /\ at \in [Clients -> Places] /\ text \in [Clients -> Seq(Texts)]
      /\ at[s] \in InRoom /\ x \in InRoom
      /\ ConfTyped /\ HubTells /\ AllHear /\ ListedAreOpen
  BY DEF ConfInv, ConfTyped, Clients, InRoom
<1>2. ConfTyped'
  <2>1. text' \in [Clients -> Seq(Texts)]
    BY <1>1
  <2> QED BY <1>1, <2>1, ConferenceAssumption DEF ConfTyped, Places, Clients, NetShape
<1>3. /\ at'[s] = x /\ text'[s] = t
      /\ \A d \in Clients \ {s} : at'[d] = at[d] /\ text'[d] = text[d]
  BY <1>1
<1>4. \A d \in Clients : /\ at'[d] \in InRoom <=> at[d] \in InRoom
                         /\ at'[d] \in {"goodbye", "thrown"} <=> at[d] \in {"goodbye", "thrown"}
  BY <1>1, <1>3 DEF InRoom
<1>5. HubTells'
  BY <1>1, <1>4, HubStays
<1>6. AllHear'
  <2>1. ASSUME NEW d \in Clients
        PROVE  /\ at'[d] \in InRoom => HearsIn(net', text'[d], d)
               /\ Held(at'[d], text'[d])
    <3>1. CASE d = s
      BY <1>3, <3>1
    <3>2. CASE d # s
      BY <1>1, <1>3, <3>2, SameHears DEF AllHear, Held
    <3> QED BY <3>1, <3>2
  <2> QED BY <2>1 DEF AllHear, Held, HearsIn
<1>7. ListedAreOpen'
  BY <1>1, ListedStays
<1> QED BY <1>2, <1>5, <1>6, <1>7 DEF ConfInv

LEMMA WakesStep ==
  ASSUME ConfInv, NEW s \in Terminals, Wakes(s)
  PROVE  ConfInv'
<1>1. /\ at[s] = "wait" /\ s \in Clients /\ text[s] = <<>> /\ HearsIn(net, <<>>, s)
      /\ ConfTyped /\ AllHear /\ said \in 0 .. MaxSaid /\ NetShape(net) /\ text \in [Clients -> Seq(Texts)]
      /\ UNCHANGED <<room, key, stopped, lost, dead, listed, said, wreck>>
  BY DEF Wakes, ConfInv, ConfTyped, Clients, InRoom, AllHear, Held
<1>2. PICK x \in {"reap", "text"}, got \in BOOLEAN :
        /\ at' = [at EXCEPT ![s] = x]
        /\ got => net.queue[s] # <<>>
        /\ x = "text" => got
        /\ IF got
           THEN /\ net' = [net EXCEPT !.queue[s] = Tail(@)]
                /\ text' = [text EXCEPT ![s] = <<Head(net.queue[s])>>]
           ELSE UNCHANGED <<net, text>>
  <2>1. PICK done \in {{"input"}, {"recv"}, {"input", "recv"}} :
          /\ "recv" \in done => net.queue[s] # <<>>
          /\ IF "recv" \in done
             THEN /\ net' = [net EXCEPT !.queue[s] = Tail(@)]
                  /\ text' = [text EXCEPT ![s] = <<Head(net.queue[s])>>]
             ELSE UNCHANGED <<net, text>>
          /\ at' = [at EXCEPT ![s] = IF done = {"input", "recv"} THEN "text" ELSE "reap"]
    BY DEF Wakes
  <2> DEFINE x == IF done = {"input", "recv"} THEN "text" ELSE "reap"
             got == "recv" \in done
  <2>2. x \in {"reap", "text"} /\ got \in BOOLEAN /\ (x = "text" => got)
    OBVIOUS
  <2> QED BY <2>1, <2>2
<1>3. CASE got
  <2> DEFINE t == <<Head(net.queue[s])>>
  <2>1. net.queue[s] \in Seq(Texts) /\ net.owed[s] \in Seq(Texts) /\ net.queue[s] # <<>>
    BY <1>1, <1>2, <1>3 DEF NetShape
  <2>2. Tail(net.queue[s]) \in Seq(Texts) /\ t \in Seq(Texts) /\ Len(t) = 1
    BY <2>1
  <2>3. /\ DOMAIN net' = DOMAIN net /\ net'.keys = net.keys /\ net'.hub = net.hub /\ net'.full = net.full
        /\ net'.queue = [net.queue EXCEPT ![s] = Tail(net.queue[s])]
        /\ net'.owed = [net.owed EXCEPT ![s] = net.owed[s]]
    BY <1>1, <1>2, <1>3 DEF NetShape
  <2>4. /\ NetShape(net') /\ net'.queue[s] = Tail(net.queue[s]) /\ net'.owed[s] = net.owed[s]
        /\ net'.full[s] = net.full[s] /\ \A d \in Clients \ {s} : SameFor(net, net', d)
    <3>1. net'.queue \in [Clients -> Seq(Texts)] /\ net'.owed \in [Clients -> Seq(Texts)]
      BY <1>1, <2>1, <2>2, <2>3 DEF NetShape
    <3>2. NetShape(net')
      BY <1>1, <2>3, <3>1 DEF NetShape
    <3> QED BY <1>1, <2>3, <3>2 DEF NetShape, SameFor
  <2>5. Hears(t, Tail(net.queue[s]), net.owed[s], net.full[s])
    BY <1>1, <2>1, HearsTaken DEF HearsIn
  <2> HIDE DEF t
  <2>6. HearsIn(net', t, s)
    BY <2>4, <2>5, Zenon DEF HearsIn
  <2>7. at' = [at EXCEPT ![s] = x] /\ text' = [text EXCEPT ![s] = t] /\ said' \in 0 .. MaxSaid
    BY <1>1, <1>2, <1>3 DEF t
  <2>8. Held(x, t) /\ x \in {"wait", "reap", "text", "echo"}
    BY <1>2, <2>2 DEF Held
  <2> QED BY <1>1, <2>2, <2>3, <2>4, <2>6, <2>7, <2>8, TaskStep
<1>4. CASE ~got
  <2>1. net' = net /\ text' = [text EXCEPT ![s] = <<>>] /\ x = "reap"
    BY <1>1, <1>2, <1>4
  <2>2. \A d \in Clients : SameFor(net, net', d)
    BY <2>1 DEF SameFor
  <2>3. NetShape(net') /\ net'.hub = net.hub /\ net'.keys = net.keys /\ HearsIn(net', <<>>, s)
    BY <1>1, <2>1
  <2>4. <<>> \in Seq(Texts) /\ Held(x, <<>>) /\ x \in {"wait", "reap", "text", "echo"} /\ said' \in 0 .. MaxSaid
    BY <1>1, <2>1 DEF Held
  <2> QED BY <1>1, <1>2, <2>1, <2>2, <2>3, <2>4, TaskStep
<1> QED BY <1>3, <1>4

\* Input is handled: the task goes on, or leaves the room.
LEMMA HandlesStep ==
  ASSUME ConfInv, NEW s \in Terminals, at[s] \in {"reap", "text"}, NEW n, NEW l, Handles(n, s, l),
         l = "say" => said < MaxSaid, NetShape(n), n.hub = net.hub, n.keys = net.keys,
         \A d \in Clients \ {s} : SameFor(net, n, d), HearsIn(n, <<>>, s),
         UNCHANGED <<room, key, stopped, lost, dead, listed, wreck>>
  PROVE  ConfInv'
<1>1. CASE l = "exit"
  BY <1>1, QuitsStep DEF Handles
<1>2. CASE l # "exit"
  <2>1. /\ net' = n /\ text' = [text EXCEPT ![s] = <<>>]
        /\ at' = [at EXCEPT ![s] = IF l = "say" THEN "echo" ELSE "wait"]
        /\ said' = IF l = "say" THEN said + 1 ELSE said
    BY <1>2 DEF Handles
  <2>2. said' \in 0 .. MaxSaid
    BY <2>1, ConferenceAssumption DEF ConfInv, ConfTyped
  <2>3. PICK x \in {"wait", "reap", "text", "echo"} : x # "text" /\ at' = [at EXCEPT ![s] = x]
    BY <2>1
  <2>4. <<>> \in Seq(Texts) /\ Held(x, <<>>)
    BY <2>3 DEF Held
  <2> QED BY <2>1, <2>2, <2>3, <2>4, TaskStep
<1> QED BY <1>1, <1>2

LEMMA ReapedStep ==
  ASSUME ConfInv, NEW s \in Terminals, Reaped(s)
  PROVE  ConfInv'
<1>1. /\ at[s] = "reap" /\ s \in Clients /\ text[s] \in Seq(Texts) /\ HearsIn(net, text[s], s)
      /\ Held("reap", text[s]) /\ text \in [Clients -> Seq(Texts)]
      /\ ConfTyped /\ said \in 0 .. MaxSaid /\ NetShape(net)
      /\ UNCHANGED <<room, key, stopped, lost, dead, listed, wreck>>
      /\ line[s] = "say" => said < MaxSaid
  BY DEF Reaped, ConfInv, ConfTyped, Clients, InRoom, AllHear
<1>2. \A d \in Clients : SameFor(net, net, d)
  BY DEF SameFor
<1>3. CASE text[s] = <<>>
  <2>1. Handles(net, s, line[s]) /\ HearsIn(net, <<>>, s)
    BY <1>1, <1>3 DEF Reaped
  <2> QED BY <1>1, <1>2, <2>1, HandlesStep
<1>4. CASE text[s] # <<>>
  <2>1. at' = [at EXCEPT ![s] = "text"] /\ net' = net /\ text' = text /\ said' = said
    BY <1>4 DEF Reaped
  <2>2. text' = [text EXCEPT ![s] = text[s]] /\ Held("text", text[s])
    BY <1>1, <1>4, <2>1 DEF Held
  <2>3. \A d \in Clients \ {s} : SameFor(net, net', d)
    BY <1>2, <2>1
  <2> QED BY <1>1, <2>1, <2>2, <2>3, TaskStep
<1> QED BY <1>3, <1>4

LEMMA TextSentStep ==
  ASSUME ConfInv, NEW s \in Terminals, TextSent(s)
  PROVE  ConfInv'
<1> DEFINE m == text[s][1]
           n == Heard(net, s, m)
<1>1. /\ at[s] = "text" /\ s \in Clients /\ text[s] \in Seq(Texts) /\ Len(text[s]) = 1
      /\ HearsIn(net, text[s], s)
      /\ ConfTyped /\ AllHear /\ said \in 0 .. MaxSaid /\ NetShape(net)
      /\ UNCHANGED <<room, key, stopped, lost, dead, listed, wreck>>
      /\ line[s] = "say" => said < MaxSaid
      /\ Handles(n, s, line[s])
  BY DEF TextSent, ConfInv, ConfTyped, Clients, InRoom, AllHear, Held
<1>2. m \in Texts /\ text[s] = <<m>> /\ net.queue[s] \in Seq(Texts) /\ net.owed[s] \in Seq(Texts)
  BY <1>1 DEF NetShape
<1>3. After(net.owed[s], m) \in Seq(Texts) /\ Hears(<<>>, net.queue[s], After(net.owed[s], m), net.full[s])
  <2>1. Hears(<<m>>, net.queue[s], net.owed[s], net.full[s])
    BY <1>1, <1>2 DEF HearsIn
  <2> HIDE DEF m
  <2> QED BY <1>2, <2>1, HearsSent
<1>4. /\ DOMAIN n = DOMAIN net /\ n.keys = net.keys /\ n.hub = net.hub /\ n.full = net.full
      /\ n.queue = [net.queue EXCEPT ![s] = net.queue[s]]
      /\ n.owed = [net.owed EXCEPT ![s] = After(net.owed[s], m)]
  BY <1>1 DEF Heard, NetShape
<1> HIDE DEF n
<1>5. /\ NetShape(n) /\ n.queue[s] = net.queue[s] /\ n.owed[s] = After(net.owed[s], m)
      /\ n.full[s] = net.full[s] /\ \A d \in Clients \ {s} : SameFor(net, n, d)
  <2>1. n.queue \in [Clients -> Seq(Texts)] /\ n.owed \in [Clients -> Seq(Texts)]
    BY <1>1, <1>2, <1>3, <1>4 DEF NetShape
  <2>2. NetShape(n)
    BY <1>1, <1>4, <2>1 DEF NetShape
  <2> QED BY <1>1, <1>4, <2>2 DEF NetShape, SameFor
<1>6. HearsIn(n, <<>>, s)
  BY <1>3, <1>5, Zenon DEF HearsIn
<1> QED BY <1>1, <1>4, <1>5, <1>6, HandlesStep

LEMMA EnterRoomStep ==
  ASSUME ConfInv, NEW s \in Terminals, NEW r \in Rooms, EnterRoom(s, r)
  PROVE  ConfInv'
<1>1. /\ at' = [at EXCEPT ![s] = "welcome"] /\ at[s] = "prompt" /\ s \in Clients /\ at \in [Clients -> Places]
      /\ key' = [key EXCEPT ![s] = net.keys + 1] /\ room' = [room EXCEPT ![s] = r] /\ net.keys < MaxEntries
      /\ UNCHANGED <<text, line, stopped, lost, dead, listed, said, wreck>>
      /\ net' = Joined(net, s, r) /\ NetShape(net) /\ net.keys \in Nat
      /\ "prompt" \notin InRoom \cup {"goodbye", "thrown"} /\ "welcome" \in InRoom
      /\ ConfTyped /\ HubTells /\ AllHear /\ ListedAreOpen
  BY DEF EnterRoom, ConfInv, ConfTyped, Clients, InRoom, NetShape
<1>2. /\ NetShape(net') /\ Fresh(net', s) /\ \A d \in Clients \ {s} : SameFor(net, net', d)
      /\ net'.hub = Entered(net.hub, r, net.keys + 1) /\ net'.keys = net.keys + 1
  BY <1>1, JoinedNet
<1>3. /\ at'[s] = "welcome" /\ key'[s] = net.keys + 1 /\ room'[s] = r
      /\ \A d \in Clients \ {s} : at'[d] = at[d] /\ key'[d] = key[d] /\ room'[d] = room[d]
  BY <1>1 DEF ConfTyped
<1>4. ConfTyped'
  <2>1. key' \in [Clients -> 0 .. MaxEntries] /\ room' \in [Clients -> Rooms \cup {NoRoom}]
        /\ net'.keys <= MaxEntries
    BY <1>1, <1>2, ConferenceAssumption DEF ConfTyped
  <2> QED BY <1>1, <1>2, <2>1, ConferenceAssumption DEF ConfTyped, Places, Clients
<1>5. /\ Found(net'.hub, wreck.ghosts, at', key', room') /\ Numbered(net'.hub, wreck.ghosts, net'.keys, at', key')
      /\ Emptied(net'.hub, wreck.rooms, at', room')
  <2>1. /\ Found(net.hub, wreck.ghosts, at, key, room) /\ Numbered(net.hub, wreck.ghosts, net.keys, at, key)
        /\ Emptied(net.hub, wreck.rooms, at, room)
    BY <1>1 DEF HubTells
  <2>2. /\ Found(Entered(net.hub, r, net.keys + 1), wreck.ghosts, at', key', room')
        /\ Numbered(Entered(net.hub, r, net.keys + 1), wreck.ghosts, net.keys + 1, at', key')
        /\ Emptied(Entered(net.hub, r, net.keys + 1), wreck.rooms, at', room')
    <3> DEFINE x == net.keys + 1
    <3>1. x = net.keys + 1 /\ key'[s] = x
      BY <1>3
    <3> HIDE DEF x
    <3>2. /\ Found(Entered(net.hub, r, x), wreck.ghosts, at', key', room')
          /\ Numbered(Entered(net.hub, r, x), wreck.ghosts, x, at', key')
          /\ Emptied(Entered(net.hub, r, x), wreck.rooms, at', room')
      <4>1. /\ s \in Clients /\ at[s] \notin InRoom \cup {"goodbye", "thrown"} /\ at'[s] \in InRoom
            /\ key'[s] = x /\ room'[s] = r /\ x = net.keys + 1
        BY <1>1, <1>3, <3>1
      <4>2. OnlyFor(s, at, key, room, at', key', room')
        BY <1>3 DEF OnlyFor
      <4> QED BY <2>1, <4>1, <4>2, Enters
    <3> QED BY <3>2 DEF x
  <2> QED BY <1>2, <2>2, Zenon
<1>6. HubTells'
  BY <1>1, <1>3, <1>5 DEF HubTells
<1>7. AllHear'
  <2>1. ASSUME NEW d \in Clients
        PROVE  /\ at'[d] \in InRoom => HearsIn(net', text'[d], d)
               /\ Held(at'[d], text'[d])
    <3>1. CASE d = s
      <4>1. text'[d] = <<>> /\ at'[d] # "text"
        BY <1>1, <1>3, <3>1 DEF AllHear, Held
      <4>2. HearsIn(net', <<>>, s)
        BY <1>2 DEF Fresh, HearsIn, Hears
      <4> QED BY <3>1, <4>1, <4>2 DEF Held
    <3>2. CASE d # s
      BY <1>1, <1>2, <1>3, <3>2, SameHears DEF AllHear, Held
    <3> QED BY <3>1, <3>2
  <2> QED BY <2>1 DEF AllHear, Held, HearsIn
<1>8. ListedAreOpen'
  BY <1>1, ListedStays
<1> QED BY <1>4, <1>6, <1>7, <1>8 DEF ConfInv

LEMMA LeftStep ==
  ASSUME ConfInv, NEW s \in Terminals, Left(s)
  PROVE  ConfInv'
<1>1. /\ at' = [at EXCEPT ![s] = "prompt"] /\ at[s] = "goodbye" /\ s \in Clients /\ at \in [Clients -> Places]
      /\ key' = [key EXCEPT ![s] = 0] /\ room' = [room EXCEPT ![s] = NoRoom]
      /\ UNCHANGED <<text, line, stopped, lost, dead, listed, said, wreck>>
      /\ net' = Swept(net, room[s]) /\ NetShape(net)
      /\ "prompt" \notin InRoom \cup {"goodbye", "thrown"} /\ "goodbye" \notin InRoom
      /\ ConfTyped /\ HubTells /\ AllHear /\ ListedAreOpen
  BY DEF Left, Forgets, ConfInv, ConfTyped, Clients, InRoom
<1>2. /\ NetShape(net') /\ \A d \in Clients : SameFor(net, net', d)
      /\ net'.hub = Cleared(net.hub, room[s]) /\ net'.keys = net.keys
  BY <1>1, SweptNet
<1>3. /\ at'[s] = "prompt" /\ key'[s] = 0
      /\ \A d \in Clients \ {s} : at'[d] = at[d] /\ key'[d] = key[d] /\ room'[d] = room[d]
  BY <1>1 DEF ConfTyped
<1>4. ConfTyped'
  <2>1. key' \in [Clients -> 0 .. MaxEntries] /\ room' \in [Clients -> Rooms \cup {NoRoom}]
    BY <1>1, ConferenceAssumption DEF ConfTyped
  <2> QED BY <1>1, <1>2, <2>1, ConferenceAssumption DEF ConfTyped, Places, Clients
<1>5. /\ Found(net'.hub, wreck.ghosts, at', key', room') /\ Numbered(net'.hub, wreck.ghosts, net'.keys, at', key')
      /\ Emptied(net'.hub, wreck.rooms, at', room')
  <2>1. Found(net.hub, wreck.ghosts, at', key', room')
    <3>1. \A d \in Clients : /\ at'[d] \in InRoom <=> at[d] \in InRoom
                             /\ at[d] \in InRoom => key'[d] = key[d] /\ room'[d] = room[d]
      BY <1>1, <1>3
    <3> QED BY <1>1, <3>1 DEF HubTells, Found
  <2>2. Numbered(net.hub, wreck.ghosts, net.keys, at', key')
    BY <1>1, <1>3 DEF HubTells, Numbered
  <2>3. EmptiedBut(net.hub, wreck.rooms, at', room', room[s])
    BY <1>1, <1>3 DEF HubTells, Emptied, EmptiedBut, Clients
  <2>4. /\ Found(Cleared(net.hub, room[s]), wreck.ghosts, at', key', room')
        /\ Numbered(Cleared(net.hub, room[s]), wreck.ghosts, net.keys, at', key')
        /\ Emptied(Cleared(net.hub, room[s]), wreck.rooms, at', room')
    BY <2>1, <2>2, <2>3, Clears
  <2> QED BY <1>2, <2>4, Zenon
<1>6. HubTells'
  BY <1>1, <1>3, <1>5 DEF HubTells
<1>7. AllHear'
  <2>1. ASSUME NEW d \in Clients
        PROVE  /\ at'[d] \in InRoom => HearsIn(net', text'[d], d)
               /\ Held(at'[d], text'[d])
    <3>1. CASE d = s
      BY <1>1, <1>3, <3>1 DEF AllHear, Held
    <3>2. CASE d # s
      BY <1>1, <1>2, <1>3, <3>2, SameHears DEF AllHear, Held
    <3> QED BY <3>1, <3>2
  <2> QED BY <2>1 DEF AllHear, Held, HearsIn
<1>8. ListedAreOpen'
  BY <1>1, ListedStays
<1> QED BY <1>4, <1>6, <1>7, <1>8 DEF ConfInv

LEMMA BreaksStep ==
  ASSUME ConfInv, NEW s \in Terminals, Thrown(s) \/ Breaks(s) \/ Cancel(s)
  PROVE  ConfInv'
<1>1. CASE at[s] \in {"prompt", "welcome", "goodbye", "thrown"}
  BY <1>1, EndsSession DEF Thrown, Breaks, Cancel
<1>2. CASE at[s] \in {"wait", "text", "echo"}
  BY <1>2, QuitsStep DEF Thrown, Breaks, Cancel
<1>3. CASE at[s] = "reap"
  <2>1. /\ UNCHANGED <<net, at, room, key, text, line, lost, dead, listed, said>>
        /\ wreck' = [wreck EXCEPT !.deaf = @ \cup {s}]
    BY <1>3 DEF Thrown, Breaks, Cancel
  <2>2. /\ DOMAIN wreck' = DOMAIN wreck /\ wreck'.ghosts = wreck.ghosts
        /\ wreck'.rooms = wreck.rooms /\ wreck'.browsers = wreck.browsers
    BY <2>1 DEF ConfInv, ConfTyped
  <2>3. ConfTyped' /\ HubTells'
    BY <2>1, <2>2 DEF ConfInv, ConfTyped, HubTells
  <2>4. AllHear' /\ ListedAreOpen'
    BY <2>1, <2>2 DEF ConfInv, AllHear, HearsIn, ListedAreOpen
  <2> QED BY <2>3, <2>4 DEF ConfInv
<1>4. at[s] \in {"prompt", "welcome", "goodbye", "thrown", "wait", "reap", "text", "echo"}
  BY DEF Thrown, Breaks, Cancel, ConfInv, ConfTyped, Places, Clients
<1> QED BY <1>1, <1>2, <1>3, <1>4

-----------------------------------------------------------------------------
LEMMA OpenStep ==
  ASSUME ConfInv, NEW b \in Browsers, Open(b)
  PROVE  ConfInv'
<1>1. /\ at' = [at EXCEPT ![b] = "open"] /\ at[b] = "off" /\ b \in Clients /\ at \in [Clients -> Places]
      /\ UNCHANGED <<net, room, key, text, line, stopped, lost, dead, said, wreck>>
      /\ listed' = listed \cup {b}
      /\ ConfTyped /\ HubTells /\ AllHear /\ ListedAreOpen
  BY DEF Open, ConfInv, ConfTyped, Clients
<1>2. ConfTyped'
  BY <1>1, ConferenceAssumption DEF ConfTyped, Places, Clients
<1>3. HubTells'
  <2>1. \A d \in Clients : /\ at'[d] \in InRoom <=> at[d] \in InRoom
                           /\ at'[d] \in {"goodbye", "thrown"} <=> at[d] \in {"goodbye", "thrown"}
    BY <1>1 DEF InRoom
  <2> QED BY <1>1, <2>1, HubStays
<1>4. AllHear'
  BY <1>1 DEF AllHear, Held, HearsIn, InRoom
<1>5. ListedAreOpen'
  BY <1>1 DEF ListedAreOpen, ConfTyped, Clients
<1> QED BY <1>2, <1>3, <1>4, <1>5 DEF ConfInv

LEMMA SayStep ==
  ASSUME ConfInv, NEW b \in Browsers, Say(b)
  PROVE  ConfInv'
<1>1. /\ at[b] = "room" /\ b \in Clients /\ at[b] \in InRoom
      /\ UNCHANGED <<at, room, key, text, line, stopped, lost, dead, listed, wreck>>
      /\ said < MaxSaid /\ said \in 0 .. MaxSaid /\ said' = said + 1
      /\ ConfTyped /\ HubTells /\ AllHear /\ ListedAreOpen
  BY DEF Say, ConfInv, ConfTyped, Clients, InRoom
<1>2. said' \in 0 .. MaxSaid /\ said + 1 \in 0 .. MaxSaid
  BY <1>1, ConferenceAssumption
<1>3. PICK m \in Texts : net' = Tell(net, room[b], m, {})
  BY <1>1, <1>2, Tellable DEF Say
<1>4. /\ NetShape(net') /\ net'.hub = net.hub /\ net'.keys = net.keys
      /\ \A d \in Clients : at[d] \in InRoom => HearsIn(net', text[d], d)
  BY <1>1, <1>3, TellsRoom
<1>5. ConfTyped'
  BY <1>1, <1>2, <1>4 DEF ConfTyped
<1>6. HubTells'
  BY <1>1, <1>4 DEF HubTells
<1>7. AllHear'
  BY <1>1, <1>4 DEF AllHear, Held, HearsIn
<1>8. ListedAreOpen'
  BY <1>1 DEF ListedAreOpen
<1> QED BY <1>5, <1>6, <1>7, <1>8 DEF ConfInv

LEMMA DrainStep ==
  ASSUME ConfInv, NEW b \in Browsers, Drain(b)
  PROVE  ConfInv'
<1> DEFINE m == Head(net.queue[b])
<1>1. /\ at[b] = "room" /\ b \in Clients /\ at[b] \in InRoom
      /\ UNCHANGED <<at, room, key, text, line, stopped, lost, listed, said, wreck>>
      /\ net' = [Heard(net, b, m) EXCEPT !.queue[b] = Tail(@)] /\ net.queue[b] # <<>>
      /\ ConfTyped /\ HubTells /\ AllHear /\ ListedAreOpen /\ NetShape(net)
  BY DEF Drain, ConfInv, ConfTyped, Clients, InRoom
<1>2. /\ net.queue[b] \in Seq(Texts) /\ net.owed[b] \in Seq(Texts) /\ m \in Texts
      /\ Tail(net.queue[b]) \in Seq(Texts)
  BY <1>1 DEF NetShape
<1>3. text[b] = <<>> /\ Hears(<<>>, net.queue[b], net.owed[b], net.full[b])
  BY <1>1 DEF AllHear, Held, HearsIn
<1>4. /\ After(net.owed[b], m) \in Seq(Texts)
      /\ Hears(<<>>, Tail(net.queue[b]), After(net.owed[b], m), net.full[b])
  <2>1. Hears(<<m>>, Tail(net.queue[b]), net.owed[b], net.full[b])
    BY <1>1, <1>2, <1>3, HearsTaken
  <2> HIDE DEF m
  <2> QED BY <1>2, <2>1, HearsSent
<1> HIDE DEF m
<1>5. /\ DOMAIN net' = DOMAIN net /\ net'.keys = net.keys /\ net'.hub = net.hub /\ net'.full = net.full
      /\ net'.queue = [net.queue EXCEPT ![b] = Tail(net.queue[b])]
      /\ net'.owed = [net.owed EXCEPT ![b] = After(net.owed[b], m)]
  BY <1>1 DEF Heard, NetShape
<1>6. /\ NetShape(net') /\ net'.queue[b] = Tail(net.queue[b]) /\ net'.owed[b] = After(net.owed[b], m)
      /\ net'.full[b] = net.full[b] /\ \A d \in Clients \ {b} : SameFor(net, net', d)
  <2>1. net'.queue \in [Clients -> Seq(Texts)] /\ net'.owed \in [Clients -> Seq(Texts)]
    <3>1. \A F \in [Clients -> Seq(Texts)] : \A v \in Seq(Texts) : [F EXCEPT ![b] = v] \in [Clients -> Seq(Texts)]
      BY <1>1
    <3>2. net.queue \in [Clients -> Seq(Texts)] /\ net.owed \in [Clients -> Seq(Texts)]
      BY <1>1 DEF NetShape
    <3> QED BY <1>2, <1>4, <1>5, <3>1, <3>2, ZenonT(60)
  <2>2. NetShape(net')
    BY <1>1, <1>5, <2>1 DEF NetShape
  <2> QED BY <1>1, <1>5, <2>2 DEF NetShape, SameFor
<1>7. ConfTyped'
  BY <1>1, <1>5, <1>6 DEF ConfTyped
<1>8. HubTells'
  BY <1>1, <1>5 DEF HubTells
<1>9. AllHear'
  <2>1. HearsIn(net', text[b], b)
    BY <1>3, <1>4, <1>6, Zenon DEF HearsIn
  <2>2. ASSUME NEW d \in Clients, at[d] \in InRoom PROVE HearsIn(net', text[d], d)
    <3>1. CASE d = b
      BY <2>1, <3>1
    <3>2. CASE d # b
      BY <1>1, <1>6, <2>2, <3>2, SameHears DEF AllHear, Held
    <3> QED BY <3>1, <3>2
  <2> QED BY <1>1, <2>2 DEF AllHear, Held, HearsIn
<1>10. ListedAreOpen'
  BY <1>1 DEF ListedAreOpen
<1> QED BY <1>7, <1>8, <1>9, <1>10 DEF ConfInv

\* A browser is out of its room: left, or gone.
LEMMA OutStep ==
  ASSUME ConfTyped, HubTells, AllHear, NEW b \in Browsers, at[b] \in {"open", "room"}, NEW x \in {"open", "off"},
         net' = Out(net, b), at' = [at EXCEPT ![b] = x], Forgets(b), UNCHANGED <<text, said>>,
         DOMAIN wreck' = DOMAIN wreck, wreck'.ghosts = wreck.ghosts, wreck'.rooms = wreck.rooms,
         listed' \subseteq Browsers
  PROVE  ConfTyped' /\ HubTells' /\ AllHear'
<1> DEFINE A == [at EXCEPT ![b] = "open"]
<1>1. /\ b \in Clients /\ at \in [Clients -> Places] /\ {"open", "off"} \cap (InRoom \cup {"goodbye", "thrown"}) = {}
      /\ key' = [key EXCEPT ![b] = 0] /\ room' = [room EXCEPT ![b] = NoRoom]
  BY DEF ConfTyped, Clients, InRoom, Forgets
<1>2. /\ NetShape(net') /\ net'.keys = net.keys
      /\ Found(net'.hub, wreck.ghosts, A, key, room) /\ Numbered(net'.hub, wreck.ghosts, net'.keys, A, key)
      /\ Emptied(net'.hub, wreck.rooms, A, room)
      /\ \A d \in Clients \ {b} : at[d] \in InRoom => HearsIn(net', text[d], d)
  BY OutNet
<1>3. /\ at'[b] = x /\ key'[b] = 0 /\ A[b] = "open"
      /\ \A d \in Clients \ {b} : at'[d] = at[d] /\ A[d] = at[d] /\ key'[d] = key[d] /\ room'[d] = room[d]
  BY <1>1 DEF ConfTyped
<1> HIDE DEF A
<1>4. ConfTyped'
  <2>1. key' \in [Clients -> 0 .. MaxEntries] /\ room' \in [Clients -> Rooms \cup {NoRoom}]
    BY <1>1, ConferenceAssumption DEF ConfTyped
  <2> QED BY <1>1, <1>2, <2>1, ConferenceAssumption DEF ConfTyped, Places, Clients
<1>5. /\ Found(net'.hub, wreck.ghosts, at', key', room') /\ Numbered(net'.hub, wreck.ghosts, net'.keys, at', key')
      /\ Emptied(net'.hub, wreck.rooms, at', room')
  <2>1. \A d \in Clients : /\ A[d] \in InRoom <=> at'[d] \in InRoom
                           /\ A[d] \in InRoom => key'[d] = key[d] /\ room'[d] = room[d]
                           /\ A[d] \in {"goodbye", "thrown"} => at'[d] \in {"goodbye", "thrown"} /\ room'[d] = room[d]
    BY <1>1, <1>3
  <2>2. Found(net'.hub, wreck.ghosts, at', key', room')
    BY <1>2, <2>1 DEF Found
  <2>3. Numbered(net'.hub, wreck.ghosts, net'.keys, at', key')
    BY <1>2, <2>1 DEF Numbered
  <2>4. Emptied(net'.hub, wreck.rooms, at', room')
    BY <1>2, <2>1 DEF Emptied, Clients
  <2> QED BY <2>2, <2>3, <2>4
<1>6. HubTells'
  BY <1>1, <1>3, <1>5 DEF HubTells
<1>7. AllHear'
  <2>1. ASSUME NEW d \in Clients
        PROVE  /\ at'[d] \in InRoom => HearsIn(net', text'[d], d)
               /\ Held(at'[d], text'[d])
    <3>1. CASE d = b
      BY <1>1, <1>3, <3>1 DEF AllHear, Held
    <3>2. CASE d # b
      BY <1>1, <1>2, <1>3, <3>2 DEF AllHear, Held
    <3> QED BY <3>1, <3>2
  <2> QED BY <2>1 DEF AllHear, Held, HearsIn
<1> QED BY <1>4, <1>6, <1>7

LEMMA LeaveStep ==
  ASSUME ConfInv, NEW b \in Browsers, LeaveConf(b) \/ CloseWs(b)
  PROVE  ConfInv'
<1>1. /\ at[b] \in {"open", "room"} /\ b \in Clients /\ at \in [Clients -> Places]
      /\ net' = Out(net, b) /\ Forgets(b) /\ UNCHANGED <<text, said>>
      /\ ConfTyped /\ HubTells /\ AllHear /\ ListedAreOpen
      /\ listed \subseteq Browsers
  BY DEF LeaveConf, CloseWs, ConfInv, ConfTyped, Clients
<1>2. CASE LeaveConf(b)
  <2>1. at' = [at EXCEPT ![b] = "open"] /\ UNCHANGED <<lost, listed, wreck>>
    BY <1>2 DEF LeaveConf
  <2>2. ConfTyped' /\ HubTells' /\ AllHear'
    BY <1>1, <2>1, OutStep
  <2>3. ListedAreOpen'
    BY <1>1, <2>1 DEF ListedAreOpen, Clients
  <2> QED BY <2>2, <2>3 DEF ConfInv
<1>3. CASE CloseWs(b)
  <2>1. /\ at' = [at EXCEPT ![b] = "off"] /\ lost' = lost \ {b}
        /\ IF b \in dead
           THEN listed' = listed /\ wreck' = [wreck EXCEPT !.browsers = @ \cup ({b} \cap listed)]
           ELSE listed' = listed \ {b} /\ wreck' = wreck
    BY <1>3 DEF CloseWs
  <2>2. /\ DOMAIN wreck' = DOMAIN wreck /\ wreck'.ghosts = wreck.ghosts /\ wreck'.rooms = wreck.rooms
        /\ IF b \in dead THEN listed' = listed /\ wreck'.browsers = wreck.browsers \cup ({b} \cap listed)
                         ELSE listed' = listed \ {b} /\ wreck'.browsers = wreck.browsers
    BY <1>1, <2>1 DEF ConfTyped
  <2>3. ConfTyped' /\ HubTells' /\ AllHear'
    BY <1>1, <2>1, <2>2, OutStep
  <2>4. ListedAreOpen'
    <3>1. at'[b] = "off" /\ \A d \in Browsers \ {b} : at'[d] = at[d]
      BY <1>1, <2>1 DEF Clients
    <3> QED BY <1>1, <2>1, <2>2, <3>1 DEF ListedAreOpen
  <2> QED BY <2>3, <2>4 DEF ConfInv
<1> QED BY <1>2, <1>3

LEMMA JoinStep ==
  ASSUME ConfInv, NEW b \in Browsers, NEW r \in Rooms, Join(b, r)
  PROVE  ConfInv'
<1> DEFINE A == [at EXCEPT ![b] = "open"]
           o == Out(net, b)
           j == Joined(o, b, r)
           m == [kind |-> "joined", of |-> j.keys, nth |-> 0]
           t == Tell(j, r, m, {b})
<1>1. /\ at' = [at EXCEPT ![b] = "room"] /\ at[b] \in {"open", "room"} /\ b \in Clients
      /\ at \in [Clients -> Places]
      /\ key' = [key EXCEPT ![b] = net.keys + 1] /\ room' = [room EXCEPT ![b] = r] /\ net.keys < MaxEntries
      /\ UNCHANGED <<text, line, stopped, lost, dead, listed, said, wreck>>
      /\ net.keys \in Nat /\ "open" \notin InRoom \cup {"goodbye", "thrown"} /\ "room" \in InRoom
      /\ ConfTyped /\ HubTells /\ AllHear /\ ListedAreOpen
  BY DEF Join, ConfInv, ConfTyped, Clients, InRoom, NetShape
<1>2. net' = [t EXCEPT !.owed[b] = <<>>, !.queue[b] = <<>>]
  BY DEF Join
<1>3. /\ NetShape(o) /\ o.keys = net.keys
      /\ Found(o.hub, wreck.ghosts, A, key, room) /\ Numbered(o.hub, wreck.ghosts, o.keys, A, key)
      /\ Emptied(o.hub, wreck.rooms, A, room)
      /\ \A d \in Clients \ {b} : at[d] \in InRoom => HearsIn(o, text[d], d)
  BY <1>1, OutNet
<1>4. /\ at'[b] = "room" /\ key'[b] = net.keys + 1 /\ room'[b] = r /\ A[b] = "open"
      /\ \A d \in Clients \ {b} : at'[d] = at[d] /\ A[d] = at[d] /\ key'[d] = key[d] /\ room'[d] = room[d]
  BY <1>1 DEF ConfTyped
<1> HIDE DEF A, o
<1>5. /\ NetShape(j) /\ Fresh(j, b) /\ \A d \in Clients \ {b} : SameFor(o, j, d)
      /\ j.hub = Entered(o.hub, r, o.keys + 1) /\ j.keys = net.keys + 1
  BY <1>1, <1>3, JoinedNet
<1> HIDE DEF j
<1>6. m \in Texts
  <2>1. j.keys \in Keys /\ 0 \in 0 .. MaxSaid
    BY <1>1, <1>5, ConferenceAssumption DEF Keys
  <2> QED BY <2>1 DEF Texts
<1> HIDE DEF m
<1>7. /\ Found(j.hub, wreck.ghosts, at', key', room') /\ Numbered(j.hub, wreck.ghosts, j.keys, at', key')
      /\ Emptied(j.hub, wreck.rooms, at', room')
  <2> DEFINE x == o.keys + 1
  <2>1. x = o.keys + 1 /\ key'[b] = x /\ j.keys = x /\ j.hub = Entered(o.hub, r, x)
    BY <1>3, <1>4, <1>5
  <2> HIDE DEF x
  <2>2. /\ b \in Clients /\ A[b] \notin InRoom \cup {"goodbye", "thrown"} /\ at'[b] \in InRoom /\ room'[b] = r
    BY <1>1, <1>4
  <2>3. OnlyFor(b, A, key, room, at', key', room')
    BY <1>4 DEF OnlyFor
  <2>4. /\ Found(Entered(o.hub, r, x), wreck.ghosts, at', key', room')
        /\ Numbered(Entered(o.hub, r, x), wreck.ghosts, x, at', key')
        /\ Emptied(Entered(o.hub, r, x), wreck.rooms, at', room')
    BY <1>3, <2>1, <2>2, <2>3, Enters
  <2> QED BY <2>1, <2>4, Zenon
<1>8. /\ NetShape(t) /\ t.hub = j.hub /\ t.keys = j.keys
      /\ t.full[b] = (j.full[b] \/ (Member(j, r, b, {b}) /\ ~Fits(j, b)))
  BY <1>1, <1>5, <1>6, TellNet
<1>9. t.full[b] = FALSE
  <2>1. ~Member(j, r, b, {b})
    BY DEF Member
  <2> QED BY <1>5, <1>8, <2>1 DEF Fresh
<1>10. ASSUME NEW d \in Clients \ {b}, at[d] \in InRoom PROVE HearsIn(t, text[d], d)
  <2>1. HearsIn(j, text[d], d)
    BY <1>3, <1>5, <1>10, SameHears
  <2>2. key[b] # key[d]
    <3>1. CASE at[b] = "room"
      BY <1>1, <1>10, <3>1 DEF HubTells, Found
    <3>2. CASE at[b] = "open"
      BY <1>1, <1>10, <3>2 DEF HubTells, Numbered
    <3> QED BY <1>1, <3>1, <3>2
  <2>3. (r \in DOMAIN j.hub /\ key[d] \in j.hub[r]) <=> room[d] = r
    <3>1. at'[d] \in InRoom /\ key'[d] = key[d] /\ room'[d] = room[d]
      BY <1>4, <1>10
    <3>2. (r \in DOMAIN j.hub /\ key'[d] \in j.hub[r]) <=> room'[d] = r
      BY <1>7, <3>1, Knows
    <3> QED BY <3>1, <3>2
  <2>4. text[d] \in Seq(Texts) /\ Inside(d)
    BY <1>1, <1>10, InsideIs DEF ConfTyped
  <2> QED BY <1>5, <1>6, <2>1, <2>2, <2>3, <2>4, TellHears
<1> HIDE DEF t
<1>11. /\ DOMAIN net' = DOMAIN t /\ net'.keys = t.keys /\ net'.hub = t.hub /\ net'.full = t.full
       /\ net'.queue = [t.queue EXCEPT ![b] = <<>>] /\ net'.owed = [t.owed EXCEPT ![b] = <<>>]
  BY <1>2, <1>8 DEF NetShape
<1>12. /\ NetShape(net') /\ Fresh(net', b) /\ \A d \in Clients \ {b} : SameFor(t, net', d)
  <2>1. <<>> \in Seq(Texts)
    OBVIOUS
  <2>2. NetShape(net')
    BY <1>8, <1>11, <2>1 DEF NetShape
  <2> QED BY <1>1, <1>8, <1>9, <1>11, <2>2 DEF NetShape, Fresh, SameFor
<1>13. ConfTyped'
  <2>1. key' \in [Clients -> 0 .. MaxEntries] /\ room' \in [Clients -> Rooms \cup {NoRoom}]
        /\ net'.keys <= MaxEntries
    BY <1>1, <1>5, <1>8, <1>11, ConferenceAssumption DEF ConfTyped
  <2> QED BY <1>1, <1>12, <2>1, ConferenceAssumption DEF ConfTyped, Places, Clients
<1>14. HubTells'
  <2>1. /\ Found(net'.hub, wreck.ghosts, at', key', room') /\ Numbered(net'.hub, wreck.ghosts, net'.keys, at', key')
        /\ Emptied(net'.hub, wreck.rooms, at', room')
    BY <1>7, <1>8, <1>11, Zenon
  <2> QED BY <1>1, <1>4, <2>1 DEF HubTells
<1>15. AllHear'
  <2>1. ASSUME NEW d \in Clients
        PROVE  /\ at'[d] \in InRoom => HearsIn(net', text'[d], d)
               /\ Held(at'[d], text'[d])
    <3>1. CASE d = b
      <4>1. text'[d] = <<>> /\ at'[d] # "text"
        BY <1>1, <1>4, <3>1 DEF AllHear, Held
      <4>2. HearsIn(net', <<>>, b)
        BY <1>12 DEF Fresh, HearsIn, Hears
      <4> QED BY <3>1, <4>1, <4>2 DEF Held
    <3>2. CASE d # b
      BY <1>1, <1>4, <1>10, <1>12, <3>2, SameHears DEF AllHear, Held
    <3> QED BY <3>1, <3>2
  <2> QED BY <2>1 DEF AllHear, Held, HearsIn
<1>16. ListedAreOpen'
  BY <1>1 DEF ListedAreOpen, Clients
<1> QED BY <1>13, <1>14, <1>15, <1>16 DEF ConfInv

\* A connection is lost, or dropped from the list.
LEMMA LoseStep ==
  ASSUME ConfInv, WebBroadcast \/ \E c \in Clients : Lose(c)
  PROVE  ConfInv'
<1>1. /\ UNCHANGED <<net, at, room, key, text, said, wreck>> /\ listed' \subseteq listed /\ lost \subseteq lost'
      /\ \A b \in listed : b \notin lost => b \in listed'
      /\ ConfTyped /\ HubTells /\ AllHear /\ ListedAreOpen
  BY DEF WebBroadcast, Lose, ConfInv
<1>2. ConfTyped'
  BY <1>1 DEF ConfTyped
<1>3. HubTells'
  BY <1>1 DEF HubTells
<1>4. AllHear'
  BY <1>1 DEF AllHear, Held, HearsIn
<1>5. ListedAreOpen'
  BY <1>1 DEF ListedAreOpen
<1> QED BY <1>2, <1>3, <1>4, <1>5 DEF ConfInv
-----------------------------------------------------------------------------
LEMMA ConfInitial == Init => ConfInv
<1> SUFFICES ASSUME Init PROVE ConfInv
  OBVIOUS
<1>1. /\ net = NoNet /\ wreck = [ghosts |-> {}, rooms |-> {}, browsers |-> {}, deaf |-> {}] /\ listed = {} /\ said = 0
      /\ at = [c \in Clients |-> "off"] /\ room = [c \in Clients |-> NoRoom] /\ key = [c \in Clients |-> 0]
      /\ text = [c \in Clients |-> <<>>]
  BY DEF Init
<1>2. NetShape(net) /\ net.keys = 0 /\ net.hub = <<>> /\ <<>> \in Seq(Texts) /\ DOMAIN net.hub = {}
  BY <1>1 DEF NetShape, NoNet
<1>3. ConfTyped
  BY <1>1, <1>2, ConferenceAssumption DEF ConfTyped, Places, Clients
<1>4. HubTells
  BY <1>1, <1>2 DEF HubTells, Found, Numbered, Emptied, InRoom
<1>5. AllHear
  BY <1>1 DEF AllHear, Held, InRoom
<1>6. ListedAreOpen
  BY <1>1 DEF ListedAreOpen, Clients
<1> QED BY <1>3, <1>4, <1>5, <1>6 DEF ConfInv

LEMMA ConfMoves == ConfInv /\ [Next]_confVars => ConfInv'
<1> SUFFICES ASSUME ConfInv, [Next]_confVars PROVE ConfInv'
  OBVIOUS
<1>1. ASSUME NEW s \in Terminals, Terminal(s) PROVE ConfInv'
  BY <1>1, AcceptStep, SpeechStep, WakesStep, ReapedStep, TextSentStep, EnterRoomStep, LeftStep, BreaksStep DEF Terminal
<1>2. ASSUME NEW b \in Browsers, Browser(b) PROVE ConfInv'
  BY <1>2, OpenStep, SayStep, LeaveStep, DrainStep, JoinStep DEF Browser
<1>3. CASE WebBroadcast \/ \E c \in Clients : Lose(c)
  BY <1>3, LoseStep
<1>4. CASE UNCHANGED confVars
  <2>1. UNCHANGED <<net, at, room, key, text, lost, listed, said, wreck>>
    BY <1>4 DEF confVars
  <2>2. ConfTyped' /\ HubTells'
    BY <2>1 DEF ConfInv, ConfTyped, HubTells
  <2>3. AllHear' /\ ListedAreOpen'
    BY <2>1 DEF ConfInv, AllHear, Held, HearsIn, ListedAreOpen
  <2> QED BY <2>2, <2>3 DEF ConfInv
<1> QED BY <1>1, <1>2, <1>3, <1>4 DEF Next

\* A room's participants are the clients whose tasks are in it.
LEMMA TheyArePresent == ConfInv => MembersArePresent
<1> SUFFICES ASSUME ConfInv PROVE MembersArePresent
  OBVIOUS
<1>1. /\ Found(net.hub, wreck.ghosts, at, key, room) /\ Emptied(net.hub, wreck.rooms, at, room)
  BY DEF ConfInv, HubTells
<1>2. \A c \in Clients : Inside(c) => room[c] \in DOMAIN net.hub
  BY <1>1, InsideIs DEF Found
<1>3. ASSUME NEW r \in DOMAIN net.hub
      PROVE  net.hub[r] \ wreck.ghosts = {key[c] : c \in {d \in Clients : Inside(d) /\ room[d] = r}}
  <2>1. \A x \in net.hub[r] \ wreck.ghosts : \E c \in Clients : Inside(c) /\ room[c] = r /\ key[c] = x
    BY <1>1, InsideIs DEF Found
  <2>2. \A c \in Clients : Inside(c) /\ room[c] = r => key[c] \in net.hub[r] \ wreck.ghosts
    BY <1>1, InsideIs DEF Found
  <2> QED BY <2>1, <2>2
<1>4. \A r \in DOMAIN net.hub :
        net.hub[r] = {} => \/ r \in wreck.rooms
                           \/ \E c \in Terminals : Leaving(c) /\ room[c] = r
  BY <1>1 DEF Emptied, Leaving
<1> QED BY <1>2, <1>3, <1>4 DEF MembersArePresent

LEMMA TheyHear == ConfInv => HeardInOrder
BY InsideIs DEF ConfInv, AllHear, Held, HearsIn, Hears, HeardInOrder

-----------------------------------------------------------------------------
(***************************************************************************)
(* What is bounded: the rooms by their names, the queues by their depth,   *)
(* and the terminals that are served by the limit on clients.              *)
(***************************************************************************)
Within(n) == DOMAIN n.hub \subseteq Rooms /\ \A c \in Clients : Len(n.queue[c]) <= Depth
FewActive == IsFiniteSet(Active) /\ Cardinality(Active) <= MaxClients
InputTyped ==
  /\ line \in [Clients -> Lines]
  /\ stopped \subseteq Terminals /\ lost \subseteq Clients /\ dead \subseteq Browsers
ConfBounds == Within(net) /\ FewActive /\ InputTyped

\* Queues that are emptied or as before are no longer than before.
LEMMA WithinFor ==
  ASSUME NEW n, Within(n), NEW c \in Clients, NEW p, Fresh(p, c),
         \A d \in Clients \ {c} : SameFor(n, p, d), DOMAIN p.hub \subseteq Rooms
  PROVE  Within(p)
<1>1. Len(p.queue[c]) <= Depth
  <2>1. Len(<<>>) = 0 /\ 0 <= Depth
    BY ConferenceAssumption
  <2> QED BY <2>1 DEF Fresh
<1>2. \A d \in Clients \ {c} : Len(p.queue[d]) <= Depth
  BY DEF SameFor, Within
<1> QED BY <1>1, <1>2 DEF Within

\* A client that joins a room joins one of Rooms.
LEMMA WithinJoined ==
  ASSUME NEW n, NetShape(n), Within(n), NEW c \in Clients, NEW r \in Rooms
  PROVE  NetShape(Joined(n, c, r)) /\ Within(Joined(n, c, r))
<1> DEFINE p == Joined(n, c, r)
<1>1. /\ NetShape(p) /\ Fresh(p, c) /\ \A d \in Clients \ {c} : SameFor(n, p, d)
      /\ p.hub = Entered(n.hub, r, n.keys + 1)
  BY JoinedNet
<1> HIDE DEF p
<1>2. DOMAIN p.hub \subseteq Rooms
  BY <1>1 DEF Entered, Within
<1>3. Within(p)
  BY <1>1, <1>2, WithinFor
<1> QED BY <1>1, <1>3 DEF p

\* A client that is taken out of a room adds no room.
LEMMA WithinPopped ==
  ASSUME NEW n, NetShape(n), Within(n), NEW c \in Clients
  PROVE  NetShape(Popped(n, c)) /\ Within(Popped(n, c))
<1> DEFINE p == Popped(n, c)
<1>1. /\ NetShape(p) /\ Fresh(p, c) /\ \A d \in Clients \ {c} : SameFor(n, p, d)
      /\ p.hub = Gone(n.hub, room[c], key[c])
  BY PoppedNet
<1> HIDE DEF p
<1>2. DOMAIN p.hub \subseteq Rooms
  BY <1>1 DEF Gone, Within
<1>3. Within(p)
  BY <1>1, <1>2, WithinFor
<1> QED BY <1>1, <1>3 DEF p

\* A room that is swept is one less.
LEMMA WithinSwept ==
  ASSUME NEW n, NetShape(n), Within(n), NEW r
  PROVE  NetShape(Swept(n, r)) /\ Within(Swept(n, r))
<1> DEFINE p == Swept(n, r)
<1>1. NetShape(p) /\ p.hub = Cleared(n.hub, r) /\ \A d \in Clients : SameFor(n, p, d)
  BY SweptNet
<1> HIDE DEF p
<1>2. DOMAIN p.hub \subseteq Rooms
  BY <1>1 DEF Cleared, Within
<1>3. \A d \in Clients : Len(p.queue[d]) <= Depth
  BY <1>1 DEF SameFor, Within
<1> QED BY <1>1, <1>2, <1>3 DEF p, Within

\* A line is put into the queues that have room for it.
LEMMA WithinTell ==
  ASSUME NEW n, NetShape(n), Within(n), NEW r, NEW m \in Texts, NEW apart
  PROVE  NetShape(Tell(n, r, m, apart)) /\ Within(Tell(n, r, m, apart))
<1> DEFINE p == Tell(n, r, m, apart)
<1>1. /\ NetShape(p) /\ p.hub = n.hub
      /\ \A c \in Clients : p.queue[c] = IF Member(n, r, c, apart) /\ Fits(n, c)
                                         THEN Append(n.queue[c], m) ELSE n.queue[c]
  BY TellNet
<1> HIDE DEF p
<1>2. ASSUME NEW c \in Clients PROVE Len(p.queue[c]) <= Depth
  <2>1. n.queue[c] \in Seq(Texts) /\ Len(n.queue[c]) <= Depth /\ Len(n.queue[c]) \in Nat
    BY DEF NetShape, Within
  <2>2. Len(Append(n.queue[c], m)) = Len(n.queue[c]) + 1
    BY <2>1
  <2>3. CASE Member(n, r, c, apart) /\ Fits(n, c)
    <3>1. p.queue[c] = Append(n.queue[c], m)
      BY <1>1, <2>3
    <3>2. Len(n.queue[c]) < Depth
      BY <2>3 DEF Fits
    <3> QED BY <3>1, <3>2, <2>1, <2>2, ConferenceAssumption
  <2>4. CASE ~(Member(n, r, c, apart) /\ Fits(n, c))
    <3>1. p.queue[c] = n.queue[c]
      BY <1>1, <2>4
    <3> QED BY <3>1, <2>1
  <2> QED BY <2>3, <2>4
<1>3. Within(p)
  BY <1>1, <1>2 DEF Within
<1> QED BY <1>1, <1>3 DEF p

\* One client's queue loses its first line or all of them.
LEMMA WithinLess ==
  ASSUME Within(net), NetShape(net), NEW c \in Clients, NEW q,
         q = <<>> \/ (net.queue[c] # <<>> /\ q = Tail(net.queue[c])),
         NEW p, p.hub = net.hub, p.queue = [net.queue EXCEPT ![c] = q]
  PROVE  Within(p)
<1>1. net.queue[c] \in Seq(Texts) /\ Len(net.queue[c]) <= Depth /\ Len(net.queue[c]) \in Nat
  BY DEF NetShape, Within
<1>2. Len(q) <= Depth
  <2>1. CASE q = <<>>
    BY <2>1, ConferenceAssumption
  <2>2. CASE net.queue[c] # <<>> /\ q = Tail(net.queue[c])
    <3>1. Len(q) = Len(net.queue[c]) - 1
      BY <1>1, <2>2
    <3> QED BY <3>1, <1>1, ConferenceAssumption
  <2> QED BY <2>1, <2>2
<1>3. \A d \in Clients : p.queue[d] = IF d = c THEN q ELSE net.queue[d]
  BY DEF NetShape
<1> QED BY <1>2, <1>3 DEF Within

\* A client that leaves is taken out of its room, and the others are told.
LEMMA WithinParted ==
  ASSUME ConfTyped, HubTells, Within(net), NEW c \in Clients, at[c] \in InRoom
  PROVE  NetShape(Parted(net, c)) /\ Within(Parted(net, c))
<1> DEFINE n == Popped(net, c)
           m == Notice("left", c)
<1>1. NetShape(n) /\ Within(n)
  BY WithinPopped DEF ConfTyped
<1>2. m \in Texts
  BY Tellable
<1> HIDE DEF n, m
<1>3. NetShape(Tell(n, room[c], m, {c})) /\ Within(Tell(n, room[c], m, {c}))
  BY <1>1, <1>2, WithinTell
<1> QED BY <1>3 DEF Parted, n, m

\* A socket that closes takes its client out of the room and sweeps it.
LEMMA WithinOut ==
  ASSUME ConfTyped, HubTells, Within(net), NEW b \in Browsers
  PROVE  NetShape(Out(net, b)) /\ Within(Out(net, b))
<1>1. CASE at[b] = "room"
  <2>1. b \in Clients /\ at[b] \in InRoom
    BY <1>1 DEF Clients, InRoom
  <2>2. NetShape(Parted(net, b)) /\ Within(Parted(net, b))
    BY <2>1, WithinParted
  <2>3. NetShape(Swept(Parted(net, b), room[b])) /\ Within(Swept(Parted(net, b), room[b]))
    BY <2>2, WithinSwept
  <2> QED BY <1>1, <2>3 DEF Out
<1>2. CASE at[b] # "room"
  BY <1>2 DEF Out, ConfTyped
<1> QED BY <1>1, <1>2

-----------------------------------------------------------------------------
(***************************************************************************)
(* What a step does to the hub.                                            *)
(***************************************************************************)
LEMMA WithinStays ==
  ASSUME ConfInv, ConfBounds, [Next]_confVars
  PROVE  Within(net')
<1> USE DEF Within
<1>1. ConfTyped /\ HubTells /\ AllHear /\ Within(net) /\ NetShape(net)
  BY DEF ConfInv, ConfBounds, ConfTyped
<1> HIDE DEF Within
<1>2. ASSUME net' = net PROVE Within(net')
  BY <1>1, <1>2
<1>3. ASSUME NEW s \in Terminals, NEW way, Quits(s, way), at[s] \in InRoom PROVE Within(net')
  BY <1>1, <1>3, WithinParted DEF Quits, Clients
<1>4. ASSUME NEW s \in Terminals, Ends(s) PROVE Within(net')
  <2>1. s \in Clients /\ net'.hub = net.hub /\ net'.queue = [net.queue EXCEPT ![s] = <<>>]
    BY <1>1, <1>4 DEF Ends, Clients, NetShape
  <2> QED BY <1>1, <2>1, WithinLess
<1>5. ASSUME NEW s \in Terminals, NEW r \in Rooms, EnterRoom(s, r) PROVE Within(net')
  BY <1>1, <1>5, WithinJoined DEF EnterRoom, Clients
<1>6. ASSUME NEW s \in Terminals, Welcomed(s) PROVE Within(net')
  <2>1. s \in Clients /\ at[s] \in InRoom /\ net' = Tell(net, room[s], Notice("joined", s), {s})
    BY <1>6 DEF Welcomed, Clients, InRoom
  <2>2. Notice("joined", s) \in Texts
    BY <1>1, <2>1, Tellable
  <2> QED BY <1>1, <2>1, <2>2, WithinTell
<1>7. ASSUME NEW s \in Terminals, Echoed(s) PROVE Within(net')
  <2>1. /\ s \in Clients /\ at[s] \in InRoom
        /\ net' = Tell(net, room[s], [kind |-> "said", of |-> key[s], nth |-> said], {s})
    BY <1>7 DEF Echoed, Clients, InRoom
  <2>2. [kind |-> "said", of |-> key[s], nth |-> said] \in Texts
    BY <1>1, <2>1, Tellable DEF ConfTyped
  <2> QED BY <1>1, <2>1, <2>2, WithinTell
<1>8. ASSUME NEW s \in Terminals, Wakes(s) PROVE Within(net')
  <2>0. s \in Clients
    BY DEF Clients
  <2>1. CASE net.queue[s] # <<>> /\ net' = [net EXCEPT !.queue[s] = Tail(@)]
    <3>1. net'.hub = net.hub /\ net'.queue = [net.queue EXCEPT ![s] = Tail(net.queue[s])]
      BY <1>1, <2>1 DEF NetShape
    <3> QED BY <1>1, <2>0, <2>1, <3>1, WithinLess
  <2>2. CASE net' = net
    BY <1>2, <2>2
  <2> QED BY <1>8, <2>1, <2>2 DEF Wakes
<1>9. ASSUME NEW s \in Terminals, Reaped(s) \/ TextSent(s) PROVE Within(net')
  <2>0. s \in Clients /\ at[s] \in InRoom
    BY <1>9 DEF Reaped, TextSent, Clients, InRoom
  <2>1. CASE Quits(s, "goodbye")
    BY <1>3, <2>0, <2>1
  <2>2. CASE net' = Heard(net, s, text[s][1])
    <3>1. net'.hub = net.hub /\ net'.queue = net.queue
      BY <1>1, <2>2 DEF Heard, NetShape
    <3> QED BY <1>1, <3>1 DEF Within
  <2>3. CASE net' = net
    BY <1>2, <2>3
  <2> QED BY <1>9, <2>1, <2>2, <2>3 DEF Reaped, TextSent, Handles
<1>10. ASSUME NEW s \in Terminals, Left(s) \/ Thrown(s) \/ Breaks(s) \/ Cancel(s) \/ Accept(s) PROVE Within(net')
  <2>1. CASE Ends(s)
    BY <1>4, <2>1
  <2>2. CASE Quits(s, "thrown") /\ at[s] \in InRoom
    BY <1>3, <2>2
  <2>3. CASE net' = Swept(net, room[s])
    BY <1>1, <2>3, WithinSwept
  <2>4. CASE net' = net
    BY <1>2, <2>4
  <2> QED BY <1>10, <2>1, <2>2, <2>3, <2>4 DEF Left, Thrown, Breaks, Cancel, Accept, InRoom
<1>11. ASSUME NEW s \in Terminals, Terminal(s) PROVE Within(net')
  BY <1>5, <1>6, <1>7, <1>8, <1>9, <1>10, <1>11 DEF Terminal
<1>12. ASSUME NEW b \in Browsers, NEW r \in Rooms, Join(b, r) PROVE Within(net')
  <2> DEFINE o == Out(net, b)
             j == Joined(o, b, r)
             m == [kind |-> "joined", of |-> j.keys, nth |-> 0]
             t == Tell(j, r, m, {b})
  <2>1. /\ net' = [t EXCEPT !.owed[b] = <<>>, !.queue[b] = <<>>]
        /\ b \in Clients /\ net.keys < MaxEntries /\ at[b] \in {"open", "room"}
    BY <1>12 DEF Join, Clients
  <2>2. NetShape(o) /\ Within(o) /\ o.keys = net.keys
    BY <1>1, <2>1, WithinOut, OutNet
  <2> HIDE DEF o
  <2>3. NetShape(j) /\ Within(j) /\ j.keys = net.keys + 1
    BY <2>1, <2>2, WithinJoined, JoinedNet
  <2> HIDE DEF j
  <2>4. m \in Texts
    <3>1. net.keys \in Nat /\ j.keys \in Keys /\ 0 \in 0 .. MaxSaid
      BY <1>1, <2>1, <2>3, ConferenceAssumption DEF NetShape, Keys
    <3> QED BY <3>1 DEF Texts
  <2> HIDE DEF m
  <2>5. NetShape(t) /\ Within(t)
    BY <2>3, <2>4, WithinTell
  <2> HIDE DEF t
  <2>6. net'.hub = t.hub /\ net'.queue = [t.queue EXCEPT ![b] = <<>>]
    BY <2>1, <2>5 DEF NetShape
  <2>7. \A d \in Clients : net'.queue[d] = IF d = b THEN <<>> ELSE t.queue[d]
    BY <2>5, <2>6 DEF NetShape
  <2>8. Len(<<>>) <= Depth
    BY ConferenceAssumption
  <2> QED BY <2>5, <2>6, <2>7, <2>8 DEF Within
<1>13. ASSUME NEW b \in Browsers, Say(b) PROVE Within(net')
  <2>1. b \in Clients /\ at[b] \in InRoom /\ said < MaxSaid /\ said \in 0 .. MaxSaid
    BY <1>1, <1>13 DEF Say, Clients, InRoom, ConfTyped
  <2>2. said + 1 \in 0 .. MaxSaid
    BY <2>1, ConferenceAssumption
  <2>3. PICK m \in Texts : net' = Tell(net, room[b], m, {})
    BY <1>1, <1>13, <2>1, <2>2, Tellable DEF Say
  <2> QED BY <1>1, <2>3, WithinTell
<1>14. ASSUME NEW b \in Browsers, Drain(b) PROVE Within(net')
  <2>1. /\ b \in Clients /\ net.queue[b] # <<>>
        /\ net' = [Heard(net, b, Head(net.queue[b])) EXCEPT !.queue[b] = Tail(@)]
    BY <1>14 DEF Drain, Clients
  <2>2. net'.hub = net.hub /\ net'.queue = [net.queue EXCEPT ![b] = Tail(net.queue[b])]
    BY <1>1, <2>1 DEF Heard, NetShape
  <2> QED BY <1>1, <2>1, <2>2, WithinLess
<1>15. ASSUME NEW b \in Browsers, Browser(b) PROVE Within(net')
  <2>1. CASE net' = net
    BY <1>2, <2>1
  <2>2. CASE net' = Out(net, b)
    BY <1>1, <2>2, WithinOut
  <2> QED BY <1>12, <1>13, <1>14, <1>15, <2>1, <2>2 DEF Browser, Open, LeaveConf, CloseWs
<1> QED BY <1>2, <1>11, <1>15 DEF Next, WebBroadcast, Lose, confVars

\* Only a terminal that is accepted becomes active.
LEMMA FewStay ==
  ASSUME ConfInv, ConfBounds, [Next]_confVars
  PROVE  FewActive'
<1>1. at \in [Clients -> Places] /\ IsFiniteSet(Active) /\ Cardinality(Active) <= MaxClients
      /\ Terminals \cap Browsers = {} /\ Terminals \subseteq Clients /\ Browsers \subseteq Clients
  BY ConferenceAssumption DEF ConfInv, ConfTyped, ConfBounds, FewActive, Clients
<1>2. ASSUME Active' \subseteq Active PROVE FewActive'
  <2>1. IsFiniteSet(Active') /\ Cardinality(Active') <= Cardinality(Active)
    BY <1>1, <1>2, FS_Subset
  <2>2. Cardinality(Active) \in Nat /\ Cardinality(Active') \in Nat
    BY <1>1, <2>1, FS_CardinalityType
  <2> QED BY <1>1, <2>1, <2>2, ConferenceAssumption DEF FewActive
<1>3. ASSUME NEW s \in Terminals, NEW x, at' = [at EXCEPT ![s] = x], at[s] # "off" PROVE FewActive'
  <2>1. \A d \in Terminals : at'[d] # "off" => at[d] # "off"
    BY <1>1, <1>3
  <2>2. Active' \subseteq Active
    BY <2>1 DEF Active
  <2> QED BY <1>2, <2>2
<1>4. ASSUME NEW b \in Browsers, NEW x, at' = [at EXCEPT ![b] = x] PROVE FewActive'
  <2>1. \A d \in Terminals : at'[d] = at[d]
    BY <1>1, <1>4
  <2>2. Active' \subseteq Active
    BY <2>1 DEF Active
  <2> QED BY <1>2, <2>2
<1>5. ASSUME at' = at PROVE FewActive'
  <2>1. Active' \subseteq Active
    BY <1>5 DEF Active
  <2> QED BY <1>2, <2>1
<1>6. ASSUME NEW s \in Terminals, Accept(s) PROVE FewActive'
  <2>1. at[s] = "off" /\ Cardinality(Active) < MaxClients /\ at' = [at EXCEPT ![s] = "prompt"]
    BY <1>6 DEF Accept
  <2>2. Active' = Active \cup {s} /\ s \notin Active
    BY <1>1, <2>1 DEF Active
  <2>3. IsFiniteSet(Active \cup {s}) /\ Cardinality(Active \cup {s}) = Cardinality(Active) + 1
    BY <1>1, <2>2, FS_AddElement
  <2>4. Cardinality(Active) \in Nat
    BY <1>1, FS_CardinalityType
  <2> QED BY <2>1, <2>2, <2>3, <2>4, ConferenceAssumption DEF FewActive
<1>7. ASSUME NEW s \in Terminals, Terminal(s) PROVE FewActive'
  <2>1. CASE Accept(s)
    BY <1>6, <2>1
  <2>2. CASE at[s] # "off" /\ \E x : at' = [at EXCEPT ![s] = x]
    BY <1>3, <2>2
  <2>3. CASE Welcomed(s) \/ Echoed(s) \/ Wakes(s) \/ Reaped(s) \/ TextSent(s)
    <3>1. at[s] # "off" /\ \E x : at' = [at EXCEPT ![s] = x]
      BY <2>3, Zenon DEF Welcomed, Echoed, Wakes, Reaped, TextSent, Handles, Quits
    <3> QED BY <2>2, <3>1
  <2>4. CASE Left(s) \/ Thrown(s) \/ \E r \in Rooms : EnterRoom(s, r)
    <3>1. at[s] # "off" /\ \E x : at' = [at EXCEPT ![s] = x]
      BY <2>4 DEF Left, Thrown, EnterRoom, Ends
    <3> QED BY <2>2, <3>1
  <2>5. CASE Breaks(s) \/ Cancel(s)
    <3>1. (at[s] # "off" /\ \E x : at' = [at EXCEPT ![s] = x]) \/ at' = at
      BY <2>5 DEF Breaks, Cancel, Ends, Quits
    <3> QED BY <1>5, <2>2, <3>1
  <2> QED BY <1>7, <2>1, <2>3, <2>4, <2>5 DEF Terminal
<1>8. ASSUME NEW b \in Browsers, Browser(b) PROVE FewActive'
  BY <1>4, <1>5, <1>8 DEF Browser, Open, Join, Say, LeaveConf, CloseWs, Drain
<1> QED BY <1>5, <1>7, <1>8 DEF Next, WebBroadcast, Lose, confVars

\* What is typed, stopped and lost keeps its type.
LEMMA InputStays ==
  ASSUME ConfInv, ConfBounds, [Next]_confVars
  PROVE  InputTyped'
<1>1. /\ InputTyped /\ "none" \in Lines /\ Terminals \subseteq Clients /\ Browsers \subseteq Clients
  BY DEF ConfBounds, Lines, Clients
<1>2. ASSUME UNCHANGED <<line, stopped, lost, dead>> PROVE InputTyped'
  BY <1>1, <1>2 DEF InputTyped
<1>3. ASSUME NEW s \in Terminals, NEW l \in Lines, line' = [line EXCEPT ![s] = l], UNCHANGED <<lost, dead>>,
             stopped' \in {stopped, stopped \cup {s}}
      PROVE InputTyped'
  BY <1>1, <1>3 DEF InputTyped
<1>4. ASSUME NEW s \in Terminals, NEW way, Quits(s, way), UNCHANGED <<lost, dead>>,
             stopped' \in {stopped, stopped \cup {s}}
      PROVE  InputTyped'
  BY <1>1, <1>3, <1>4 DEF Quits
<1>5. ASSUME NEW s \in Terminals, Ends(s) PROVE InputTyped'
  BY <1>1, <1>5 DEF Ends, InputTyped
<1>6. ASSUME NEW s \in Terminals, Wakes(s) \/ Reaped(s) \/ TextSent(s) PROVE InputTyped'
  <2>1. UNCHANGED <<stopped, lost, dead>> /\ \E l \in Lines : line' = [line EXCEPT ![s] = l]
    <3>1. CASE Reaped(s)
      <4>1. line = [line EXCEPT ![s] = line[s]] /\ line[s] \in Lines
        BY <1>1 DEF InputTyped
      <4> QED BY <1>1, <3>1, <4>1, Zenon DEF Reaped, Handles, Quits
    <3> QED BY <1>1, <1>6, <3>1, Zenon DEF Wakes, TextSent, Handles, Quits
  <2> QED BY <1>3, <2>1
<1>7. ASSUME NEW s \in Terminals, Terminal(s) PROVE InputTyped'
  <2>1. CASE Accept(s) \/ Welcomed(s) \/ Echoed(s) \/ Left(s) \/ \E r \in Rooms : EnterRoom(s, r)
    BY <1>2, <2>1 DEF Accept, Welcomed, Echoed, Left, EnterRoom
  <2>2. CASE Thrown(s)
    BY <1>5, <2>2 DEF Thrown
  <2>3. CASE Breaks(s)
    BY <1>4, <1>5, <2>3 DEF Breaks
  <2>4. CASE Cancel(s)
    <3>1. CASE stopped' = stopped \cup {s} /\ UNCHANGED <<line, lost, dead>>
      BY <1>1, <3>1 DEF InputTyped
    <3> QED BY <1>4, <1>5, <2>4, <3>1 DEF Cancel
  <2> QED BY <1>6, <1>7, <2>1, <2>2, <2>3, <2>4 DEF Terminal
<1>8. ASSUME NEW b \in Browsers, Browser(b) PROVE InputTyped'
  <2>1. CASE Open(b) \/ Say(b) \/ LeaveConf(b) \/ \E r \in Rooms : Join(b, r)
    BY <1>2, <2>1 DEF Open, Say, LeaveConf, Join
  <2>2. CASE CloseWs(b)
    BY <1>1, <2>2 DEF CloseWs, InputTyped
  <2>3. CASE Drain(b)
    BY <1>1, <1>8, <2>3 DEF Drain, InputTyped
  <2> QED BY <1>8, <2>1, <2>2, <2>3 DEF Browser
<1>9. ASSUME NEW c \in Clients, Lose(c) PROVE InputTyped'
  BY <1>1, <1>9 DEF Lose, InputTyped
<1> QED BY <1>2, <1>7, <1>8, <1>9 DEF Next, WebBroadcast, confVars

\* At the start no one is there and nothing is queued.
LEMMA BoundsInitial == Init => ConfBounds
<1> SUFFICES ASSUME Init PROVE ConfBounds
  OBVIOUS
<1>1. Within(net)
  <2>1. net = NoNet /\ Len(<<>>) <= Depth /\ DOMAIN <<>> = {}
    BY ConferenceAssumption DEF Init
  <2> QED BY <2>1 DEF Within, NoNet
<1>2. FewActive
  <2>1. Active = {}
    BY DEF Init, Active, Clients
  <2> QED BY <2>1, FS_EmptySet, ConferenceAssumption DEF FewActive
<1>3. InputTyped
  BY DEF Init, InputTyped, Lines
<1> QED BY <1>1, <1>2, <1>3 DEF ConfBounds

\* Every step keeps the conference within its bounds.
LEMMA BoundsMove == ConfInv /\ ConfBounds /\ [Next]_confVars => ConfBounds'
<1> SUFFICES ASSUME ConfInv, ConfBounds, [Next]_confVars PROVE ConfBounds'
  OBVIOUS
<1>1. Within(net') /\ FewActive' /\ InputTyped'
  BY WithinStays, FewStay, InputStays
<1> QED BY <1>1 DEF ConfBounds, Within

\* The invariant and the bounds imply the type invariant.
LEMMA ConfType == ConfInv /\ ConfBounds => TypeOK
<1> SUFFICES ASSUME ConfInv, ConfBounds PROVE TypeOK
  OBVIOUS
<1>1. NetShape(net) /\ ConfTyped /\ HubTells /\ AllHear
  BY DEF ConfInv, ConfTyped
<1>2. net.keys \in 0 .. MaxEntries
  BY <1>1, ConferenceAssumption DEF ConfTyped, NetShape
<1>3. \A r \in DOMAIN net.hub : net.hub[r] \subseteq Keys
  BY <1>1, <1>2, ConferenceAssumption DEF HubTells, Numbered, Keys
<1>4. ASSUME NEW c \in Clients
      PROVE  /\ Len(net.queue[c]) <= Depth /\ net.queue[c] \in Seq(Texts) /\ net.owed[c] \in Seq(Texts)
             /\ text[c] \in Seq(Texts) /\ Len(text[c]) <= 1
  <2>1. text[c] \in Seq(Texts) /\ Len(text[c]) <= 1
    <3>1. text[c] \in Seq(Texts)
      BY <1>1 DEF ConfTyped
    <3>2. Len(text[c]) = 1 \/ text[c] = <<>>
      BY <1>1 DEF AllHear, Held
    <3>3. CASE text[c] = <<>>
      <4>1. Len(text[c]) = 0
        BY <3>3
      <4> QED BY <3>1, <4>1
    <3>4. CASE Len(text[c]) = 1
      BY <3>1, <3>4
    <3> QED BY <3>2, <3>3, <3>4
  <2> QED BY <1>1, <2>1 DEF NetShape, ConfBounds, Within
<1> QED BY <1>1, <1>2, <1>3, <1>4 DEF TypeOK, ConfBounds, Within, FewActive, InputTyped, ConfTyped, Places
=============================================================================
