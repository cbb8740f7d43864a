--------------------------- MODULE ForwardProofs ---------------------------
(***************************************************************************)
(* Forwarding sessions, for any messages, faults and number of sessions:   *)
(* types, that a mark was granted, that no block is sent twice, and that a *)
(* session with a foreign end delivers unless something disturbs it.       *)
(***************************************************************************)
EXTENDS ForwardSession, SequenceTheorems, FiniteSetTheorems, WellFoundedInduction, TLAPS

(***************************************************************************)
(* Messages in order.                                                      *)
(***************************************************************************)
LEMMA Least ==
  ASSUME NEW T \in SUBSET Nat, T # {}
  PROVE  \E x \in T : \A y \in T : x <= y
<1> DEFINE R == OpToRel(<, Nat)
<1>1. IsWellFoundedOn(R, Nat)
  BY NatLessThanWellFounded
<1> HIDE DEF R
<1>2. PICK x \in T : \A y \in T : ~ (<<y, x>> \in R)
  BY <1>1, WFMin
<1>3. ASSUME NEW y \in T PROVE x <= y
  <2>1. x \in Nat /\ y \in Nat
    OBVIOUS
  <2>2. y < x => <<y, x>> \in R
    BY <2>1 DEF R, OpToRel
  <2>3. ~(y < x)
    BY <1>2, <2>2, Zenon
  <2> QED BY <2>1, <2>3
<1> QED BY <1>3

Rising(q) == \A i, j \in DOMAIN q : i < j => q[i] < q[j]

\* A set of n numbers can be listed in order, for every n: there is no least n
\* for which one cannot.
Listable(S) == \E q \in [1 .. Cardinality(S) -> S] : Rising(q)

LEMMA Sorting ==
  ASSUME NEW S \in SUBSET Nat, IsFiniteSet(S)
  PROVE  Listable(S)
<1> DEFINE Bad == {n \in Nat : \E U \in SUBSET Nat : IsFiniteSet(U) /\ Cardinality(U) = n /\ ~Listable(U)}
<1>1. ASSUME Bad # {} PROVE FALSE
  <2>1. PICK n \in Bad : \A k \in Bad : n <= k
    <3>1. Bad \in SUBSET Nat
      OBVIOUS
    <3> HIDE DEF Bad
    <3> QED BY <1>1, <3>1, Least
  <2>2. PICK U \in SUBSET Nat : IsFiniteSet(U) /\ Cardinality(U) = n /\ ~Listable(U)
    OBVIOUS
  <2>3. n \in Nat
    OBVIOUS
  <2>4. U # {}
    <3>1. ASSUME U = {} PROVE Listable(U)
      <4>1. Cardinality(U) = 0
        BY <3>1, FS_EmptySet
      <4>2. 1 .. 0 = {}
        OBVIOUS
      <4>3. [i \in {} |-> i] \in [1 .. Cardinality(U) -> U] /\ Rising([i \in {} |-> i])
        BY <4>1, <4>2 DEF Rising
      <4> QED BY <4>3 DEF Listable
    <3> QED BY <2>2, <3>1
  <2>5. PICK x \in U : \A y \in U : x <= y
    BY <2>4, Least
  <2> DEFINE V == U \ {x}
  <2>6. V \in SUBSET Nat /\ IsFiniteSet(V) /\ Cardinality(V) = n - 1 /\ n # 0
    BY <2>2, <2>4, FS_RemoveElement, FS_EmptySet
  <2>7. n - 1 \in Nat /\ ~(n <= n - 1)
    BY <2>3, <2>6
  <2>8. Listable(V)
    <3>1. n - 1 \notin Bad
      BY <2>1, <2>7
    <3> QED BY <2>6, <2>7, <3>1
  <2>9. PICK g \in [1 .. n - 1 -> V] : Rising(g)
    BY <2>6, <2>8 DEF Listable
  <2> DEFINE q == [i \in 1 .. n |-> IF i = 1 THEN x ELSE g[i - 1]]
  <2>10. ASSUME NEW i \in 1 .. n PROVE i = 1 \/ i - 1 \in 1 .. n - 1
    BY <2>3, <2>10
  <2>11. q \in [1 .. n -> U]
    BY <2>3, <2>10
  <2>12. Rising(q)
    <3> SUFFICES ASSUME NEW i \in 1 .. n, NEW j \in 1 .. n, i < j PROVE q[i] < q[j]
      BY DEF Rising
    <3>1. j - 1 \in 1 .. n - 1 /\ q[j] = g[j - 1] /\ g[j - 1] \in V
      BY <2>3, <2>10
    <3>2. CASE i = 1
      <4>1. q[i] = x /\ x <= g[j - 1] /\ x # g[j - 1] /\ x \in Nat /\ g[j - 1] \in Nat
        BY <2>5, <3>1, <3>2
      <4> HIDE DEF q
      <4> QED BY <3>1, <4>1
    <3>3. CASE i # 1
      <4>1. i - 1 \in 1 .. n - 1 /\ q[i] = g[i - 1] /\ i - 1 < j - 1
        BY <2>3, <2>10, <3>3
      <4> HIDE DEF q
      <4> QED BY <2>9, <3>1, <4>1 DEF Rising
    <3> QED BY <3>2, <3>3
  <2> HIDE DEF q
  <2> QED BY <2>2, <2>11, <2>12 DEF Listable
<1>2. Cardinality(S) \in Nat
  BY FS_CardinalityType
<1>3. Cardinality(S) \notin Bad
  BY <1>1, Zenon
<1> QED BY <1>2, <1>3

LEMMA OrderedFacts ==
  ASSUME NEW S \in SUBSET Nat, IsFiniteSet(S)
  PROVE  /\ Ordered(S) \in Seq(S) /\ Rising(Ordered(S)) /\ Range(Ordered(S)) = S
         /\ Len(Ordered(S)) = Cardinality(S)
<1> DEFINE n == Cardinality(S)
           q == Ordered(S)
<1>1. n \in Nat
  BY FS_CardinalityType
<1>2. q \in [1 .. n -> S] /\ Rising(q)
  BY Sorting DEF Listable, Ordered, Rising
<1> HIDE DEF q
<1>3. q \in Injection(1 .. n, S)
  <2>1. \A i, j \in 1 .. n : q[i] = q[j] => i = j
    <3> SUFFICES ASSUME NEW i \in 1 .. n, NEW j \in 1 .. n, q[i] = q[j], i # j PROVE FALSE
      OBVIOUS
    <3>1. q[i] \in Nat /\ DOMAIN q = 1 .. n
      BY <1>2
    <3>2. i < j \/ j < i
      BY <1>1
    <3>3. q[i] < q[j] \/ q[j] < q[i]
      BY <1>2, <3>1, <3>2 DEF Rising
    <3> QED BY <3>1, <3>3
  <2> QED BY <1>2, <2>1 DEF Injection, IsInjective
<1>4. IsFiniteSet(1 .. n) /\ Cardinality(1 .. n) = n
  BY <1>1, FS_Interval
<1>5. q \in Surjection(1 .. n, S)
  BY <1>3, <1>4, FS_Injection
<1>6. q \in Seq(S) /\ Len(q) = n
  BY <1>1, <1>2
<1>7. Range(q) = S
  BY <1>2, <1>5 DEF Surjection, Range
<1> QED BY <1>2, <1>6, <1>7 DEF q


-----------------------------------------------------------------------------
(***************************************************************************)
(* Types.                                                                  *)
(***************************************************************************)

\* Lines that name a message name one there is, only an FS line answers, and
\* whoever is to record a message has it.
Worded(p) ==
  \A l \in Range(p) : /\ l.kind \in {"FB", "BLOCK"} => l.msg \in Msg
                      /\ l.kind # "FS" => l.answers = <<>>

Loaded(s) == s.at \in {"record", "path"} => s.ok # <<>>

TypeInv == TypeOK /\ \A e \in End : Worded(wire[e]) /\ Loaded(sess[e])

LEMMA Mails == Msg \in SUBSET Nat /\ IsFiniteSet(Msg) /\ 0 \notin Msg
<1>1. IsFiniteSet(CallerMail \cup CalledMail)
  BY ForwardAssumption, FS_Union
<1> QED BY <1>1, ForwardAssumption DEF Msg

LEMMA Listing ==
  ASSUME NEW S \in SUBSET Msg
  PROVE  /\ Ordered(S) \in Seq(Msg) /\ Range(Ordered(S)) = S /\ Rising(Ordered(S))
         /\ Len(Ordered(S)) = Cardinality(S)
<1>1. S \in SUBSET Nat /\ IsFiniteSet(S)
  BY Mails, FS_Subset
<1>2. Ordered(S) \in Seq(S) /\ Rising(Ordered(S)) /\ Range(Ordered(S)) = S
      /\ Len(Ordered(S)) = Cardinality(S)
  BY <1>1, OrderedFacts
<1>3. Ordered(S) \in Seq(Msg)
  <2> DEFINE r == Ordered(S)
  <2>1. r \in Seq(S)
    BY <1>2
  <2> HIDE DEF r
  <2>2. r \in Seq(Msg)
    BY <2>1
  <2> QED BY <2>2 DEF r
<1> QED BY <1>2, <1>3

LEMMA Ends == \A e \in End : Other(e) \in End /\ Other(e) # e /\ Other(Other(e)) = e
                             /\ \A x \in End : x = e \/ x = Other(e)
BY DEF End, Other

LEMMA TextLines ==
  /\ \A k \in {"", "SID", ">", "FF", "FQ"} : Text(k) \in Line /\ Text(k).kind = k
                                            /\ Text(k).answers = <<>> /\ Text(k).msg = None
  /\ \A m \in Msg : /\ FB(m) \in Line /\ FB(m).kind = "FB" /\ FB(m).msg = m /\ FB(m).answers = <<>>
                    /\ Block(m) \in Line /\ Block(m).kind = "BLOCK" /\ Block(m).msg = m
                    /\ Block(m).answers = <<>>
  /\ \A as \in Seq(Answers) : FS(as) \in Line /\ FS(as).kind = "FS" /\ FS(as).answers = as
<1>1. <<>> \in Seq(Answers)
  OBVIOUS
<1> QED BY <1>1 DEF Text, FB, Block, FS, Line, None

\* What is left when a line has been read, if there was one.
Rest(q) == IF q = <<>> THEN q ELSE Tail(q)

First(q) == IF q = <<>> THEN Text("") ELSE Head(q)

LEMMA RestFacts ==
  ASSUME NEW q \in Seq(Line)
  PROVE  /\ Rest(q) \in Seq(Line) /\ First(q) \in Line
         /\ Range(Rest(q)) \subseteq Range(q)
         /\ q # <<>> => First(q) = q[1] /\ First(q) \in Range(q) /\ Range(q) = {First(q)} \cup Range(Rest(q))
         /\ q = <<>> => First(q).kind = "" /\ First(q).answers = <<>> /\ Rest(q) = <<>>
         /\ \A i \in DOMAIN Rest(q) : i + 1 \in DOMAIN q /\ Rest(q)[i] = q[i + 1] /\ i \in Nat \ {0}
<1>1. CASE q = <<>>
  <2>1. Rest(q) = <<>> /\ First(q) = Text("")
    BY <1>1 DEF Rest, First
  <2>2. Text("") \in Line /\ Text("").kind = "" /\ Text("").answers = <<>>
    BY TextLines
  <2>3. DOMAIN <<>> = {} /\ <<>> \in Seq(Line)
    OBVIOUS
  <2>4. Rest(q) = q
    BY <1>1, <2>1
  <2> HIDE DEF First, Rest
  <2> QED BY <1>1, <2>1, <2>2, <2>3, <2>4
<1>2. CASE q # <<>>
  <2>1. /\ Tail(q) \in Seq(Line) /\ Head(q) = q[1] /\ Head(q) \in Line /\ 1 \in DOMAIN q
        /\ DOMAIN q = 1 .. Len(q) /\ Len(q) \in Nat
        /\ \A i \in DOMAIN Tail(q) : i + 1 \in DOMAIN q /\ Tail(q)[i] = q[i + 1] /\ i \in Nat \ {0}
        /\ \A i \in DOMAIN q : i = 1 \/ (i - 1 \in DOMAIN Tail(q) /\ Tail(q)[i - 1] = q[i])
    BY <1>2
  <2>2. Rest(q) = Tail(q) /\ First(q) = q[1]
    BY <1>2, <2>1 DEF Rest, First
  <2>3. Range(Tail(q)) \subseteq Range(q)
    BY <2>1 DEF Range
  <2>4. Range(q) = {q[1]} \cup Range(Tail(q))
    BY <2>1, <2>3 DEF Range
  <2> QED BY <1>2, <2>1, <2>2, <2>3, <2>4
<1> QED BY <1>1, <1>2

LEMMA Joined ==
  ASSUME NEW p \in Seq(Line), NEW x \in Seq(Line)
  PROVE  /\ p \o x \in Seq(Line) /\ Range(p \o x) = Range(p) \cup Range(x)
         /\ Len(p \o x) = Len(p) + Len(x) /\ Len(p) \in Nat /\ Len(x) \in Nat
         /\ \A i \in DOMAIN p : i \in DOMAIN (p \o x) /\ (p \o x)[i] = p[i]
         /\ \A i \in DOMAIN (p \o x) : \/ i \in DOMAIN p
                                       \/ i - Len(p) \in DOMAIN x /\ (p \o x)[i] = x[i - Len(p)]
         /\ \A i \in DOMAIN x : i + Len(p) \in DOMAIN (p \o x) /\ (p \o x)[i + Len(p)] = x[i]
<1>1. /\ p \o x \in Seq(Line) /\ Len(p \o x) = Len(p) + Len(x) /\ Len(p) \in Nat /\ Len(x) \in Nat
      /\ DOMAIN p = 1 .. Len(p) /\ DOMAIN x = 1 .. Len(x) /\ DOMAIN (p \o x) = 1 .. Len(p) + Len(x)
      /\ \A i \in 1 .. Len(p) + Len(x) :
           (p \o x)[i] = IF i <= Len(p) THEN p[i] ELSE x[i - Len(p)]
  OBVIOUS
<1>2. \A i \in DOMAIN p : i \in DOMAIN (p \o x) /\ (p \o x)[i] = p[i]
  BY <1>1
<1>3. \A i \in DOMAIN (p \o x) : \/ i \in DOMAIN p
                                 \/ i - Len(p) \in DOMAIN x /\ (p \o x)[i] = x[i - Len(p)]
  BY <1>1
<1>4. \A i \in DOMAIN x : i + Len(p) \in DOMAIN (p \o x) /\ (p \o x)[i + Len(p)] = x[i]
  BY <1>1
<1>5. Range(p \o x) = Range(p) \cup Range(x)
  <2>1. ASSUME NEW l \in Range(p \o x) PROVE l \in Range(p) \cup Range(x)
    BY <1>2, <1>3 DEF Range
  <2>2. ASSUME NEW l \in Range(p) PROVE l \in Range(p \o x)
    BY <1>2 DEF Range
  <2>3. ASSUME NEW l \in Range(x) PROVE l \in Range(p \o x)
    BY <1>4 DEF Range
  <2> QED BY <2>1, <2>2, <2>3
<1> QED BY <1>1, <1>2, <1>3, <1>4, <1>5


\* The conversation and the records.
TalkTyped ==
  /\ foreign \in Peers /\ sess \in [End -> Session] /\ wire \in [End -> Seq(Line)]
  /\ cut \in BOOLEAN /\ flawed \in BOOLEAN
  /\ sessions \in 0 .. MaxSessions /\ faults \in 0 .. MaxFaults
  /\ \A e \in End : Worded(wire[e]) /\ Loaded(sess[e])

RecordsTyped ==
  /\ store \in [End -> [Msg -> Statuses]] /\ path \in [End -> [Msg -> SUBSET End]]
  /\ granted \in [End -> SUBSET Msg]

LEMMA TypeHalves == TypeInv <=> TalkTyped /\ RecordsTyped
BY DEF TypeInv, TypeOK, TalkTyped, RecordsTyped

LEMMA TypeHalvesNext == TypeInv' <=> TalkTyped' /\ RecordsTyped'
BY DEF TypeInv, TypeOK, TalkTyped, RecordsTyped

LEMMA HeardIs == \A e \in End : Heard(e) = First(wire[Other(e)])
BY DEF Heard, First

\* What e's wire is after it has written.
Said(e, lines) == IF cut \/ sess[Other(e)].at = "idle" THEN wire[e] ELSE wire[e] \o lines

LEMMA Writes ==
  ASSUME TalkTyped, NEW e \in End, NEW s, NEW lines, Write(e, s, lines)
  PROVE  /\ sess' = [sess EXCEPT ![e] = s]
         /\ sess'[e] = s /\ sess'[Other(e)] = sess[Other(e)]
         /\ wire'[e] = Said(e, lines) /\ wire'[Other(e)] = wire[Other(e)]
         /\ wire' = [wire EXCEPT ![e] = Said(e, lines)]
         /\ cut' = cut /\ foreign' = foreign /\ flawed' = flawed
         /\ sessions' = sessions /\ faults' = faults
<1>1. Other(e) \in End /\ Other(e) # e
  BY Ends
<1> QED BY <1>1 DEF Write, Sent, Said, TalkTyped

LEMMA Reads ==
  ASSUME TalkTyped, NEW e \in End, NEW s, NEW lines, Read(e, s, lines)
  PROVE  /\ sess' = [sess EXCEPT ![e] = s]
         /\ sess'[e] = s /\ sess'[Other(e)] = sess[Other(e)]
         /\ wire'[e] = Said(e, lines) /\ wire'[Other(e)] = Rest(wire[Other(e)])
         /\ wire' = [wire EXCEPT ![e] = Said(e, lines), ![Other(e)] = Rest(@)]
         /\ cut' = cut /\ foreign' = foreign /\ flawed' \in BOOLEAN
         /\ sessions' = sessions /\ faults' = faults
<1>1. Other(e) \in End /\ Other(e) # e
  BY Ends
<1>2. flawed' \in BOOLEAN
  BY Zenon DEF Read, TalkTyped
<1> QED BY <1>1, <1>2 DEF Read, Sent, Said, Rest, TalkTyped

LEMMA SaidFacts ==
  ASSUME TalkTyped, NEW e \in End, NEW lines \in Seq(Line), Worded(lines)
  PROVE  Said(e, lines) \in Seq(Line) /\ Worded(Said(e, lines))
<1>1. wire[e] \in Seq(Line) /\ Worded(wire[e])
  BY DEF TalkTyped
<1>2. wire[e] \o lines \in Seq(Line) /\ Range(wire[e] \o lines) = Range(wire[e]) \cup Range(lines)
  BY <1>1, Joined
<1> QED BY <1>1, <1>2 DEF Said, Worded

LEMMA TalkKept ==
  ASSUME TalkTyped, NEW e \in End, NEW s \in Session, Loaded(s), NEW lines \in Seq(Line), Worded(lines),
         Write(e, s, lines) \/ Read(e, s, lines)
  PROVE  TalkTyped'
<1>1. Other(e) \in End /\ \A x \in End : x = e \/ x = Other(e)
  BY Ends
<1>2. Said(e, lines) \in Seq(Line) /\ Worded(Said(e, lines))
  BY SaidFacts
<1>3. wire[Other(e)] \in Seq(Line) /\ Worded(wire[Other(e)]) /\ Loaded(sess[Other(e)])
  BY <1>1 DEF TalkTyped
<1>4. Rest(wire[Other(e)]) \in Seq(Line) /\ Worded(Rest(wire[Other(e)]))
  BY <1>3, RestFacts DEF Worded
<1>5. /\ sess' = [sess EXCEPT ![e] = s] /\ foreign' = foreign
      /\ cut' = cut /\ flawed' \in BOOLEAN /\ sessions' = sessions /\ faults' = faults
      /\ wire' = [wire EXCEPT ![e] = Said(e, lines)]
         \/ wire' = [wire EXCEPT ![e] = Said(e, lines), ![Other(e)] = Rest(@)]
      /\ sess'[e] = s /\ sess'[Other(e)] = sess[Other(e)] /\ wire'[e] = Said(e, lines)
      /\ wire'[Other(e)] = wire[Other(e)] \/ wire'[Other(e)] = Rest(wire[Other(e)])
  <2>1. CASE Write(e, s, lines)
    <3>1. flawed \in BOOLEAN
      BY Zenon DEF TalkTyped
    <3>2. /\ sess' = [sess EXCEPT ![e] = s] /\ wire' = [wire EXCEPT ![e] = Said(e, lines)]
          /\ sess'[e] = s /\ sess'[Other(e)] = sess[Other(e)]
          /\ wire'[e] = Said(e, lines) /\ wire'[Other(e)] = wire[Other(e)]
          /\ cut' = cut /\ foreign' = foreign /\ flawed' = flawed
          /\ sessions' = sessions /\ faults' = faults
      BY <2>1, Writes, ZenonT(60)
    <3> QED BY <3>1, <3>2, ZenonT(60)
  <2>2. CASE Read(e, s, lines)
    BY <2>2, Reads, Zenon
  <2> QED BY <2>1, <2>2
<1>6. sess' \in [End -> Session] /\ wire' \in [End -> Seq(Line)]
  BY <1>1, <1>2, <1>4, <1>5 DEF TalkTyped
<1>7. ASSUME NEW x \in End PROVE Worded(wire'[x]) /\ Loaded(sess'[x])
  <2>1. x = e \/ x = Other(e)
    BY <1>1
  <2>2. Worded(wire'[e]) /\ Loaded(sess'[e])
    BY <1>2, <1>5
  <2>3. Worded(wire'[Other(e)]) /\ Loaded(sess'[Other(e)])
    BY <1>3, <1>4, <1>5
  <2> QED BY <2>1, <2>2, <2>3
<1> QED BY <1>5, <1>6, <1>7 DEF TalkTyped, Worded, Loaded

LEMMA NothingWorded == <<>> \in Seq(Line) /\ Worded(<<>>) /\ Range(<<>>) = {}
BY DEF Worded, Range

LEMMA OneLine ==
  ASSUME NEW l \in Line
  PROVE  <<l>> \in Seq(Line) /\ Range(<<l>>) = {l} /\ Len(<<l>>) = 1
BY DEF Range

LEMMA PromptLines ==
  LET x == <<Text("SID"), Text(">")>> IN
  /\ x \in Seq(Line) /\ Worded(x) /\ Range(x) = {Text("SID"), Text(">")}
  /\ x[1] = Text("SID") /\ x[2] = Text(">") /\ Len(x) = 2
<1> DEFINE a == Text("SID")
           b == Text(">")
<1>1. a \in Line /\ a.kind = "SID" /\ b \in Line /\ b.kind = ">" /\ a.answers = <<>> /\ b.answers = <<>>
  BY TextLines
<1> HIDE DEF a, b
<1>2. <<a, b>> \in Seq(Line) /\ Range(<<a, b>>) = {a, b}
  BY <1>1 DEF Range
<1> QED BY <1>1, <1>2 DEF Worded, a, b

LEMMA ProposalLines ==
  ASSUME NEW out \in Seq(Msg)
  PROVE  /\ Proposals(out) \in Seq(Line) /\ Worded(Proposals(out))
         /\ \A l \in Range(Proposals(out)) : l.kind \in {"FB", "FF"} /\ l.answers = <<>>
         /\ Len(Proposals(out)) = Len(out) + 1 /\ Len(out) \in Nat
         /\ \A i \in DOMAIN out : i \in DOMAIN Proposals(out) /\ Proposals(out)[i] = FB(out[i])
         /\ Proposals(out)[Len(out) + 1] = Text("FF")
         /\ Text("FF") \in Range(Proposals(out))
<1> DEFINE x == [i \in DOMAIN out |-> FB(out[i])]
           y == <<Text("FF")>>
           n == Len(out)
<1>1. Text("FF") \in Line /\ Text("FF").kind = "FF" /\ Text("FF").answers = <<>>
  BY TextLines
<1>2. ASSUME NEW i \in DOMAIN out
      PROVE  /\ FB(out[i]) \in Line /\ FB(out[i]).kind = "FB"
             /\ FB(out[i]).msg \in Msg /\ FB(out[i]).answers = <<>>
  <2>1. out[i] \in Msg
    OBVIOUS
  <2> QED BY <2>1, TextLines
<1>3. n \in Nat /\ DOMAIN out = 1 .. n
  OBVIOUS
<1>4. DOMAIN x = 1 .. n /\ \A i \in 1 .. n : x[i] = FB(out[i])
  BY <1>3
<1>5. x \in Seq(Line) /\ Len(x) = n
  BY <1>2, <1>3, <1>4
<1>6. y \in Seq(Line) /\ Range(y) = {Text("FF")} /\ Len(y) = 1 /\ y[1] = Text("FF")
  BY <1>1, OneLine
<1>7. \A l \in Range(x) : l.kind = "FB" /\ l.msg \in Msg /\ l.answers = <<>>
  BY <1>2, <1>3, <1>4 DEF Range
<1> HIDE DEF x, y, n
<1>8. /\ x \o y \in Seq(Line) /\ Range(x \o y) = Range(x) \cup Range(y)
      /\ Len(x \o y) = Len(x) + Len(y)
      /\ \A i \in DOMAIN x : i \in DOMAIN (x \o y) /\ (x \o y)[i] = x[i]
  BY <1>5, <1>6, Joined
<1>9. (x \o y)[n + 1] = Text("FF")
  <2>1. 1 \in DOMAIN y
    BY <1>6
  <2>2. (x \o y)[1 + Len(x)] = y[1]
    BY <1>5, <1>6, <2>1, Joined
  <2>3. 1 + Len(x) = n + 1
    BY <1>3, <1>5
  <2> QED BY <1>6, <2>2, <2>3
<1>10. Proposals(out) = x \o y
  BY DEF Proposals, x, y
<1>11. \A l \in Range(x \o y) : \/ l.kind = "FB" /\ l.msg \in Msg /\ l.answers = <<>>
                                \/ l = Text("FF")
  BY <1>6, <1>7, <1>8, Zenon
<1>12. /\ \A l \in Range(x \o y) : l.kind \in {"FB", "FF"} /\ l.answers = <<>>
       /\ Worded(x \o y)
  BY <1>1, <1>11 DEF Worded
<1>13. Len(x \o y) = n + 1
  BY <1>5, <1>6, <1>8
<1>14. \A i \in DOMAIN out : i \in DOMAIN (x \o y) /\ (x \o y)[i] = FB(out[i])
  BY <1>3, <1>4, <1>8
<1>15. Text("FF") \in Range(x \o y)
  BY <1>6, <1>8
<1>16. n = Len(out)
  BY DEF n
<1> HIDE DEF Proposals
<1> QED BY <1>3, <1>8, <1>9, <1>10, <1>12, <1>13, <1>14, <1>15, <1>16

LEMMA Halves ==
  ASSUME TypeInv, NEW e \in End
  PROVE  /\ TalkTyped /\ RecordsTyped /\ Other(e) \in End /\ Other(e) # e
         /\ sess[e] \in Session /\ Loaded(sess[e]) /\ sess[Other(e)] \in Session
         /\ wire[e] \in Seq(Line) /\ wire[Other(e)] \in Seq(Line)
         /\ Worded(wire[e]) /\ Worded(wire[Other(e)])
         /\ store[e] \in [Msg -> Statuses] /\ store[Other(e)] \in [Msg -> Statuses]
         /\ path[e] \in [Msg -> SUBSET End] /\ granted[e] \in SUBSET Msg /\ granted[Other(e)] \in SUBSET Msg
         /\ Heard(e) \in Line /\ Heard(e) = First(wire[Other(e)])
         /\ Heard(e).kind \in {"FB", "BLOCK"} => Heard(e).msg \in Msg
         /\ Heard(e).kind # "FS" => Heard(e).answers = <<>>
<1>1. TalkTyped /\ RecordsTyped /\ Other(e) \in End /\ Other(e) # e
  BY TypeHalves, Ends
<1>2. /\ sess[e] \in Session /\ Loaded(sess[e]) /\ sess[Other(e)] \in Session
      /\ wire[e] \in Seq(Line) /\ wire[Other(e)] \in Seq(Line)
      /\ Worded(wire[e]) /\ Worded(wire[Other(e)])
  BY <1>1 DEF TalkTyped
<1>3. /\ store[e] \in [Msg -> Statuses] /\ store[Other(e)] \in [Msg -> Statuses]
      /\ path[e] \in [Msg -> SUBSET End] /\ granted[e] \in SUBSET Msg /\ granted[Other(e)] \in SUBSET Msg
  BY <1>1 DEF RecordsTyped
<1>4. Heard(e) = First(wire[Other(e)])
  BY HeardIs
<1>5. First(wire[Other(e)]) \in Line
  BY <1>2, RestFacts
<1>6. /\ Heard(e).kind \in {"FB", "BLOCK"} => Heard(e).msg \in Msg
      /\ Heard(e).kind # "FS" => Heard(e).answers = <<>>
  <2>1. CASE wire[Other(e)] = <<>>
    BY <1>2, <1>4, <2>1, RestFacts
  <2>2. CASE wire[Other(e)] # <<>>
    <3>1. First(wire[Other(e)]) \in Range(wire[Other(e)])
      BY <1>2, <2>2, RestFacts
    <3> QED BY <1>2, <1>4, <3>1 DEF Worded
  <2> QED BY <2>1, <2>2
<1> QED BY <1>1, <1>2, <1>3, <1>4, <1>5, <1>6

LEMMA Moved ==
  ASSUME NEW s \in Session, NEW a \in Stages
  PROVE  LET r == [s EXCEPT !.at = a] IN
         r \in Session /\ r.at = a /\ r.out = s.out /\ r.ok = s.ok /\ r.inc = s.inc
BY DEF Session

LEMMA QuietTypes ==
  ASSUME TypeInv, NEW e \in End, NEW s \in Session, Loaded(s), NEW lines \in Seq(Line), Worded(lines),
         Write(e, s, lines) \/ Read(e, s, lines), UNCHANGED records
  PROVE  TypeInv'
<1>1. TalkTyped /\ RecordsTyped
  BY TypeHalves
<1>2. TalkTyped'
  BY <1>1, TalkKept
<1>3. RecordsTyped'
  BY <1>1 DEF RecordsTyped, records
<1> QED BY <1>2, <1>3, TypeHalvesNext

LEMMA ConnectTypes ==
  ASSUME TypeInv, Connect
  PROVE  TypeInv'
<1>1. TalkTyped /\ RecordsTyped
  BY TypeHalves
<1>2. sessions' \in 0 .. MaxSessions /\ faults' \in 0 .. MaxFaults /\ foreign' \in Peers
      /\ cut' \in BOOLEAN /\ flawed' \in BOOLEAN
  <2>1. sessions' \in 0 .. MaxSessions
    BY <1>1, ForwardAssumption DEF Connect, TalkTyped
  <2>2. faults' = faults /\ foreign' = foreign /\ cut' = FALSE /\ flawed' = FALSE
    BY Zenon DEF Connect
  <2> QED BY <1>1, <2>1, <2>2 DEF TalkTyped
<1>3. sess' \in [End -> Session]
  <2>1. ASSUME NEW e \in End
        PROVE  [at |-> Opening(e), out |-> <<>>, ok |-> <<>>, inc |-> <<>>] \in Session
    <3>1. Opening(e) \in Stages
      BY DEF Opening, Stages
    <3>2. <<>> \in Seq(Msg)
      OBVIOUS
    <3> QED BY <3>1, <3>2 DEF Session
  <2> QED BY <2>1 DEF Connect
<1>4. Text("SID") \in Line /\ Text("SID").kind = "SID" /\ Text("SID").answers = <<>>
  BY TextLines
<1>5. <<Text("SID")>> \in Seq(Line) /\ Worded(<<Text("SID")>>)
  <2> DEFINE a == Text("SID")
  <2>1. a \in Line /\ a.kind = "SID" /\ a.answers = <<>>
    BY <1>4
  <2> HIDE DEF a
  <2>2. <<a>> \in Seq(Line) /\ Range(<<a>>) = {a}
    BY <2>1, OneLine
  <2>3. Worded(<<a>>)
    BY <2>1, <2>2 DEF Worded
  <2> QED BY <2>2, <2>3 DEF a
<1>6. wire' = [e \in End |-> IF e = "caller" THEN <<Text("SID")>> ELSE <<>>]
  BY DEF Connect
<1>7. wire' \in [End -> Seq(Line)] /\ \A e \in End : Worded(wire'[e])
  BY <1>5, <1>6, NothingWorded, Zenon
<1>8. \A e \in End : Loaded(sess'[e])
  BY DEF Connect, Loaded, Opening
<1>9. TalkTyped'
  BY <1>2, <1>3, <1>7, <1>8 DEF TalkTyped, Worded, Loaded
<1>10. RecordsTyped'
  BY <1>1 DEF Connect, RecordsTyped, records
<1> QED BY <1>9, <1>10, TypeHalvesNext

LEMMA ReadSIDTypes ==
  ASSUME TypeInv, NEW e \in End, ReadSID(e)
  PROVE  TypeInv'
<1>1. sess[e] \in Session
  BY Halves
<1> DEFINE S(a) == [sess[e] EXCEPT !.at = a]
<1>2. \A a \in {"prompt", "idle", "propose"} : S(a) \in Session /\ Loaded(S(a))
  BY <1>1, Moved, ZenonT(60) DEF Stages, Loaded
<1>3. \/ Read(e, S("prompt"), <<>>) \/ Read(e, S("idle"), <<>>)
      \/ Read(e, S("propose"), <<Text("SID"), Text(">")>>)
  BY DEF ReadSID
<1>4. UNCHANGED records
  BY DEF ReadSID
<1> HIDE DEF S
<1> QED BY <1>2, <1>3, <1>4, NothingWorded, PromptLines, QuietTypes

LEMMA AwaitPromptTypes ==
  ASSUME TypeInv, NEW e \in End, AwaitPrompt(e)
  PROVE  TypeInv'
<1>1. sess[e] \in Session /\ sess[e].at = "prompt"
  BY Halves DEF AwaitPrompt
<1>2. PICK a \in {"prompt", "idle", "propose"} : Read(e, [sess[e] EXCEPT !.at = a], <<>>)
  BY <1>1 DEF AwaitPrompt
<1>3. [sess[e] EXCEPT !.at = a] \in Session /\ Loaded([sess[e] EXCEPT !.at = a])
  BY <1>1, Moved, ZenonT(60) DEF Stages, Loaded
<1>4. UNCHANGED records
  BY DEF AwaitPrompt
<1> QED BY <1>2, <1>3, <1>4, NothingWorded, QuietTypes

LEMMA SelectedFacts == \A e \in End : Selected(e) \in SUBSET Msg
BY DEF Selected

LEMMA ProposeTypes ==
  ASSUME TypeInv, NEW e \in End, Propose(e)
  PROVE  TypeInv'
<1> DEFINE out == Ordered(Selected(e))
           s == [sess[e] EXCEPT !.at = "answer", !.out = out]
<1>1. out \in Seq(Msg)
  BY SelectedFacts, Listing
<1>2. Write(e, s, Proposals(out)) /\ UNCHANGED records
  BY DEF Propose
<1> HIDE DEF out
<1>3. s \in Session /\ Loaded(s)
  <2>1. sess[e] \in Session
    BY Halves
  <2> QED BY <1>1, <2>1 DEF Session, Stages, Loaded
<1>4. Proposals(out) \in Seq(Line) /\ Worded(Proposals(out))
  BY <1>1, ProposalLines
<1> HIDE DEF s
<1> QED BY <1>2, <1>3, <1>4, QuietTypes

LEMMA AcceptedFacts ==
  ASSUME NEW out \in Seq(Msg), NEW as
  PROVE  LET A == {out[i] : i \in {j \in DOMAIN out : j <= Len(as) /\ as[j] = "+"}} IN
         A \in SUBSET Msg /\ Accepted(out, as) = Ordered(A)
<1> DEFINE A == {out[i] : i \in {j \in DOMAIN out : j <= Len(as) /\ as[j] = "+"}}
<1>1. A \in SUBSET Msg
  BY \A i \in DOMAIN out : out[i] \in Msg
<1>2. Accepted(out, as) = Ordered(A)
  BY Zenon DEF Accepted
<1> QED BY <1>1, <1>2

LEMMA ReadAnswerTypes ==
  ASSUME TypeInv, NEW e \in End, ReadAnswer(e)
  PROVE  TypeInv'
<1> DEFINE ok == Accepted(sess[e].out, Heard(e).answers)
           a == IF e \in foreign THEN "send" ELSE "proposals"
           s == [sess[e] EXCEPT !.at = a, !.ok = ok]
<1>1. sess[e] \in Session /\ sess[e].out \in Seq(Msg)
  BY Halves DEF Session
<1>2. ok \in Seq(Msg)
  <2> DEFINE A == {sess[e].out[i] : i \in {j \in DOMAIN sess[e].out :
                     j <= Len(Heard(e).answers) /\ Heard(e).answers[j] = "+"}}
  <2>1. A \in SUBSET Msg /\ ok = Ordered(A)
    BY <1>1, AcceptedFacts, Zenon
  <2> HIDE DEF A, ok
  <2> QED BY <2>1, Listing
<1>3. Read(e, s, <<>>) /\ UNCHANGED records
  BY DEF ReadAnswer
<1>4. a \in {"send", "proposals"}
  OBVIOUS
<1> HIDE DEF ok, a
<1>5. s \in Session /\ Loaded(s)
  BY <1>1, <1>2, <1>4 DEF Session, Stages, Loaded
<1> HIDE DEF s
<1> QED BY <1>3, <1>5, NothingWorded, QuietTypes

LEMMA HearProposalTypes ==
  ASSUME TypeInv, NEW e \in End, HearProposal(e)
  PROVE  TypeInv'
<1> DEFINE inc == Append(sess[e].inc, Heard(e).msg)
           s == [sess[e] EXCEPT !.inc = inc]
<1>1. sess[e] \in Session /\ sess[e].inc \in Seq(Msg) /\ sess[e].at = "proposals"
  BY Halves DEF Session, HearProposal
<1>2. Heard(e).msg \in Msg
  BY Halves DEF HearProposal
<1>3. inc \in Seq(Msg)
  BY <1>1, <1>2
<1>4. Read(e, s, <<>>) /\ UNCHANGED records
  BY DEF HearProposal
<1> HIDE DEF inc
<1>5. s \in Session /\ Loaded(s)
  BY <1>1, <1>3 DEF Session, Stages, Loaded
<1> HIDE DEF s
<1> QED BY <1>4, <1>5, NothingWorded, QuietTypes

LEMMA HearOtherTypes ==
  ASSUME TypeInv, NEW e \in End, HearOther(e)
  PROVE  TypeInv'
<1>1. Read(e, sess[e], <<>>) /\ UNCHANGED records /\ sess[e] \in Session /\ Loaded(sess[e])
  BY Halves DEF HearOther
<1> QED BY <1>1, NothingWorded, QuietTypes

LEMMA RecordTypes ==
  ASSUME TypeInv, NEW e \in End, NEW s \in Session, Loaded(s), NEW lines \in Seq(Line), Worded(lines),
         Write(e, s, lines) \/ Read(e, s, lines), RecordsTyped'
  PROVE  TypeInv'
<1>1. TalkTyped
  BY TypeHalves
<1>2. TalkTyped'
  BY <1>1, TalkKept
<1> QED BY <1>2, TypeHalvesNext

LEMMA WantedFacts ==
  ASSUME TypeInv, NEW e \in End
  PROVE  /\ Wanted(e) \in Seq(Msg)
         /\ Range(Wanted(e)) = {m \in Range(sess[e].inc) : AnswerTo(e, m) = "+"}
<1> DEFINE inc == sess[e].inc
           I == {i \in DOMAIN inc : AnswerTo(e, inc[i]) = "+"}
           kept == Ordered(I)
           W == {m \in Range(inc) : AnswerTo(e, m) = "+"}
<1>1. inc \in Seq(Msg)
  BY Halves DEF Session
<1>2. Wanted(e) = [k \in DOMAIN kept |-> inc[kept[k]]]
  BY DEF Wanted
<1>3. /\ \A i : i \in I <=> i \in DOMAIN inc /\ AnswerTo(e, inc[i]) = "+"
      /\ \A m : m \in W <=> m \in Range(inc) /\ AnswerTo(e, m) = "+"
  OBVIOUS
<1> HIDE DEF inc, I, W
<1>4. DOMAIN inc = 1 .. Len(inc) /\ Len(inc) \in Nat /\ \A i \in DOMAIN inc : inc[i] \in Msg
  BY <1>1
<1>5. I \in SUBSET Nat /\ IsFiniteSet(I)
  <2>1. IsFiniteSet(1 .. Len(inc))
    BY <1>4, FS_Interval
  <2>2. I \in SUBSET (1 .. Len(inc))
    BY <1>3, <1>4
  <2>3. IsFiniteSet(I)
    BY <2>1, <2>2, FS_Subset
  <2> QED BY <1>4, <2>2, <2>3
<1>6. kept \in Seq(I) /\ Range(kept) = I
  BY <1>5, OrderedFacts
<1> HIDE DEF kept
<1>7. DOMAIN kept = 1 .. Len(kept) /\ Len(kept) \in Nat /\ \A k \in DOMAIN kept : kept[k] \in I
  BY <1>6
<1> DEFINE q == [k \in DOMAIN kept |-> inc[kept[k]]]
<1>8. q \in Seq(Msg)
  <2>1. q \in [1 .. Len(kept) -> Msg]
    BY <1>3, <1>4, <1>7
  <2> HIDE DEF q
  <2> QED BY <1>7, <2>1
<1>9. Range(q) = W
  <2>1. ASSUME NEW m \in W PROVE m \in Range(q)
    <3>1. PICK i \in DOMAIN inc : inc[i] = m
      BY <1>3 DEF Range
    <3>2. i \in I
      BY <1>3, <3>1
    <3>3. PICK k \in DOMAIN kept : kept[k] = i
      BY <1>6, <3>2 DEF Range
    <3>4. k \in DOMAIN q /\ q[k] = m
      BY <3>1, <3>3
    <3> QED BY <3>4 DEF Range
  <2>2. ASSUME NEW m \in Range(q) PROVE m \in W
    <3>1. PICK k \in DOMAIN q : q[k] = m
      BY DEF Range
    <3>2. kept[k] \in I /\ m = inc[kept[k]]
      BY <1>7, <3>1
    <3>3. m \in Range(inc) /\ AnswerTo(e, m) = "+"
      BY <1>3, <3>2 DEF Range
    <3> QED BY <1>3, <3>3
  <2> QED BY <2>1, <2>2
<1> QED BY <1>2, <1>8, <1>9 DEF W, inc

LEMMA ResponseFacts ==
  ASSUME TypeInv, NEW e \in End
  PROVE  LET as == Responses(e) IN
         /\ as \in Seq(Answers) /\ Len(as) = Len(sess[e].inc)
         /\ \A i \in DOMAIN sess[e].inc : as[i] = AnswerTo(e, sess[e].inc[i])
         /\ FS(as) \in Line /\ FS(as).kind = "FS" /\ FS(as).answers = as
         /\ <<FS(as)>> \in Seq(Line) /\ Range(<<FS(as)>>) = {FS(as)} /\ Worded(<<FS(as)>>)
<1> DEFINE as == Responses(e)
           inc == sess[e].inc
<1>1. inc \in Seq(Msg)
  BY Halves DEF Session
<1>2. \A m \in Msg : AnswerTo(e, m) \in Answers
  BY DEF AnswerTo, Answers
<1>3. as = [i \in DOMAIN inc |-> AnswerTo(e, inc[i])]
  BY DEF Responses
<1> HIDE DEF as, inc
<1>4. DOMAIN inc = 1 .. Len(inc) /\ Len(inc) \in Nat /\ \A i \in DOMAIN inc : inc[i] \in Msg
  BY <1>1
<1>5. as \in [1 .. Len(inc) -> Answers]
  BY <1>2, <1>3, <1>4
<1>6. as \in Seq(Answers) /\ Len(as) = Len(inc)
  <2>1. \A n \in Nat : \A q \in [1 .. n -> Answers] : q \in Seq(Answers) /\ Len(q) = n
    OBVIOUS
  <2> QED BY <1>4, <1>5, <2>1
<1>7. FS(as) \in Line /\ FS(as).kind = "FS" /\ FS(as).answers = as
  BY <1>6, TextLines
<1>8. <<FS(as)>> \in Seq(Line) /\ Range(<<FS(as)>>) = {FS(as)}
  BY <1>7, OneLine
<1>9. Worded(<<FS(as)>>)
  BY <1>7, <1>8 DEF Worded
<1> QED BY <1>3, <1>6, <1>7, <1>8, <1>9 DEF as, inc

LEMMA GrantsTyped ==
  ASSUME TypeInv, NEW e \in End, granted' = Grants(e), UNCHANGED <<store, path>>
  PROVE  RecordsTyped'
<1>1. RecordsTyped /\ Other(e) \in End
  BY TypeHalves, Ends
<1>2. Range(Wanted(e)) \subseteq Msg
  <2>1. Wanted(e) \in Seq(Msg)
    BY WantedFacts
  <2> QED BY <2>1 DEF Range
<1> QED BY <1>1, <1>2 DEF RecordsTyped, Grants

LEMMA RespondTypes ==
  ASSUME TypeInv, NEW e \in End, Respond(e)
  PROVE  TypeInv'
<1> DEFINE s == [sess[e] EXCEPT !.at = "send", !.inc = Wanted(e)]
           x == IF sess[e].inc = <<>> THEN <<>> ELSE <<FS(Responses(e))>>
<1>1. Read(e, s, x) /\ granted' = Grants(e) /\ UNCHANGED <<store, path>>
  BY Zenon DEF Respond
<1>2. RecordsTyped'
  BY <1>1, GrantsTyped
<1>3. sess[e] \in Session /\ Wanted(e) \in Seq(Msg)
  BY Halves, WantedFacts
<1>4. s \in Session /\ Loaded(s)
  BY <1>3 DEF Session, Stages, Loaded
<1>5. x \in Seq(Line) /\ Worded(x)
  <2>1. <<FS(Responses(e))>> \in Seq(Line) /\ Worded(<<FS(Responses(e))>>)
    BY ResponseFacts
  <2> QED BY <2>1, NothingWorded, Zenon
<1> HIDE DEF s, x
<1> QED BY <1>1, <1>2, <1>4, <1>5, RecordTypes

LEMMA SendTypes ==
  ASSUME TypeInv, NEW e \in End, Send(e)
  PROVE  TypeInv'
<1> DEFINE s == [sess[e] EXCEPT !.at = "record"]
           l == Block(Head(sess[e].ok))
<1>1. Write(e, s, <<l>>) /\ UNCHANGED records /\ sess[e].ok # <<>>
  BY DEF Send
<1>2. sess[e] \in Session /\ sess[e].ok \in Seq(Msg)
  BY Halves DEF Session
<1>3. s \in Session /\ Loaded(s)
  BY <1>1, <1>2, Moved DEF Stages, Loaded
<1>4. Head(sess[e].ok) \in Msg
  BY <1>1, <1>2
<1>5. l \in Line /\ l.kind = "BLOCK" /\ l.msg \in Msg /\ l.answers = <<>>
  BY <1>4, TextLines
<1> HIDE DEF s, l
<1>6. <<l>> \in Seq(Line) /\ Range(<<l>>) = {l}
  BY <1>5, OneLine
<1>7. Worded(<<l>>)
  BY <1>5, <1>6 DEF Worded
<1> QED BY <1>1, <1>3, <1>6, <1>7, QuietTypes

LEMMA RecordStepTypes ==
  ASSUME TypeInv, NEW e \in End, Record(e)
  PROVE  TypeInv'
<1> DEFINE m == Head(sess[e].ok)
           rest == Tail(sess[e].ok)
           s == [sess[e] EXCEPT !.at = "send", !.ok = rest]
<1>1. /\ Write(e, s, <<>>) /\ granted' = granted /\ sess[e].at = "record"
      /\ store' = [store EXCEPT ![e][m] = "F"] /\ path' = [path EXCEPT ![e][m] = @ \cup {e}]
  BY DEF Record
<1>2. sess[e] \in Session /\ sess[e].ok \in Seq(Msg) /\ sess[e].ok # <<>>
  BY <1>1, Halves DEF Session, Loaded
<1>3. rest \in Seq(Msg) /\ m \in Msg
  BY <1>2
<1> HIDE DEF m, rest
<1>4. s \in Session /\ Loaded(s)
  BY <1>2, <1>3 DEF Session, Stages, Loaded
<1>5. RecordsTyped'
  <2>1. RecordsTyped
    BY TypeHalves
  <2>2. store' \in [End -> [Msg -> Statuses]]
    BY <1>1, <1>3, <2>1 DEF RecordsTyped, Statuses
  <2>3. path' \in [End -> [Msg -> SUBSET End]]
    <3>1. path[e] \in [Msg -> SUBSET End] /\ path[e][m] \cup {e} \in SUBSET End
      BY <1>3, <2>1 DEF RecordsTyped
    <3> QED BY <1>1, <1>3, <2>1, <3>1 DEF RecordsTyped
  <2> QED BY <1>1, <2>1, <2>2, <2>3 DEF RecordsTyped
<1> HIDE DEF s
<1> QED BY <1>1, <1>4, <1>5, NothingWorded, RecordTypes

LEMMA ReceiveTypes ==
  ASSUME TypeInv, NEW e \in End, Receive(e)
  PROVE  TypeInv'
<1> DEFINE m == Heard(e).msg
           rest == Tail(sess[e].inc)
           s == [sess[e] EXCEPT !.at = "path", !.ok = <<m>>, !.inc = rest]
           t == [sess[e] EXCEPT !.inc = rest]
<1>1. sess[e] \in Session /\ sess[e].inc \in Seq(Msg) /\ sess[e].inc # <<>> /\ sess[e].at = "send"
  BY Halves DEF Session, Receive
<1>2. rest \in Seq(Msg)
  BY <1>1
<1>3. RecordsTyped /\ path' = path /\ granted' = granted
  BY TypeHalves DEF Receive
<1>4. CASE New(e)
  <2>1. Read(e, s, <<>>) /\ store' = [store EXCEPT ![e][m] = "N"]
    BY <1>4 DEF Receive
  <2>2. m \in Msg
    BY <1>4, Halves DEF New
  <2> HIDE DEF m, rest
  <2> DEFINE one == <<m>>
  <2>5. one \in Seq(Msg) /\ one # <<>>
    BY <2>2
  <2> HIDE DEF one
  <2>6. [sess[e] EXCEPT !.at = "path", !.ok = one, !.inc = rest] \in Session
    BY <1>1, <1>2, <2>5 DEF Session, Stages
  <2>3. s \in Session /\ Loaded(s)
    BY <1>1, <2>5, <2>6 DEF Session, Loaded, one
  <2>4. RecordsTyped'
    BY <1>3, <2>1, <2>2 DEF RecordsTyped, Statuses
  <2> HIDE DEF s
  <2> QED BY <2>1, <2>3, <2>4, NothingWorded, RecordTypes
<1>5. CASE ~New(e)
  <2>1. Read(e, t, <<>>) /\ store' = store
    BY <1>5 DEF Receive
  <2> HIDE DEF m, rest
  <2>2. t \in Session /\ Loaded(t)
    BY <1>1, <1>2 DEF Session, Stages, Loaded
  <2>3. RecordsTyped'
    BY <1>3, <2>1 DEF RecordsTyped
  <2> HIDE DEF t
  <2> QED BY <2>1, <2>2, <2>3, NothingWorded, RecordTypes
<1> QED BY <1>4, <1>5

LEMMA AppendPathTypes ==
  ASSUME TypeInv, NEW e \in End, AppendPath(e)
  PROVE  TypeInv'
<1> DEFINE m == Head(sess[e].ok)
           s == [sess[e] EXCEPT !.at = "send", !.ok = <<>>]
<1>1. /\ Write(e, s, <<>>) /\ UNCHANGED <<store, granted>> /\ sess[e].at = "path"
      /\ path' = [path EXCEPT ![e][m] = @ \cup {Other(e)}]
  BY DEF AppendPath
<1>2. sess[e] \in Session /\ sess[e].ok \in Seq(Msg) /\ sess[e].ok # <<>> /\ Other(e) \in End
  BY <1>1, Halves DEF Session, Loaded
<1>3. m \in Msg /\ <<>> \in Seq(Msg)
  BY <1>2
<1> HIDE DEF m
<1>4. s \in Session /\ Loaded(s)
  BY <1>2, <1>3 DEF Session, Stages, Loaded
<1>5. RecordsTyped'
  <2>1. RecordsTyped
    BY TypeHalves
  <2>2. path[e] \in [Msg -> SUBSET End] /\ path[e][m] \cup {Other(e)} \in SUBSET End
    BY <1>2, <1>3, <2>1 DEF RecordsTyped
  <2>3. path' \in [End -> [Msg -> SUBSET End]]
    BY <1>1, <1>3, <2>1, <2>2 DEF RecordsTyped
  <2> QED BY <1>1, <2>1, <2>3 DEF RecordsTyped
<1> HIDE DEF s
<1> QED BY <1>1, <1>4, <1>5, NothingWorded, RecordTypes

LEMMA FinishTypes ==
  ASSUME TypeInv, NEW e \in End, Finish(e)
  PROVE  TypeInv'
<1> DEFINE s == [sess[e] EXCEPT !.at = "idle"]
           l == Text("FQ")
<1>1. Write(e, s, <<l>>) /\ UNCHANGED records /\ sess[e] \in Session
  BY Halves DEF Finish
<1>2. s \in Session /\ Loaded(s)
  BY <1>1, Moved DEF Stages, Loaded
<1>3. l \in Line /\ l.kind = "FQ" /\ l.answers = <<>>
  BY TextLines
<1> HIDE DEF s, l
<1>4. <<l>> \in Seq(Line) /\ Range(<<l>>) = {l}
  BY <1>3, OneLine
<1>5. Worded(<<l>>)
  BY <1>3, <1>4 DEF Worded
<1> QED BY <1>1, <1>2, <1>4, <1>5, QuietTypes

LEMMA GreetTypes ==
  ASSUME TypeInv, NEW e \in End, Greet(e)
  PROVE  TypeInv'
<1> DEFINE s == [sess[e] EXCEPT !.at = "proposals"]
<1>1. Write(e, s, <<Text("SID"), Text(">")>>) /\ UNCHANGED records /\ sess[e] \in Session
  BY Halves DEF Greet
<1>2. s \in Session /\ Loaded(s)
  BY <1>1, Moved DEF Stages, Loaded
<1> HIDE DEF s
<1> QED BY <1>1, <1>2, PromptLines, QuietTypes

LEMMA ForeignAnswerTypes ==
  ASSUME TypeInv, NEW e \in End, ForeignAnswer(e)
  PROVE  TypeInv'
<1> DEFINE out == Ordered(Selected(e))
           a == IF out = <<>> THEN "send" ELSE "answer"
           s == [sess[e] EXCEPT !.at = a, !.out = out, !.inc = Wanted(e)]
           x == <<FS(Responses(e))>>
           y == Proposals(out)
<1>1. Read(e, s, x \o y) /\ granted' = Grants(e) /\ UNCHANGED <<store, path>>
  BY Zenon DEF ForeignAnswer
<1>2. RecordsTyped'
  BY <1>1, GrantsTyped
<1>3. sess[e] \in Session /\ Wanted(e) \in Seq(Msg)
  BY Halves, WantedFacts
<1>4. out \in Seq(Msg) /\ a \in {"send", "answer"}
  BY SelectedFacts, Listing
<1>5. y \in Seq(Line) /\ Worded(y)
  BY <1>4, ProposalLines
<1>6. x \in Seq(Line) /\ Worded(x)
  BY ResponseFacts
<1> HIDE DEF out, a, x, y
<1>7. s \in Session /\ Loaded(s)
  BY <1>3, <1>4 DEF Session, Stages, Loaded
<1>8. x \o y \in Seq(Line) /\ Worded(x \o y)
  BY <1>5, <1>6, Joined DEF Worded
<1> HIDE DEF s
<1> QED BY <1>1, <1>2, <1>7, <1>8, RecordTypes

LEMMA LeaveTypes ==
  ASSUME TypeInv, NEW e \in End, Leave(e)
  PROVE  TypeInv'
<1> DEFINE s == [sess[e] EXCEPT !.at = "idle"]
<1>1. Read(e, s, <<>>) /\ UNCHANGED records /\ sess[e] \in Session
  BY Halves DEF Leave
<1>2. s \in Session /\ Loaded(s)
  BY <1>1, Moved DEF Stages, Loaded
<1> HIDE DEF s
<1> QED BY <1>1, <1>2, NothingWorded, QuietTypes

LEMMA SendFailsTypes ==
  ASSUME TypeInv, NEW e \in End, SendFails(e)
  PROVE  TypeInv'
<1> DEFINE rest == Tail(sess[e].ok)
           s == [sess[e] EXCEPT !.ok = rest]
<1>1. /\ Write(e, s, <<>>) /\ UNCHANGED records /\ sess[e] \in Session
      /\ sess[e].ok \in Seq(Msg) /\ sess[e].ok # <<>> /\ sess[e].at = "send"
  BY Halves DEF SendFails, Session
<1>2. rest \in Seq(Msg)
  BY <1>1
<1> HIDE DEF rest
<1>3. s \in Session /\ Loaded(s)
  BY <1>1, <1>2 DEF Session, Loaded
<1> HIDE DEF s
<1> QED BY <1>1, <1>3, NothingWorded, QuietTypes

LEMMA Beginnings ==
  ASSUME NEW q \in Seq(Line), NEW p \in Prefixes(q)
  PROVE  /\ p \in Seq(Line) /\ Len(p) <= Len(q) /\ Range(p) \subseteq Range(q)
         /\ \A i \in DOMAIN p : i \in DOMAIN q /\ p[i] = q[i]
<1>1. PICK n \in 0 .. Len(q) : p = SubSeq(q, 1, n)
  BY DEF Prefixes
<1>2. Len(q) \in Nat /\ n \in Nat /\ n <= Len(q) /\ DOMAIN q = 1 .. Len(q)
  OBVIOUS
<1>3. \A i \in 1 .. n : q[i] \in Line
  BY <1>2
<1>4. p \in Seq(Line) /\ Len(p) = n /\ \A i \in 1 .. n : p[i] = q[i]
  BY <1>1, <1>2, <1>3
<1>5. DOMAIN p = 1 .. n
  BY <1>4
<1>6. \A i \in DOMAIN p : i \in DOMAIN q /\ p[i] = q[i]
  BY <1>2, <1>4, <1>5
<1>7. Range(p) \subseteq Range(q)
  BY <1>6 DEF Range
<1> QED BY <1>2, <1>4, <1>6, <1>7

LEMMA BreaksFacts ==
  ASSUME TypeInv, Breaks
  PROVE  /\ \A e \in End : wire'[e] \in Prefixes(wire[e])
         /\ \A e \in End : /\ wire'[e] \in Seq(Line) /\ Worded(wire'[e])
         /\ wire' \in [End -> Seq(Line)]
         /\ faults' \in 0 .. MaxFaults /\ cut' = TRUE /\ flawed' = TRUE
         /\ foreign' = foreign /\ sessions' = sessions /\ UNCHANGED records
<1>1. TalkTyped
  BY TypeHalves
<1>2. faults' \in 0 .. MaxFaults
  BY <1>1, ForwardAssumption DEF Breaks, TalkTyped
<1>3. PICK a \in Prefixes(wire["caller"]), b \in Prefixes(wire["called"]) :
        wire' = [e \in End |-> IF e = "caller" THEN a ELSE b]
  BY Zenon DEF Breaks
<1>4. \A e \in End : wire'[e] \in Prefixes(wire[e])
  BY <1>3, Zenon DEF End
<1>5. ASSUME NEW e \in End PROVE wire'[e] \in Seq(Line) /\ Worded(wire'[e])
  <2>1. wire[e] \in Seq(Line) /\ Worded(wire[e]) /\ wire'[e] \in Prefixes(wire[e])
    BY <1>1, <1>4 DEF TalkTyped
  <2> QED BY <2>1, Beginnings DEF Worded
<1>6. wire' \in [End -> Seq(Line)]
  <2>1. DOMAIN wire' = End /\ wire' = [e \in End |-> wire'[e]]
    BY <1>3, Zenon
  <2> QED BY <1>5, <2>1, Zenon
<1>7. cut' = TRUE /\ flawed' = TRUE /\ foreign' = foreign /\ sessions' = sessions /\ UNCHANGED records
  BY Zenon DEF Breaks
<1> QED BY <1>2, <1>4, <1>5, <1>6, <1>7

LEMMA FaultTypes ==
  ASSUME TypeInv, NEW e \in End, Cut \/ Crash(e) \/ Abort(e)
  PROVE  TypeInv'
<1>1. TalkTyped /\ RecordsTyped /\ sess[e] \in Session
  BY Halves
<1>2. [sess[e] EXCEPT !.at = "idle"] \in Session /\ Loaded([sess[e] EXCEPT !.at = "idle"])
  BY <1>1, Moved DEF Stages, Loaded
<1>3. sess' = sess \/ sess' = [sess EXCEPT ![e] = [sess[e] EXCEPT !.at = "idle"]]
  BY DEF Cut, Crash, Abort
<1>4. sess' \in [End -> Session] /\ \A x \in End : Loaded(sess'[x])
  BY <1>1, <1>2, <1>3 DEF TalkTyped
<1>5. /\ wire' \in [End -> Seq(Line)] /\ \A x \in End : Worded(wire'[x])
      /\ faults' \in 0 .. MaxFaults /\ cut' \in BOOLEAN /\ flawed' \in BOOLEAN
      /\ foreign' = foreign /\ sessions' = sessions /\ UNCHANGED records
  <2>1. CASE Breaks
    BY <2>1, BreaksFacts, Zenon
  <2>2. CASE Abort(e)
    <3>1. UNCHANGED <<foreign, records, wire, cut, flawed, sessions, faults>>
      BY <2>2 DEF Abort
    <3> QED BY <1>1, <3>1 DEF TalkTyped, Worded
  <2> QED BY <2>1, <2>2 DEF Cut, Crash
<1>6. TalkTyped'
  BY <1>1, <1>4, <1>5 DEF TalkTyped, Worded, Loaded
<1>7. RecordsTyped'
  BY <1>1, <1>5 DEF RecordsTyped, records
<1> QED BY <1>6, <1>7, TypeHalvesNext

LEMMA StepTypes ==
  ASSUME TypeInv, [Next]_vars
  PROVE  TypeInv'
<1>1. CASE UNCHANGED vars
  BY <1>1 DEF vars, TypeInv, TypeOK, Worded, Loaded
<1>2. CASE Connect
  BY <1>2, ConnectTypes
<1>3. CASE Cut
  <2>1. "caller" \in End
    BY DEF End
  <2> QED BY <1>3, <2>1, FaultTypes
<1>4. ASSUME NEW e \in End,
             \/ Step(e) \/ Greet(e) \/ ForeignAnswer(e) \/ Leave(e)
             \/ Crash(e) \/ Abort(e) \/ SendFails(e)
      PROVE  TypeInv'
  BY <1>4, ReadSIDTypes, AwaitPromptTypes, ProposeTypes, ReadAnswerTypes, HearProposalTypes, HearOtherTypes,
     RespondTypes, SendTypes, RecordStepTypes, ReceiveTypes, AppendPathTypes, FinishTypes, GreetTypes,
     ForeignAnswerTypes, LeaveTypes, FaultTypes, SendFailsTypes DEF Step
<1> QED BY <1>1, <1>2, <1>3, <1>4 DEF Next

LEMMA InitTypes ==
  ASSUME Init
  PROVE  TypeInv
<1>1. \A e \in End : <<>> \in Seq(Msg) /\ Loaded([at |-> "idle", out |-> <<>>, ok |-> <<>>, inc |-> <<>>])
                     /\ [at |-> "idle", out |-> <<>>, ok |-> <<>>, inc |-> <<>>] \in Session
  BY DEF Session, Stages, Loaded
<1>2. sess \in [End -> Session] /\ \A e \in End : Loaded(sess[e])
  BY <1>1 DEF Init
<1>3. wire \in [End -> Seq(Line)] /\ \A e \in End : Worded(wire[e])
  BY NothingWorded DEF Init
<1>4. store \in [End -> [Msg -> Statuses]] /\ path \in [End -> [Msg -> SUBSET End]]
      /\ granted \in [End -> SUBSET Msg]
  BY DEF Init, Statuses
<1>5. sessions \in 0 .. MaxSessions /\ faults \in 0 .. MaxFaults
  BY ForwardAssumption DEF Init
<1>6. foreign \in Peers /\ cut \in BOOLEAN /\ flawed \in BOOLEAN
  BY Zenon DEF Init
<1> QED BY <1>2, <1>3, <1>4, <1>5, <1>6, Zenon DEF TypeInv, TypeOK

(***************************************************************************)
(* Every store, session and line has a value the code gives it: in         *)
(* particular what is proposed, granted, sent and recorded is a message    *)
(* there is, whatever line is read in place of the one awaited.            *)
(***************************************************************************)
THEOREM TypeCorrect == Spec => []TypeOK
<1>1. TypeInv => TypeOK
  BY DEF TypeInv
<1> QED BY <1>1, InitTypes, StepTypes, PTL DEF Spec

-----------------------------------------------------------------------------
(***************************************************************************)
(* What an end does, as seen from its session and the two wires: the line  *)
(* it has before it, whether it reads it, and the lines it says.           *)
(***************************************************************************)
Kinds(q) == {l.kind : l \in Range(q)}

SameMail(s, r) == r.out = s.out /\ r.ok = s.ok /\ r.inc = s.inc

Greeting == <<Text("SID"), Text(">")>>

Silent(lines) == lines = <<>> /\ Kinds(lines) = {}

MovesOpening(e, s, r, k, lines) ==
  \/ s.at = "sid" /\ e = "caller" /\ r.at = "prompt" /\ Silent(lines)
  \/ s.at = "sid" /\ e = "called" /\ k = "" /\ r.at = "idle" /\ Silent(lines)
  \/ s.at = "sid" /\ e = "called" /\ r.at = "propose" /\ lines = Greeting /\ Kinds(lines) = {"SID", ">"}
  \/ s.at = "prompt" /\ k = ">" /\ r.at = "propose" /\ Silent(lines)
  \/ s.at = "prompt" /\ k = "" /\ r.at = "idle" /\ Silent(lines)
  \/ s.at = "prompt" /\ k \notin {"", ">"} /\ r.at = "prompt" /\ Silent(lines)

Asks(e, r, x) ==
  /\ r.out \in Seq(Msg) /\ x = Proposals(r.out)
  /\ \A i \in DOMAIN r.out : store[e][r.out[i]] = "N"

MovesTurn(e, s, r, h, lines) ==
  \/ /\ s.at = "answer" /\ r.at = (IF e \in foreign THEN "send" ELSE "proposals") /\ Silent(lines)
     /\ r.out = s.out /\ r.inc = s.inc /\ r.ok = Accepted(s.out, h.answers)
  \/ /\ s.at = "proposals" /\ r.at = "proposals" /\ Silent(lines) /\ h.kind = "FB"
     /\ r.out = s.out /\ r.ok = s.ok /\ r.inc = Append(s.inc, h.msg)
  \/ /\ s.at = "proposals" /\ r.at = "proposals" /\ Silent(lines)
     /\ h.kind \notin {"FB", "FF", "FQ", ""} /\ SameMail(s, r)
  \/ /\ s.at = "proposals" /\ r.at = "send" /\ e \notin foreign /\ h.kind \in {"FF", "FQ", ""}
     /\ r.out = s.out /\ r.ok = s.ok
     /\ \/ s.inc = <<>> /\ r.inc = <<>> /\ Silent(lines)
        \/ s.inc # <<>> /\ lines = <<FS(Responses(e))>> /\ Kinds(lines) = {"FS"}
  \/ /\ s.at = "proposals" /\ r.at \in {"answer", "send"} /\ e \in foreign /\ h.kind = "FF"
     /\ r.ok = s.ok /\ \E x : Asks(e, r, x) /\ lines = <<FS(Responses(e))>> \o x
     /\ Kinds(lines) \subseteq {"FS", "FB", "FF"}
  \/ /\ s.at = "proposals" /\ r.at = "idle" /\ Silent(lines) /\ SameMail(s, r)
     /\ e \in foreign /\ h.kind \in {"FQ", ""}

MovesMail(s, r, h, lines, reads) ==
  \/ /\ s.at = "send" /\ ~reads /\ r.at = "record" /\ s.ok # <<>> /\ SameMail(s, r)
     /\ lines = <<Block(Head(s.ok))>> /\ Kinds(lines) = {"BLOCK"}
  \/ /\ s.at = "record" /\ ~reads /\ r.at = "send" /\ Silent(lines)
     /\ r.out = s.out /\ r.inc = s.inc /\ r.ok = Tail(s.ok)
  \/ /\ s.at = "send" /\ reads /\ Silent(lines) /\ s.ok = <<>> /\ s.inc # <<>> /\ r.out = s.out
     /\ \/ r.at = "path" /\ h.kind = "BLOCK"
        \/ r.at = "send" /\ r.ok = <<>>
  \/ s.at = "path" /\ ~reads /\ r.at = "send" /\ Silent(lines) /\ r.ok = <<>> /\ r.inc = s.inc
  \/ s.at = "send" /\ ~reads /\ r.at = "idle" /\ Kinds(lines) = {"FQ"} /\ SameMail(s, r)
  \/ s.at = "send" /\ ~reads /\ r.at = "send" /\ Silent(lines) /\ r.ok = Tail(s.ok) /\ s.ok # <<>>
     /\ r.out = s.out /\ r.inc = s.inc

Moves(e, lines, reads) ==
  LET s == sess[e]  r == sess'[e]  h == Heard(e) IN
  \/ reads /\ SameMail(s, r) /\ MovesOpening(e, s, r, h.kind, lines)
  \/ reads /\ MovesTurn(e, s, r, h, lines)
  \/ MovesMail(s, r, h, lines, reads)
  \/ /\ s.at = "propose" /\ ~reads /\ r.at = "answer" /\ r.ok = s.ok /\ r.inc = s.inc
     /\ Asks(e, r, lines) /\ Kinds(lines) \subseteq {"FB", "FF"} /\ "FF" \in Kinds(lines)
  \/ /\ s.at = "greet" /\ ~reads /\ r.at = "proposals" /\ SameMail(s, r)
     /\ lines = Greeting /\ Kinds(lines) = {"SID", ">"}
  \/ s.at # "idle" /\ ~reads /\ r.at = "idle" /\ SameMail(s, r) /\ Silent(lines)

\* What the stores and the grants become of it.
Books(e, o, lines) ==
  /\ store'[o] = store[o] /\ granted'[e] = granted[e]
  /\ \A m \in Msg :
       \/ store'[e][m] = store[e][m]
       \/ sess[e].at = "record" /\ m = Head(sess[e].ok) /\ store'[e][m] = "F"
       \/ /\ sess[e].at = "send" /\ wire[o] # <<>> /\ Heard(e).kind = "BLOCK" /\ m = Heard(e).msg
          /\ sess'[e].at = "path" /\ store'[e][m] = "N"
  /\ granted[o] \subseteq granted'[o]
  /\ "FS" \in Kinds(lines) => granted'[o] = granted[o] \cup Range(Wanted(e))

Frame(e, o, lines, reads) ==
  /\ sess'[e] \in Session /\ sess'[o] = sess[o] /\ lines \in Seq(Line)
  /\ cut' = cut /\ foreign' = foreign
  /\ wire'[e] = Said(e, lines) /\ wire'[o] = IF reads THEN Rest(wire[o]) ELSE wire[o]

Talks(e, o, lines, reads) == Frame(e, o, lines, reads) /\ Moves(e, lines, reads)

\* Any step of e but the death of its board.
Does(e) == Step(e) \/ Greet(e) \/ ForeignAnswer(e) \/ Leave(e) \/ Abort(e) \/ SendFails(e)

LEMMA KindsFacts ==
  /\ Silent(<<>>) /\ <<>> \in Seq(Line)
  /\ Greeting \in Seq(Line) /\ Kinds(Greeting) = {"SID", ">"}
  /\ \A l \in Line : <<l>> \in Seq(Line) /\ Kinds(<<l>>) = {l.kind}
  /\ \A p, q \in Seq(Line) : p \o q \in Seq(Line) /\ Kinds(p \o q) = Kinds(p) \cup Kinds(q)
  /\ \A out \in Seq(Msg) : /\ Proposals(out) \in Seq(Line)
                           /\ Kinds(Proposals(out)) \subseteq {"FB", "FF"} /\ "FF" \in Kinds(Proposals(out))
<1>1. Silent(<<>>) /\ <<>> \in Seq(Line)
  BY NothingWorded DEF Silent, Kinds
<1>2. Greeting \in Seq(Line) /\ Kinds(Greeting) = {"SID", ">"}
  <2>1. Text("SID").kind = "SID" /\ Text(">").kind = ">"
    BY TextLines
  <2>2. Greeting \in Seq(Line) /\ Range(Greeting) = {Text("SID"), Text(">")}
    BY PromptLines DEF Greeting
  <2> QED BY <2>1, <2>2 DEF Kinds
<1>3. ASSUME NEW l \in Line PROVE <<l>> \in Seq(Line) /\ Kinds(<<l>>) = {l.kind}
  BY OneLine DEF Kinds
<1>4. ASSUME NEW p \in Seq(Line), NEW q \in Seq(Line)
      PROVE  p \o q \in Seq(Line) /\ Kinds(p \o q) = Kinds(p) \cup Kinds(q)
  <2>1. p \o q \in Seq(Line) /\ Range(p \o q) = Range(p) \cup Range(q)
    BY Joined
  <2> DEFINE x == p \o q
  <2> HIDE DEF x
  <2>2. Range(x) = Range(p) \cup Range(q) => Kinds(x) = Kinds(p) \cup Kinds(q)
    BY DEF Kinds
  <2> QED BY <2>1, <2>2 DEF x
<1>5. ASSUME NEW out \in Seq(Msg)
      PROVE  /\ Proposals(out) \in Seq(Line)
             /\ Kinds(Proposals(out)) \subseteq {"FB", "FF"} /\ "FF" \in Kinds(Proposals(out))
  <2> DEFINE x == Proposals(out)
  <2>1. /\ x \in Seq(Line) /\ Text("FF") \in Range(x) /\ Text("FF").kind = "FF"
        /\ \A l \in Range(x) : l.kind \in {"FB", "FF"}
    BY ProposalLines, TextLines
  <2> HIDE DEF x
  <2>2. Kinds(x) \subseteq {"FB", "FF"} /\ "FF" \in Kinds(x)
    BY <2>1 DEF Kinds
  <2> QED BY <2>1, <2>2 DEF x
<1> QED BY <1>1, <1>2, <1>3, <1>4, <1>5

LEMMA FrameOfWrite ==
  ASSUME TypeInv, NEW e \in End, NEW s \in Session, NEW lines \in Seq(Line), Write(e, s, lines)
  PROVE  Frame(e, Other(e), lines, FALSE) /\ sess'[e] = s
<1>1. TalkTyped
  BY TypeHalves
<1> QED BY <1>1, Writes DEF Frame

LEMMA FrameOfRead ==
  ASSUME TypeInv, NEW e \in End, NEW s \in Session, NEW lines \in Seq(Line), Read(e, s, lines)
  PROVE  Frame(e, Other(e), lines, TRUE) /\ sess'[e] = s
<1>1. TalkTyped
  BY TypeHalves
<1> QED BY <1>1, Reads DEF Frame

LEMMA QuietBooks ==
  ASSUME NEW e, NEW o, NEW lines, UNCHANGED records, "FS" \notin Kinds(lines)
  PROVE  Books(e, o, lines)
BY DEF Books, records

LEMMA ReadSIDDoes ==
  ASSUME TypeInv, NEW e \in End, ReadSID(e)
  PROVE  \E lines : Talks(e, Other(e), lines, TRUE) /\ Books(e, Other(e), lines)
<1>1. sess[e] \in Session /\ UNCHANGED records /\ sess[e].at = "sid"
  BY Halves DEF ReadSID
<1> DEFINE S(a) == [sess[e] EXCEPT !.at = a]
<1>2. \A a \in Stages : S(a) \in Session /\ S(a).at = a /\ SameMail(sess[e], S(a))
  BY <1>1, Moved DEF SameMail
<1>3. "prompt" \in Stages /\ "idle" \in Stages /\ "propose" \in Stages
  BY DEF Stages
<1>4. \/ e = "caller" /\ Read(e, S("prompt"), <<>>)
      \/ e = "called" /\ Heard(e).kind = "" /\ Read(e, S("idle"), <<>>)
      \/ e = "called" /\ Read(e, S("propose"), Greeting)
  BY DEF ReadSID, End, Greeting
<1> HIDE DEF S
<1>5. CASE e = "caller" /\ Read(e, S("prompt"), <<>>)
  <2>1. Frame(e, Other(e), <<>>, TRUE) /\ sess'[e] = S("prompt")
    BY <1>2, <1>3, <1>5, KindsFacts, FrameOfRead
  <2>2. Moves(e, <<>>, TRUE)
    BY <1>1, <1>2, <1>3, <1>5, <2>1, KindsFacts DEF Moves, MovesOpening
  <2> QED BY <1>1, <2>1, <2>2, KindsFacts, QuietBooks DEF Talks, Silent
<1>6. CASE e = "called" /\ Heard(e).kind = "" /\ Read(e, S("idle"), <<>>)
  <2>1. Frame(e, Other(e), <<>>, TRUE) /\ sess'[e] = S("idle")
    BY <1>2, <1>3, <1>6, KindsFacts, FrameOfRead
  <2>2. Moves(e, <<>>, TRUE)
    BY <1>1, <1>2, <1>3, <1>6, <2>1, KindsFacts DEF Moves, MovesOpening
  <2> QED BY <1>1, <2>1, <2>2, KindsFacts, QuietBooks DEF Talks, Silent
<1>7. CASE e = "called" /\ Read(e, S("propose"), Greeting)
  <2>1. Frame(e, Other(e), Greeting, TRUE) /\ sess'[e] = S("propose")
    BY <1>2, <1>3, <1>7, KindsFacts, FrameOfRead
  <2>2. Moves(e, Greeting, TRUE)
    BY <1>1, <1>2, <1>3, <1>7, <2>1, KindsFacts DEF Moves, MovesOpening
  <2> QED BY <1>1, <2>1, <2>2, KindsFacts, QuietBooks DEF Talks
<1> QED BY <1>4, <1>5, <1>6, <1>7

LEMMA AwaitPromptDoes ==
  ASSUME TypeInv, NEW e \in End, AwaitPrompt(e)
  PROVE  \E lines : Talks(e, Other(e), lines, TRUE) /\ Books(e, Other(e), lines)
<1>1. sess[e] \in Session /\ UNCHANGED records /\ sess[e].at = "prompt"
  BY Halves DEF AwaitPrompt
<1>2. PICK a \in {"prompt", "idle", "propose"} :
        /\ Read(e, [sess[e] EXCEPT !.at = a], <<>>)
        /\ \/ Heard(e).kind = ">" /\ a = "propose"
           \/ Heard(e).kind = "" /\ a = "idle"
           \/ Heard(e).kind \notin {"", ">"} /\ a = "prompt"
  BY <1>1 DEF AwaitPrompt
<1> DEFINE r == [sess[e] EXCEPT !.at = a]
<1>3. r \in Session /\ r.at = a /\ SameMail(sess[e], r)
  <2>1. a \in Stages
    BY DEF Stages
  <2> QED BY <1>1, <2>1, Moved DEF SameMail
<1> HIDE DEF r
<1>4. Frame(e, Other(e), <<>>, TRUE) /\ sess'[e] = r
  BY <1>2, <1>3, KindsFacts, FrameOfRead DEF r
<1>5. Moves(e, <<>>, TRUE)
  BY <1>1, <1>2, <1>3, <1>4, KindsFacts DEF Moves, MovesOpening
<1> QED BY <1>1, <1>4, <1>5, KindsFacts, QuietBooks DEF Talks, Silent

LEMMA SelectedIs ==
  ASSUME TypeInv, NEW e \in End
  PROVE  LET out == Ordered(Selected(e)) IN
         out \in Seq(Msg) /\ \A i \in DOMAIN out : store[e][out[i]] = "N"
<1> DEFINE out == Ordered(Selected(e))
<1>1. out \in Seq(Msg) /\ Range(out) = Selected(e)
  BY SelectedFacts, Listing
<1> HIDE DEF out
<1>2. \A i \in DOMAIN out : out[i] \in Selected(e)
  BY <1>1 DEF Range
<1> QED BY <1>1, <1>2 DEF Selected, out

LEMMA ProposeDoes ==
  ASSUME TypeInv, NEW e \in End, Propose(e)
  PROVE  \E lines : Talks(e, Other(e), lines, FALSE) /\ Books(e, Other(e), lines)
<1> DEFINE out == Ordered(Selected(e))
           r == [sess[e] EXCEPT !.at = "answer", !.out = out]
           x == Proposals(out)
<1>1. sess[e] \in Session /\ UNCHANGED records /\ sess[e].at = "propose" /\ Write(e, r, x)
  BY Halves DEF Propose
<1>2. out \in Seq(Msg) /\ \A i \in DOMAIN out : store[e][out[i]] = "N"
  BY SelectedIs
<1> HIDE DEF out
<1>3. /\ r \in Session /\ r.at = "answer" /\ r.out = out
      /\ r.ok = sess[e].ok /\ r.inc = sess[e].inc
  BY <1>1, <1>2 DEF Session, Stages
<1>4. x \in Seq(Line) /\ Kinds(x) \subseteq {"FB", "FF"} /\ "FF" \in Kinds(x)
  BY <1>2, KindsFacts
<1> HIDE DEF r
<1>5. Frame(e, Other(e), x, FALSE) /\ sess'[e] = r
  BY <1>1, <1>3, <1>4, FrameOfWrite
<1>6. Asks(e, r, x)
  BY <1>2, <1>3 DEF Asks
<1> HIDE DEF x
<1>7. Moves(e, x, FALSE)
  BY <1>1, <1>3, <1>4, <1>5, <1>6 DEF Moves
<1> QED BY <1>1, <1>4, <1>5, <1>7, QuietBooks DEF Talks

LEMMA ReadAnswerDoes ==
  ASSUME TypeInv, NEW e \in End, ReadAnswer(e)
  PROVE  \E lines : Talks(e, Other(e), lines, TRUE) /\ Books(e, Other(e), lines)
<1> DEFINE ok == Accepted(sess[e].out, Heard(e).answers)
           a == IF e \in foreign THEN "send" ELSE "proposals"
           r == [sess[e] EXCEPT !.at = a, !.ok = ok]
<1>1. sess[e] \in Session /\ UNCHANGED records /\ sess[e].at = "answer" /\ Read(e, r, <<>>)
  BY Halves DEF ReadAnswer
<1>2. ok \in Seq(Msg)
  <2> DEFINE A == {sess[e].out[i] : i \in {j \in DOMAIN sess[e].out :
                     j <= Len(Heard(e).answers) /\ Heard(e).answers[j] = "+"}}
  <2>1. sess[e].out \in Seq(Msg)
    BY <1>1 DEF Session
  <2>2. A \in SUBSET Msg /\ ok = Ordered(A)
    BY <2>1, AcceptedFacts, Zenon
  <2> HIDE DEF A, ok
  <2> QED BY <2>2, Listing
<1>3. a \in {"send", "proposals"}
  OBVIOUS
<1> HIDE DEF ok, a
<1>4. r \in Session /\ r.at = a /\ r.ok = ok /\ r.out = sess[e].out /\ r.inc = sess[e].inc
  BY <1>1, <1>2, <1>3 DEF Session, Stages
<1> HIDE DEF r
<1>5. Frame(e, Other(e), <<>>, TRUE) /\ sess'[e] = r
  BY <1>1, <1>4, KindsFacts, FrameOfRead
<1>6. MovesTurn(e, sess[e], sess'[e], Heard(e), <<>>)
  BY <1>1, <1>4, <1>5, KindsFacts DEF MovesTurn, a, ok
<1>7. Moves(e, <<>>, TRUE)
  BY <1>6 DEF Moves
<1> QED BY <1>1, <1>5, <1>7, KindsFacts, QuietBooks DEF Talks, Silent

LEMMA HearDoes ==
  ASSUME TypeInv, NEW e \in End, HearProposal(e) \/ HearOther(e)
  PROVE  \E lines : Talks(e, Other(e), lines, TRUE) /\ Books(e, Other(e), lines)
<1>1. sess[e] \in Session /\ sess[e].inc \in Seq(Msg) /\ UNCHANGED records /\ sess[e].at = "proposals"
  BY Halves DEF HearProposal, HearOther, Session
<1>2. CASE HearProposal(e)
  <2> DEFINE inc == Append(sess[e].inc, Heard(e).msg)
             r == [sess[e] EXCEPT !.inc = inc]
  <2>1. Read(e, r, <<>>) /\ Heard(e).kind = "FB" /\ Heard(e).msg \in Msg
    BY <1>2, Halves DEF HearProposal
  <2>2. inc \in Seq(Msg)
    BY <1>1, <2>1
  <2> HIDE DEF inc
  <2>3. r \in Session /\ r.at = sess[e].at /\ r.inc = inc /\ r.out = sess[e].out /\ r.ok = sess[e].ok
    BY <1>1, <2>2 DEF Session
  <2> HIDE DEF r
  <2>4. Frame(e, Other(e), <<>>, TRUE) /\ sess'[e] = r
    BY <2>1, <2>3, KindsFacts, FrameOfRead
  <2>5. MovesTurn(e, sess[e], sess'[e], Heard(e), <<>>)
    BY <1>1, <2>1, <2>3, <2>4, KindsFacts DEF MovesTurn, inc
  <2> QED BY <1>1, <2>4, <2>5, KindsFacts, QuietBooks DEF Talks, Silent, Moves
<1>3. CASE HearOther(e)
  <2>1. Read(e, sess[e], <<>>) /\ Heard(e).kind \notin {"FB", "FF", "FQ", ""}
    BY <1>3 DEF HearOther, EndsProposals
  <2>2. Frame(e, Other(e), <<>>, TRUE) /\ sess'[e] = sess[e]
    BY <1>1, <2>1, KindsFacts, FrameOfRead
  <2>3. MovesTurn(e, sess[e], sess'[e], Heard(e), <<>>)
    BY <1>1, <2>1, <2>2, KindsFacts DEF MovesTurn, SameMail
  <2> QED BY <1>1, <2>2, <2>3, KindsFacts, QuietBooks DEF Talks, Silent, Moves
<1> QED BY <1>2, <1>3

LEMMA RespondDoes ==
  ASSUME TypeInv, NEW e \in End, Respond(e)
  PROVE  \E lines : Talks(e, Other(e), lines, TRUE) /\ Books(e, Other(e), lines)
<1> DEFINE r == [sess[e] EXCEPT !.at = "send", !.inc = Wanted(e)]
           fs == <<FS(Responses(e))>>
           x == IF sess[e].inc = <<>> THEN <<>> ELSE fs
<1>1. /\ Read(e, r, x) /\ granted' = Grants(e) /\ UNCHANGED <<store, path>>
      /\ e \notin foreign /\ sess[e].at = "proposals" /\ Heard(e).kind \in {"FF", "FQ", ""}
  BY Zenon DEF Respond, EndsProposals
<1>2. sess[e] \in Session /\ Wanted(e) \in Seq(Msg) /\ Other(e) \in End /\ RecordsTyped /\ Other(e) # e
  BY Halves, WantedFacts
<1>3. /\ r \in Session /\ r.at = "send" /\ r.inc = Wanted(e)
      /\ r.out = sess[e].out /\ r.ok = sess[e].ok
  BY <1>2 DEF Session, Stages
<1>4. fs \in Seq(Line) /\ Kinds(fs) = {"FS"}
  <2>1. FS(Responses(e)) \in Line /\ FS(Responses(e)).kind = "FS"
    BY ResponseFacts
  <2> QED BY <2>1, KindsFacts
<1>5. Books(e, Other(e), x)
  BY <1>1, <1>2 DEF Books, Grants, RecordsTyped
<1>6. sess[e].inc = <<>> => Wanted(e) = <<>>
  <2>1. ASSUME sess[e].inc = <<>> PROVE Wanted(e) = <<>>
    <3>1. Range(sess[e].inc) = {}
      BY <2>1, NothingWorded, Zenon
    <3>2. Range(Wanted(e)) = {}
      BY <3>1, WantedFacts, Zenon
    <3>3. DOMAIN Wanted(e) = {}
      BY <3>2 DEF Range
    <3>4. DOMAIN Wanted(e) = 1 .. Len(Wanted(e)) /\ Len(Wanted(e)) \in Nat
      BY <1>2
    <3>5. Len(Wanted(e)) = 0
      BY <3>3, <3>4
    <3> QED BY <1>2, <3>5, EmptySeq
  <2> QED BY <2>1
<1> HIDE DEF r, fs
<1>7. x \in Seq(Line)
  BY <1>4, KindsFacts
<1>8. Frame(e, Other(e), x, TRUE) /\ sess'[e] = r
  BY <1>1, <1>3, <1>7, FrameOfRead
<1>9. \/ sess[e].inc = <<>> /\ r.inc = <<>> /\ Silent(x)
      \/ sess[e].inc # <<>> /\ x = <<FS(Responses(e))>> /\ Kinds(x) = {"FS"}
  BY <1>3, <1>4, <1>6, KindsFacts DEF fs
<1> HIDE DEF x
<1>10. MovesTurn(e, sess[e], sess'[e], Heard(e), x)
  BY <1>1, <1>3, <1>8, <1>9 DEF MovesTurn
<1> QED BY <1>5, <1>8, <1>10 DEF Talks, Moves

LEMMA ForeignAnswerDoes ==
  ASSUME TypeInv, NEW e \in End, ForeignAnswer(e)
  PROVE  \E lines : Talks(e, Other(e), lines, TRUE) /\ Books(e, Other(e), lines)
<1> DEFINE out == Ordered(Selected(e))
           a == IF out = <<>> THEN "send" ELSE "answer"
           r == [sess[e] EXCEPT !.at = a, !.out = out, !.inc = Wanted(e)]
           x == <<FS(Responses(e))>>
           y == Proposals(out)
<1>1. /\ Read(e, r, x \o y) /\ granted' = Grants(e) /\ UNCHANGED <<store, path>>
      /\ e \in foreign /\ sess[e].at = "proposals" /\ Heard(e).kind = "FF"
  BY Zenon DEF ForeignAnswer
<1>2. sess[e] \in Session /\ Wanted(e) \in Seq(Msg) /\ Other(e) \in End /\ RecordsTyped /\ Other(e) # e
  BY Halves, WantedFacts
<1>3. out \in Seq(Msg) /\ \A i \in DOMAIN out : store[e][out[i]] = "N"
  BY SelectedIs
<1>4. a \in {"send", "answer"}
  OBVIOUS
<1>5. y \in Seq(Line) /\ Kinds(y) \subseteq {"FB", "FF"}
  BY <1>3, KindsFacts
<1>6. x \in Seq(Line) /\ Kinds(x) = {"FS"}
  <2>1. FS(Responses(e)) \in Line /\ FS(Responses(e)).kind = "FS"
    BY ResponseFacts
  <2> QED BY <2>1, KindsFacts
<1> HIDE DEF out, a
<1>7. r \in Session /\ r.at = a /\ r.out = out /\ r.ok = sess[e].ok
  BY <1>2, <1>3, <1>4 DEF Session, Stages
<1> HIDE DEF r
<1>8. Asks(e, r, y)
  BY <1>3, <1>7 DEF Asks
<1> HIDE DEF x, y
<1>9. x \o y \in Seq(Line) /\ Kinds(x \o y) \subseteq {"FS", "FB", "FF"}
  BY <1>5, <1>6, KindsFacts
<1>10. Frame(e, Other(e), x \o y, TRUE) /\ sess'[e] = r
  BY <1>1, <1>7, <1>9, FrameOfRead
<1>11. Books(e, Other(e), x \o y)
  BY <1>1, <1>2 DEF Books, Grants, RecordsTyped
<1>12. MovesTurn(e, sess[e], sess'[e], Heard(e), x \o y)
  BY <1>1, <1>4, <1>7, <1>8, <1>9, <1>10 DEF MovesTurn, x
<1> QED BY <1>10, <1>11, <1>12 DEF Talks, Moves

LEMMA LeaveDoes ==
  ASSUME TypeInv, NEW e \in End, Leave(e)
  PROVE  \E lines : Talks(e, Other(e), lines, TRUE) /\ Books(e, Other(e), lines)
<1> DEFINE r == [sess[e] EXCEPT !.at = "idle"]
<1>1. /\ Read(e, r, <<>>) /\ UNCHANGED records /\ sess[e] \in Session
      /\ e \in foreign /\ sess[e].at = "proposals" /\ Heard(e).kind \in {"FQ", ""}
  BY Halves DEF Leave
<1>2. r \in Session /\ r.at = "idle" /\ SameMail(sess[e], r)
  BY <1>1, Moved DEF Stages, SameMail
<1> HIDE DEF r
<1>3. Frame(e, Other(e), <<>>, TRUE) /\ sess'[e] = r
  BY <1>1, <1>2, KindsFacts, FrameOfRead
<1>4. MovesTurn(e, sess[e], sess'[e], Heard(e), <<>>)
  BY <1>1, <1>2, <1>3, KindsFacts DEF MovesTurn
<1> QED BY <1>1, <1>3, <1>4, KindsFacts, QuietBooks DEF Talks, Silent, Moves

LEMMA GreetDoes ==
  ASSUME TypeInv, NEW e \in End, Greet(e)
  PROVE  \E lines : Talks(e, Other(e), lines, FALSE) /\ Books(e, Other(e), lines)
<1> DEFINE r == [sess[e] EXCEPT !.at = "proposals"]
<1>1. /\ Write(e, r, Greeting) /\ UNCHANGED records /\ sess[e] \in Session /\ sess[e].at = "greet"
  BY Halves DEF Greet, Greeting
<1>2. r \in Session /\ r.at = "proposals" /\ SameMail(sess[e], r)
  BY <1>1, Moved DEF Stages, SameMail
<1> HIDE DEF r
<1>3. Frame(e, Other(e), Greeting, FALSE) /\ sess'[e] = r
  BY <1>1, <1>2, KindsFacts, FrameOfWrite
<1>4. Moves(e, Greeting, FALSE)
  BY <1>1, <1>2, <1>3, KindsFacts DEF Moves
<1> QED BY <1>1, <1>3, <1>4, KindsFacts, QuietBooks DEF Talks

LEMMA AbortDoes ==
  ASSUME TypeInv, NEW e \in End, Abort(e)
  PROVE  \E lines : Talks(e, Other(e), lines, FALSE) /\ Books(e, Other(e), lines)
<1> DEFINE r == [sess[e] EXCEPT !.at = "idle"]
<1>1. /\ sess' = [sess EXCEPT ![e] = r] /\ UNCHANGED <<foreign, records, wire, cut>>
      /\ sess[e] \in Session /\ sess[e].at # "idle"
  BY Halves DEF Abort
<1>2. r \in Session /\ r.at = "idle" /\ SameMail(sess[e], r)
  BY <1>1, Moved DEF Stages, SameMail
<1> HIDE DEF r
<1>3. sess'[e] = r /\ sess'[Other(e)] = sess[Other(e)]
  <2>1. TalkTyped /\ Other(e) \in End /\ Other(e) # e
    BY Halves
  <2> QED BY <1>1, <2>1 DEF TalkTyped
<1>4. Said(e, <<>>) = wire[e]
  <2>1. wire[e] \in Seq(Line)
    BY Halves
  <2>2. wire[e] \o <<>> = wire[e]
    BY <2>1
  <2> QED BY <2>2 DEF Said
<1>5. Frame(e, Other(e), <<>>, FALSE)
  BY <1>1, <1>2, <1>3, <1>4, KindsFacts DEF Frame
<1>6. Moves(e, <<>>, FALSE)
  BY <1>1, <1>2, <1>3, KindsFacts DEF Moves
<1> QED BY <1>1, <1>5, <1>6, KindsFacts, QuietBooks DEF Talks, Silent

LEMMA SendDoes ==
  ASSUME TypeInv, NEW e \in End, Send(e)
  PROVE  \E lines : Talks(e, Other(e), lines, FALSE) /\ Books(e, Other(e), lines)
<1> DEFINE r == [sess[e] EXCEPT !.at = "record"]
           l == Block(Head(sess[e].ok))
<1>1. /\ Write(e, r, <<l>>) /\ UNCHANGED records /\ sess[e].ok # <<>> /\ sess[e].at = "send"
      /\ sess[e] \in Session /\ sess[e].ok \in Seq(Msg)
  BY Halves DEF Send, Session
<1>2. r \in Session /\ r.at = "record" /\ SameMail(sess[e], r)
  BY <1>1, Moved DEF Stages, SameMail
<1>3. l \in Line /\ l.kind = "BLOCK"
  <2>1. Head(sess[e].ok) \in Msg
    BY <1>1
  <2> QED BY <2>1, TextLines
<1> HIDE DEF r, l
<1>4. <<l>> \in Seq(Line) /\ Kinds(<<l>>) = {"BLOCK"}
  BY <1>3, KindsFacts
<1>5. Frame(e, Other(e), <<l>>, FALSE) /\ sess'[e] = r
  BY <1>1, <1>2, <1>4, FrameOfWrite
<1>6. MovesMail(sess[e], sess'[e], Heard(e), <<l>>, FALSE)
  BY <1>1, <1>2, <1>4, <1>5 DEF MovesMail, l
<1> QED BY <1>1, <1>4, <1>5, <1>6, QuietBooks DEF Talks, Moves

LEMMA RecordDoes ==
  ASSUME TypeInv, NEW e \in End, Record(e)
  PROVE  \E lines : Talks(e, Other(e), lines, FALSE) /\ Books(e, Other(e), lines)
<1> DEFINE m == Head(sess[e].ok)
           rest == Tail(sess[e].ok)
           r == [sess[e] EXCEPT !.at = "send", !.ok = rest]
<1>1. /\ Write(e, r, <<>>) /\ granted' = granted /\ sess[e].at = "record"
      /\ store' = [store EXCEPT ![e][m] = "F"]
  BY DEF Record
<1>2. /\ sess[e] \in Session /\ sess[e].ok \in Seq(Msg) /\ sess[e].ok # <<>>
      /\ Other(e) \in End /\ Other(e) # e /\ RecordsTyped
  BY <1>1, Halves DEF Session, Loaded
<1>3. rest \in Seq(Msg) /\ m \in Msg
  BY <1>2
<1> HIDE DEF m, rest
<1>4. r \in Session /\ r.at = "send" /\ r.ok = rest /\ r.out = sess[e].out /\ r.inc = sess[e].inc
  BY <1>2, <1>3 DEF Session, Stages
<1> HIDE DEF r
<1>5. Frame(e, Other(e), <<>>, FALSE) /\ sess'[e] = r
  BY <1>1, <1>4, KindsFacts, FrameOfWrite
<1>6. MovesMail(sess[e], sess'[e], Heard(e), <<>>, FALSE)
  BY <1>1, <1>4, <1>5, KindsFacts DEF MovesMail, rest
<1>7. Books(e, Other(e), <<>>)
  <2>1. store'[Other(e)] = store[Other(e)]
        /\ \A n \in Msg : store'[e][n] = store[e][n] \/ (n = m /\ store'[e][n] = "F")
    BY <1>1, <1>2, <1>3 DEF RecordsTyped
  <2>2. "FS" \notin Kinds(<<>>)
    BY KindsFacts DEF Silent
  <2> QED BY <1>1, <2>1, <2>2 DEF Books, m
<1> QED BY <1>5, <1>6, <1>7 DEF Talks, Moves

LEMMA ReceiveDoes ==
  ASSUME TypeInv, NEW e \in End, Receive(e)
  PROVE  \E lines : Talks(e, Other(e), lines, TRUE) /\ Books(e, Other(e), lines)
<1> DEFINE m == Heard(e).msg
           rest == Tail(sess[e].inc)
           one == <<m>>
           r == [sess[e] EXCEPT !.at = "path", !.ok = one, !.inc = rest]
           t == [sess[e] EXCEPT !.inc = rest]
<1>1. /\ sess[e] \in Session /\ sess[e].inc \in Seq(Msg) /\ sess[e].inc # <<>> /\ sess[e].at = "send"
      /\ sess[e].ok = <<>> /\ Other(e) \in End /\ Other(e) # e /\ RecordsTyped
      /\ granted' = granted
  BY Halves DEF Session, Receive
<1>2. rest \in Seq(Msg)
  BY <1>1
<1>3. "FS" \notin Kinds(<<>>) /\ Silent(<<>>) /\ <<>> \in Seq(Line)
  BY KindsFacts DEF Silent
<1>4. CASE New(e)
  <2>1. Read(e, r, <<>>) /\ store' = [store EXCEPT ![e][m] = "N"] /\ Heard(e).kind = "BLOCK"
    BY <1>4 DEF Receive, New
  <2>2. m \in Msg
    BY <1>4, Halves DEF New
  <2>3. wire[Other(e)] # <<>>
    <3>1. ASSUME wire[Other(e)] = <<>> PROVE FALSE
      <4>1. Heard(e).kind = ""
        BY <3>1, TextLines DEF Heard
      <4> QED BY <2>1, <4>1
    <3> QED BY <3>1
  <2> HIDE DEF m, rest
  <2>4. one \in Seq(Msg)
    BY <2>2
  <2> HIDE DEF one
  <2>5. r \in Session /\ r.at = "path" /\ r.out = sess[e].out
    BY <1>1, <1>2, <2>4 DEF Session, Stages
  <2> HIDE DEF r
  <2>6. Frame(e, Other(e), <<>>, TRUE) /\ sess'[e] = r
    BY <1>3, <2>1, <2>5, FrameOfRead
  <2>7. MovesMail(sess[e], sess'[e], Heard(e), <<>>, TRUE)
    BY <1>1, <1>3, <2>1, <2>5, <2>6 DEF MovesMail
  <2>8. Books(e, Other(e), <<>>)
    <3>1. store'[Other(e)] = store[Other(e)]
          /\ \A n \in Msg : store'[e][n] = store[e][n] \/ (n = m /\ store'[e][n] = "N")
      BY <1>1, <2>1, <2>2 DEF RecordsTyped
    <3> QED BY <1>1, <1>3, <2>1, <2>3, <2>5, <2>6, <3>1 DEF Books, m
  <2> QED BY <2>6, <2>7, <2>8 DEF Talks, Moves
<1>5. CASE ~New(e)
  <2>1. Read(e, t, <<>>) /\ UNCHANGED records
    BY <1>5 DEF Receive, records
  <2> HIDE DEF rest
  <2>2. t \in Session /\ t.at = "send" /\ t.ok = <<>> /\ t.out = sess[e].out
    BY <1>1, <1>2 DEF Session
  <2> HIDE DEF t
  <2>3. Frame(e, Other(e), <<>>, TRUE) /\ sess'[e] = t
    BY <1>3, <2>1, <2>2, FrameOfRead
  <2>4. MovesMail(sess[e], sess'[e], Heard(e), <<>>, TRUE)
    BY <1>1, <1>3, <2>2, <2>3 DEF MovesMail
  <2> QED BY <1>3, <2>1, <2>3, <2>4, QuietBooks DEF Talks, Moves
<1> QED BY <1>4, <1>5

LEMMA AppendPathDoes ==
  ASSUME TypeInv, NEW e \in End, AppendPath(e)
  PROVE  \E lines : Talks(e, Other(e), lines, FALSE) /\ Books(e, Other(e), lines)
<1> DEFINE r == [sess[e] EXCEPT !.at = "send", !.ok = <<>>]
<1>1. /\ Write(e, r, <<>>) /\ UNCHANGED <<store, granted>> /\ sess[e].at = "path"
      /\ sess[e] \in Session
  BY Halves DEF AppendPath
<1>2. <<>> \in Seq(Msg)
  OBVIOUS
<1>3. r \in Session /\ r.at = "send" /\ r.ok = <<>> /\ r.inc = sess[e].inc
  BY <1>1, <1>2 DEF Session, Stages
<1> HIDE DEF r
<1>4. Frame(e, Other(e), <<>>, FALSE) /\ sess'[e] = r
  BY <1>1, <1>3, KindsFacts, FrameOfWrite
<1>5. MovesMail(sess[e], sess'[e], Heard(e), <<>>, FALSE)
  BY <1>1, <1>3, <1>4, KindsFacts DEF MovesMail
<1>6. Books(e, Other(e), <<>>)
  BY <1>1, KindsFacts DEF Books, Silent
<1> QED BY <1>4, <1>5, <1>6 DEF Talks, Moves

LEMMA FinishDoes ==
  ASSUME TypeInv, NEW e \in End, Finish(e)
  PROVE  \E lines : Talks(e, Other(e), lines, FALSE) /\ Books(e, Other(e), lines)
<1> DEFINE r == [sess[e] EXCEPT !.at = "idle"]
           l == Text("FQ")
<1>1. /\ Write(e, r, <<l>>) /\ UNCHANGED records /\ sess[e].at = "send" /\ sess[e] \in Session
  BY Halves DEF Finish
<1>2. r \in Session /\ r.at = "idle" /\ SameMail(sess[e], r)
  BY <1>1, Moved DEF Stages, SameMail
<1>3. l \in Line /\ l.kind = "FQ"
  BY TextLines
<1> HIDE DEF r, l
<1>4. <<l>> \in Seq(Line) /\ Kinds(<<l>>) = {"FQ"}
  BY <1>3, KindsFacts
<1>5. Frame(e, Other(e), <<l>>, FALSE) /\ sess'[e] = r
  BY <1>1, <1>2, <1>4, FrameOfWrite
<1>6. MovesMail(sess[e], sess'[e], Heard(e), <<l>>, FALSE)
  BY <1>1, <1>2, <1>4, <1>5 DEF MovesMail
<1> QED BY <1>1, <1>4, <1>5, <1>6, QuietBooks DEF Talks, Moves

LEMMA SendFailsDoes ==
  ASSUME TypeInv, NEW e \in End, SendFails(e)
  PROVE  \E lines : Talks(e, Other(e), lines, FALSE) /\ Books(e, Other(e), lines)
<1> DEFINE rest == Tail(sess[e].ok)
           r == [sess[e] EXCEPT !.ok = rest]
<1>1. /\ Write(e, r, <<>>) /\ UNCHANGED records /\ sess[e] \in Session
      /\ sess[e].ok \in Seq(Msg) /\ sess[e].ok # <<>> /\ sess[e].at = "send"
  BY Halves DEF SendFails, Session
<1>2. rest \in Seq(Msg)
  BY <1>1
<1> HIDE DEF rest
<1>3. r \in Session /\ r.at = "send" /\ r.ok = rest /\ r.out = sess[e].out /\ r.inc = sess[e].inc
  BY <1>1, <1>2 DEF Session
<1> HIDE DEF r
<1>4. Frame(e, Other(e), <<>>, FALSE) /\ sess'[e] = r
  BY <1>1, <1>3, KindsFacts, FrameOfWrite
<1>5. MovesMail(sess[e], sess'[e], Heard(e), <<>>, FALSE)
  BY <1>1, <1>3, <1>4, KindsFacts DEF MovesMail, rest
<1> QED BY <1>1, <1>4, <1>5, KindsFacts, QuietBooks DEF Talks, Silent, Moves

LEMMA Doing ==
  ASSUME TypeInv, NEW e \in End, Does(e)
  PROVE  \E lines : \E reads \in BOOLEAN : Talks(e, Other(e), lines, reads) /\ Books(e, Other(e), lines)
<1>1. CASE ReadSID(e) \/ AwaitPrompt(e) \/ Propose(e) \/ ReadAnswer(e)
  BY <1>1, ReadSIDDoes, AwaitPromptDoes, ProposeDoes, ReadAnswerDoes
<1>2. CASE HearProposal(e) \/ HearOther(e) \/ Respond(e) \/ ForeignAnswer(e)
  BY <1>2, HearDoes, RespondDoes, ForeignAnswerDoes
<1>3. CASE Send(e) \/ Record(e) \/ Receive(e) \/ AppendPath(e)
  BY <1>3, SendDoes, RecordDoes, ReceiveDoes, AppendPathDoes
<1>4. CASE Finish(e) \/ Greet(e) \/ Leave(e) \/ Abort(e) \/ SendFails(e)
  BY <1>4, FinishDoes, GreetDoes, LeaveDoes, AbortDoes, SendFailsDoes
<1> QED BY <1>1, <1>2, <1>3, <1>4 DEF Does, Step

-----------------------------------------------------------------------------
(***************************************************************************)
(* What the wires and the sessions have to do with each other.  First the  *)
(* opening: until an end has made its proposals, or heard those of the     *)
(* other, there is nothing to answer.                                      *)
(***************************************************************************)
Early(e) ==
  \/ sess[e].at \in {"sid", "prompt", "propose", "greet"}
  \/ e \in foreign /\ sess[e].at = "proposals"

Roles(e) ==
  /\ e \in foreign => sess[e].at \notin {"sid", "prompt", "propose"}
  /\ sess[e].at = "greet" => e \in foreign /\ e = "called"
  /\ sess[e].at = "prompt" => e = "caller"

SaysLittle(e) ==
  /\ Early(e) => /\ Kinds(wire[e]) \subseteq {"SID", ">"}
                 /\ sess[Other(e)].inc = <<>> /\ "FS" \notin Kinds(wire[Other(e)])
  /\ sess[e].at \notin {"send", "record", "path", "idle"} => "BLOCK" \notin Kinds(wire[e])

\* The called end waits for the caller, who cannot do much before its prompt.
Waiting(e) ==
  e = "called" /\ sess[e].at \in {"sid", "greet"} =>
    /\ wire[e] = <<>>
    /\ \/ sess[Other(e)].at \in {"sid", "prompt", "idle"}
       \/ Other(e) \in foreign /\ sess[Other(e)].at = "proposals"

\* The caller has the SID before it, then the prompt.
Prompted(e) ==
  e = "caller" /\ sess[e].at \in {"sid", "prompt"} =>
    LET q == wire[Other(e)] IN
    /\ \/ q = <<>>
       \/ sess[e].at = "prompt" /\ q[1].kind = ">"
       \/ q[1].kind = "SID" /\ (cut \/ Len(q) >= 2) /\ (Len(q) >= 2 => q[2].kind = ">")
    /\ sess[Other(e)].at \notin {"sid", "greet", "idle"} /\ ~cut => q # <<>>

\* A foreign end does not get ahead of one that has not proposed.
Turn(e) ==
  Other(e) \in foreign /\ sess[e].at \in {"sid", "prompt", "propose"} =>
    sess[Other(e)].at \in {"greet", "proposals", "idle"}

\* Between two boards that run this program, both propose first: the answer of
\* the other is never what is read as one.
Unheard(e) ==
  /\ e \notin foreign /\ Other(e) \notin foreign /\ ~cut
  /\ sess[e].at \in {"sid", "prompt", "propose", "answer"}
  /\ sess[Other(e)].at \in {"answer", "proposals"}
  => "FF" \in Kinds(wire[Other(e)])

Opened(e) ==
  Roles(e) /\ SaysLittle(e) /\ Waiting(e) /\ Prompted(e) /\ Turn(e) /\ Unheard(e)

Exchange(e, o, lines, reads) ==
  /\ TypeInv /\ e \in End /\ o \in End /\ o = Other(e) /\ e = Other(o) /\ e # o /\ reads \in BOOLEAN
  /\ Talks(e, o, lines, reads)

LEMMA KindFrame ==
  ASSUME NEW e, NEW o, NEW lines, NEW reads, Exchange(e, o, lines, reads)
  PROVE  /\ Kinds(wire'[e]) \subseteq Kinds(wire[e]) \cup Kinds(lines)
         /\ Kinds(wire[e]) \subseteq Kinds(wire'[e])
         /\ cut \/ sess[o].at = "idle" \/ Kinds(wire'[e]) = Kinds(wire[e]) \cup Kinds(lines)
         /\ Kinds(wire'[o]) \subseteq Kinds(wire[o])
         /\ Kinds(wire[o]) \subseteq Kinds(wire'[o]) \cup {Heard(e).kind}
         /\ reads \/ wire'[o] = wire[o]
         /\ wire[o] = <<>> => Heard(e).kind = "" /\ Heard(e).answers = <<>> /\ wire'[o] = <<>>
         /\ wire[o] # <<>> => Heard(e).kind \in Kinds(wire[o]) /\ Heard(e) = wire[o][1]
         /\ wire[e] = <<>> /\ (cut \/ sess[o].at = "idle") => wire'[e] = <<>>
         /\ wire[e] # <<>> \/ cut \/ sess[o].at = "idle" \/ wire'[e] = lines
<1>1. /\ wire[e] \in Seq(Line) /\ wire[o] \in Seq(Line) /\ lines \in Seq(Line)
      /\ Heard(e) = First(wire[o]) /\ Other(e) = o
      /\ wire'[e] = (IF cut \/ sess[o].at = "idle" THEN wire[e] ELSE wire[e] \o lines)
      /\ wire'[o] = IF reads THEN Rest(wire[o]) ELSE wire[o]
      /\ reads \in BOOLEAN
  <2>1. TypeInv /\ e \in End /\ o = Other(e) /\ Frame(e, o, lines, reads) /\ reads \in BOOLEAN
    BY DEF Exchange, Talks
  <2> QED BY <2>1, Halves DEF Frame, Said
<1>2. Kinds(wire[e] \o lines) = Kinds(wire[e]) \cup Kinds(lines)
  BY <1>1, KindsFacts
<1>3. /\ Range(Rest(wire[o])) \subseteq Range(wire[o])
      /\ wire[o] # <<>> => /\ First(wire[o]) = wire[o][1] /\ First(wire[o]) \in Range(wire[o])
                           /\ Range(wire[o]) = {First(wire[o])} \cup Range(Rest(wire[o]))
      /\ wire[o] = <<>> => First(wire[o]).kind = "" /\ First(wire[o]).answers = <<>> /\ Rest(wire[o]) = <<>>
  BY <1>1, RestFacts
<1>4. Kinds(Rest(wire[o])) \subseteq Kinds(wire[o])
  BY <1>3 DEF Kinds
<1>5. wire[o] # <<>> => /\ First(wire[o]).kind \in Kinds(wire[o])
                        /\ Kinds(wire[o]) \subseteq Kinds(Rest(wire[o])) \cup {First(wire[o]).kind}
  BY <1>3 DEF Kinds
<1>6. wire[e] = <<>> => wire[e] \o lines = lines
  BY <1>1, ConcatEmptySeq
<1>7. Kinds(wire'[e]) = IF cut \/ sess[o].at = "idle" THEN Kinds(wire[e]) ELSE Kinds(wire[e]) \cup Kinds(lines)
  BY <1>1, <1>2
<1>8. /\ Kinds(wire'[o]) \subseteq Kinds(wire[o])
      /\ Kinds(wire[o]) \subseteq Kinds(wire'[o]) \cup {Heard(e).kind}
      /\ reads \/ wire'[o] = wire[o]
      /\ wire[o] = <<>> => Heard(e).kind = "" /\ Heard(e).answers = <<>> /\ wire'[o] = <<>>
      /\ wire[o] # <<>> => Heard(e).kind \in Kinds(wire[o]) /\ Heard(e) = wire[o][1]
  BY <1>1, <1>3, <1>4, <1>5
<1> QED BY <1>1, <1>6, <1>7, <1>8

LEMMA RolesKept ==
  ASSUME NEW e, NEW o, NEW lines, NEW reads, Exchange(e, o, lines, reads), Opened(e), Opened(o)
  PROVE  Roles(e)' /\ Roles(o)'
<1>1. Moves(e, lines, reads) /\ sess'[o] = sess[o] /\ foreign' = foreign /\ Roles(e) /\ Roles(o)
  BY DEF Exchange, Talks, Frame, Opened
<1>2. Roles(o)'
  BY <1>1, Zenon DEF Roles
<1>3. Roles(e)'
  BY <1>1 DEF Roles, Moves, MovesOpening, MovesTurn, MovesMail
<1> QED BY <1>2, <1>3

LEMMA SaysLittleKept ==
  ASSUME NEW e, NEW o, NEW lines, NEW reads, Exchange(e, o, lines, reads), Opened(e), Opened(o)
  PROVE  SaysLittle(e)' /\ SaysLittle(o)'
<1>1. /\ Moves(e, lines, reads) /\ sess'[o] = sess[o] /\ foreign' = foreign /\ Other(e) = o /\ Other(o) = e
      /\ SaysLittle(e) /\ SaysLittle(o) /\ Roles(e) /\ Roles(o)
  BY DEF Exchange, Talks, Frame, Opened
<1>2. /\ Kinds(wire'[e]) \subseteq Kinds(wire[e]) \cup Kinds(lines)
      /\ Kinds(wire'[o]) \subseteq Kinds(wire[o])
      /\ wire[o] = <<>> => Heard(e).kind = ""
      /\ wire[o] # <<>> => Heard(e).kind \in Kinds(wire[o])
  BY KindFrame
<1> DEFINE P == Kinds(wire[e])
           Q == Kinds(wire[o])
           P2 == Kinds(wire'[e])
           Q2 == Kinds(wire'[o])
           L == Kinds(lines)
           k == Heard(e).kind
<1>3. Early(e) => P \subseteq {"SID", ">"} /\ sess[o].inc = <<>> /\ "FS" \notin Q
  BY <1>1 DEF SaysLittle
<1>4. Early(o) => Q \subseteq {"SID", ">"} /\ sess[e].inc = <<>> /\ "FS" \notin P
  BY <1>1 DEF SaysLittle
<1>5. /\ sess[e].at \notin {"send", "record", "path", "idle"} => "BLOCK" \notin P
      /\ sess[o].at \notin {"send", "record", "path", "idle"} => "BLOCK" \notin Q
  BY <1>1 DEF SaysLittle
<1>6. Early(e)' => Early(e) /\ L \subseteq {"SID", ">"}
  BY <1>1 DEF Early, Moves, MovesOpening, MovesTurn, MovesMail, Silent, Roles
<1>7. sess'[e].at \notin {"send", "record", "path", "idle"} =>
        sess[e].at \notin {"send", "record", "path", "idle"} /\ "BLOCK" \notin L
  <2> SUFFICES ASSUME sess'[e].at \notin {"send", "record", "path", "idle"}
               PROVE  sess[e].at \notin {"send", "record", "path", "idle"} /\ "BLOCK" \notin L
    OBVIOUS
  <2>1. CASE MovesOpening(e, sess[e], sess'[e], Heard(e).kind, lines)
    BY <2>1 DEF MovesOpening, Silent
  <2>2. CASE MovesTurn(e, sess[e], sess'[e], Heard(e), lines)
    BY <2>2 DEF MovesTurn, Silent
  <2>3. CASE MovesMail(sess[e], sess'[e], Heard(e), lines, reads)
    BY <2>3 DEF MovesMail, Silent
  <2> QED BY <1>1, <2>1, <2>2, <2>3 DEF Moves
<1>8. Early(o) => sess'[e].inc = <<>> /\ "FS" \notin L
  <2>1. Early(o) => k \notin {"FB", "FF"}
    BY <1>2, <1>4
  <2> SUFFICES ASSUME Early(o)
               PROVE  sess'[e].inc = <<>> /\ "FS" \notin L
    OBVIOUS
  <2>2. sess[e].inc = <<>>
    BY <1>4
  <2>3. CASE SameMail(sess[e], sess'[e]) /\ MovesOpening(e, sess[e], sess'[e], Heard(e).kind, lines)
    BY <2>2, <2>3 DEF MovesOpening, Silent, SameMail
  <2>4. CASE MovesTurn(e, sess[e], sess'[e], Heard(e), lines)
    BY <2>1, <2>2, <2>4 DEF MovesTurn, Silent, SameMail
  <2>5. CASE MovesMail(sess[e], sess'[e], Heard(e), lines, reads)
    BY <2>2, <2>5 DEF MovesMail, Silent, SameMail
  <2> QED BY <1>1, <2>2, <2>3, <2>4, <2>5 DEF Moves, SameMail, Silent
<1>9. Early(o)' <=> Early(o)
  BY <1>1 DEF Early
<1> HIDE DEF P, Q, L
<1>10. /\ Early(e)' => P2 \subseteq {"SID", ">"} /\ sess'[o].inc = <<>> /\ "FS" \notin Q2
       /\ sess'[e].at \notin {"send", "record", "path", "idle"} => "BLOCK" \notin P2
  BY <1>1, <1>2, <1>3, <1>5, <1>6, <1>7 DEF P, Q, L
<1>11. /\ Early(o)' => Q2 \subseteq {"SID", ">"} /\ sess'[e].inc = <<>> /\ "FS" \notin P2
       /\ sess'[o].at \notin {"send", "record", "path", "idle"} => "BLOCK" \notin Q2
  BY <1>1, <1>2, <1>4, <1>5, <1>8, <1>9 DEF P, Q, L
<1> QED BY <1>1, <1>10, <1>11 DEF SaysLittle

LEMMA WaitingKept ==
  ASSUME NEW e, NEW o, NEW lines, NEW reads, Exchange(e, o, lines, reads), Opened(e), Opened(o)
  PROVE  Waiting(e)' /\ Waiting(o)'
<1>1. /\ Moves(e, lines, reads) /\ sess'[o] = sess[o] /\ foreign' = foreign /\ Other(e) = o /\ Other(o) = e
      /\ Waiting(e) /\ Waiting(o) /\ Roles(e) /\ Roles(o) /\ e # o
  BY DEF Exchange, Talks, Frame, Opened
<1>2. wire[o] = <<>> => Heard(e).kind = "" /\ wire'[o] = <<>>
  BY KindFrame
<1>3. Waiting(e)'
  <2>1. ~(sess'[e].at \in {"sid", "greet"})
    BY <1>1 DEF Moves, MovesOpening, MovesTurn, MovesMail
  <2> QED BY <2>1 DEF Waiting
<1>4. Waiting(o)'
  <2> SUFFICES ASSUME o = "called", sess[o].at \in {"sid", "greet"}
               PROVE  /\ wire'[o] = <<>>
                      /\ \/ sess'[e].at \in {"sid", "prompt", "idle"}
                         \/ e \in foreign /\ sess'[e].at = "proposals"
    BY <1>1 DEF Waiting
  <2>1. /\ wire[o] = <<>> /\ wire'[o] = <<>> /\ Heard(e).kind = ""
        /\ \/ sess[e].at \in {"sid", "prompt", "idle"}
           \/ e \in foreign /\ sess[e].at = "proposals"
    BY <1>1, <1>2 DEF Waiting
  <2> QED BY <1>1, <2>1 DEF Moves, MovesOpening, MovesTurn, MovesMail
<1> QED BY <1>3, <1>4

LEMMA TurnKept ==
  ASSUME NEW e, NEW o, NEW lines, NEW reads, Exchange(e, o, lines, reads), Opened(e), Opened(o)
  PROVE  Turn(e)' /\ Turn(o)'
<1>1. /\ Moves(e, lines, reads) /\ sess'[o] = sess[o] /\ foreign' = foreign /\ Other(e) = o /\ Other(o) = e
      /\ Turn(e) /\ Turn(o) /\ SaysLittle(o)
  BY DEF Exchange, Talks, Frame, Opened
<1>2. /\ wire[o] = <<>> => Heard(e).kind = ""
      /\ wire[o] # <<>> => Heard(e).kind \in Kinds(wire[o])
  BY KindFrame
<1>3. Turn(e)'
  <2>1. sess'[e].at \in {"sid", "prompt", "propose"} => sess[e].at \in {"sid", "prompt", "propose"}
    BY <1>1 DEF Moves, MovesOpening, MovesTurn, MovesMail
  <2> QED BY <1>1, <2>1 DEF Turn
<1>4. Turn(o)'
  <2> SUFFICES ASSUME e \in foreign, sess[o].at \in {"sid", "prompt", "propose"}
               PROVE  sess'[e].at \in {"greet", "proposals", "idle"}
    BY <1>1 DEF Turn
  <2>1. sess[e].at \in {"greet", "proposals", "idle"}
    BY <1>1 DEF Turn
  <2>2. Kinds(wire[o]) \subseteq {"SID", ">"}
    BY <1>1 DEF SaysLittle, Early
  <2>3. Heard(e).kind \notin {"FF"}
    BY <1>2, <2>2
  <2> QED BY <1>1, <2>1, <2>3 DEF Moves, MovesOpening, MovesTurn, MovesMail
<1> QED BY <1>3, <1>4

LEMMA PromptedKept ==
  ASSUME NEW e, NEW o, NEW lines, NEW reads, Exchange(e, o, lines, reads), Opened(e), Opened(o)
  PROVE  Prompted(e)' /\ Prompted(o)'
<1>1. /\ Moves(e, lines, reads) /\ sess'[o] = sess[o] /\ foreign' = foreign /\ Other(e) = o /\ Other(o) = e
      /\ Prompted(e) /\ Prompted(o) /\ Waiting(e) /\ Waiting(o) /\ cut' = cut
      /\ wire[e] \in Seq(Line) /\ wire[o] \in Seq(Line) /\ lines \in Seq(Line)
      /\ e \in {"caller", "called"} /\ o \in {"caller", "called"} /\ e # o /\ cut \in BOOLEAN
      /\ wire'[e] = Said(e, lines) /\ wire'[o] = IF reads THEN Rest(wire[o]) ELSE wire[o]
  <2>1. TypeInv /\ e \in End
    BY DEF Exchange
  <2>2. wire[e] \in Seq(Line) /\ wire[Other(e)] \in Seq(Line)
    BY <2>1, Halves
  <2>3. cut \in BOOLEAN
    BY <2>1 DEF TypeInv, TypeOK
  <2> QED BY <2>2, <2>3 DEF Exchange, Talks, Frame, Opened, End
<1>2. /\ reads \/ wire'[o] = wire[o]
      /\ wire[o] = <<>> => Heard(e).kind = "" /\ wire'[o] = <<>>
      /\ wire[o] # <<>> => Heard(e) = wire[o][1]
      /\ wire[e] = <<>> /\ (cut \/ sess[o].at = "idle") => wire'[e] = <<>>
      /\ wire[e] # <<>> \/ cut \/ sess[o].at = "idle" \/ wire'[e] = lines
  <2>1. reads \/ wire'[o] = wire[o]
    BY <1>1
  <2>2. wire[o] = <<>> => Heard(e).kind = "" /\ wire'[o] = <<>>
    BY KindFrame
  <2>3. wire[o] # <<>> => Heard(e) = wire[o][1]
    BY KindFrame
  <2>4. wire[e] = <<>> /\ (cut \/ sess[o].at = "idle") => wire'[e] = <<>>
    BY KindFrame
  <2>5. wire[e] # <<>> \/ cut \/ sess[o].at = "idle" \/ wire'[e] = lines
    <3>1. wire[e] = <<>> => wire[e] \o lines = lines
      BY <1>1, ConcatEmptySeq
    <3>2. wire'[e] = (IF cut \/ sess[Other(e)].at = "idle" THEN wire[e] ELSE wire[e] \o lines)
      BY <1>1 DEF Said
    <3> QED BY <1>1, <3>1, <3>2
  <2> QED BY <2>1, <2>2, <2>3, <2>4, <2>5
<1>3. Prompted(e)'
  <2> SUFFICES ASSUME e = "caller", sess'[e].at \in {"sid", "prompt"}
               PROVE  /\ \/ wire'[o] = <<>>
                         \/ sess'[e].at = "prompt" /\ wire'[o][1].kind = ">"
                         \/ /\ wire'[o][1].kind = "SID" /\ (cut \/ Len(wire'[o]) >= 2)
                            /\ Len(wire'[o]) >= 2 => wire'[o][2].kind = ">"
                      /\ sess[o].at \notin {"sid", "greet", "idle"} /\ ~cut => wire'[o] # <<>>
    BY <1>1 DEF Prompted
  <2>1. sess'[e].at = "prompt" /\ sess[e].at \in {"sid", "prompt"} /\ reads
        /\ (sess[e].at = "prompt" => Heard(e).kind \notin {"", ">"})
    BY <1>1 DEF Moves, MovesOpening, MovesTurn, MovesMail
  <2> DEFINE q == wire[o]
  <2>2. /\ \/ q = <<>>
           \/ sess[e].at = "prompt" /\ q[1].kind = ">"
           \/ q[1].kind = "SID" /\ (cut \/ Len(q) >= 2) /\ (Len(q) >= 2 => q[2].kind = ">")
        /\ sess[o].at \notin {"sid", "greet", "idle"} /\ ~cut => q # <<>>
    BY <1>1, <2>1 DEF Prompted
  <2>3. CASE q = <<>>
    BY <1>2, <2>2, <2>3
  <2>4. CASE q # <<>>
    <3>1. wire'[o] = Tail(q)
      BY <1>1, <2>1, <2>4 DEF Rest
    <3>2. q[1].kind = "SID" /\ (cut \/ Len(q) >= 2) /\ (Len(q) >= 2 => q[2].kind = ">")
      BY <1>2, <2>1, <2>2, <2>4
    <3>3. /\ Len(q) >= 2 => Tail(q) # <<>> /\ Tail(q)[1] = q[2]
          /\ ~(Len(q) >= 2) => Tail(q) = <<>>
      <4>1. /\ Tail(q) \in Seq(Line) /\ Len(Tail(q)) = Len(q) - 1 /\ Len(q) \in Nat /\ Len(q) # 0
            /\ \A i \in 1 .. Len(q) - 1 : Tail(q)[i] = q[i + 1]
        BY <1>1, <2>4
      <4>2. Len(q) >= 2 => Tail(q)[1] = q[2]
        BY <4>1
      <4>3. Tail(q) = <<>> <=> Len(Tail(q)) = 0
        BY <4>1, EmptySeq
      <4> QED BY <4>1, <4>2, <4>3
    <3> QED BY <2>1, <3>1, <3>2, <3>3
  <2> QED BY <2>3, <2>4
<1>4. Prompted(o)'
  <2> SUFFICES ASSUME o = "caller", sess[o].at \in {"sid", "prompt"}
               PROVE  /\ \/ wire'[e] = <<>>
                         \/ sess[o].at = "prompt" /\ wire'[e][1].kind = ">"
                         \/ /\ wire'[e][1].kind = "SID" /\ (cut \/ Len(wire'[e]) >= 2)
                            /\ Len(wire'[e]) >= 2 => wire'[e][2].kind = ">"
                      /\ sess'[e].at \notin {"sid", "greet", "idle"} /\ ~cut => wire'[e] # <<>>
    BY <1>1 DEF Prompted
  <2> DEFINE p == wire[e]
  <2>1. /\ \/ p = <<>>
           \/ sess[o].at = "prompt" /\ p[1].kind = ">"
           \/ p[1].kind = "SID" /\ (cut \/ Len(p) >= 2) /\ (Len(p) >= 2 => p[2].kind = ">")
        /\ sess[e].at \notin {"sid", "greet", "idle"} /\ ~cut => p # <<>>
    BY <1>1 DEF Prompted
  <2>2. CASE p = <<>> /\ ~cut
    <3>1. sess[e].at \in {"sid", "greet", "idle"} /\ e = "called"
      BY <1>1, <2>1, <2>2
    <3>2. wire'[e] = lines
      BY <1>2, <2>2
    <3>3. \/ sess'[e].at = "idle" /\ lines = <<>>
          \/ lines = Greeting
      BY <1>1, <3>1 DEF Moves, MovesOpening, MovesTurn, MovesMail, Silent
    <3>4. /\ Greeting[1].kind = "SID" /\ Greeting[2].kind = ">" /\ Len(Greeting) = 2 /\ Greeting # <<>>
      <4>1. /\ Greeting[1] = Text("SID") /\ Greeting[2] = Text(">") /\ Len(Greeting) = 2
            /\ Text("SID").kind = "SID" /\ Text(">").kind = ">" /\ Greeting \in Seq(Line)
        BY PromptLines, TextLines DEF Greeting
      <4>2. Len(<<>>) # 2
        OBVIOUS
      <4>3. Greeting # <<>>
        BY <4>1, <4>2, Zenon
      <4> QED BY <4>1, <4>3, Zenon
    <3> QED BY <3>2, <3>3, <3>4
  <2>3. CASE p = <<>> /\ cut
    BY <1>2, <2>3
  <2>4. CASE p # <<>>
    <3>1. wire'[e] = p \/ (~cut /\ wire'[e] = p \o lines)
      BY <1>1 DEF Said
    <3>2. p \o lines # <<>> /\ (p \o lines)[1] = p[1] /\ Len(p \o lines) >= Len(p) /\ Len(p) \in Nat
          /\ (Len(p) >= 2 => (p \o lines)[2] = p[2]) /\ Len(p \o lines) \in Nat
      <4>1. DOMAIN p = 1 .. Len(p) /\ Len(p) \in Nat /\ Len(p) # 0
        BY <1>1, <2>4
      <4>2. /\ Len(p \o lines) = Len(p) + Len(lines) /\ Len(lines) \in Nat
            /\ \A i \in DOMAIN p : (p \o lines)[i] = p[i]
        BY <1>1, Joined
      <4>3. 1 \in DOMAIN p /\ (Len(p) >= 2 => 2 \in DOMAIN p)
        BY <4>1
      <4>4. p \o lines # <<>>
        BY <4>1, <4>2, EmptySeq
      <4> QED BY <4>1, <4>2, <4>3, <4>4
    <3> QED BY <2>1, <2>4, <3>1, <3>2
  <2> QED BY <1>1, <2>2, <2>3, <2>4
<1> QED BY <1>3, <1>4

LEMMA UnheardKept ==
  ASSUME NEW e, NEW o, NEW lines, NEW reads, Exchange(e, o, lines, reads), Opened(e), Opened(o)
  PROVE  Unheard(e)' /\ Unheard(o)'
<1>1. /\ Moves(e, lines, reads) /\ sess'[o] = sess[o] /\ foreign' = foreign /\ Other(e) = o /\ Other(o) = e
      /\ Unheard(e) /\ Unheard(o) /\ Prompted(e) /\ Waiting(e) /\ Roles(e) /\ cut' = cut
      /\ e \in {"caller", "called"}
  BY DEF Exchange, Talks, Frame, Opened, End
<1>2. /\ Kinds(wire[e]) \subseteq Kinds(wire'[e])
      /\ cut \/ sess[o].at = "idle" \/ Kinds(wire'[e]) = Kinds(wire[e]) \cup Kinds(lines)
      /\ Kinds(wire[o]) \subseteq Kinds(wire'[o]) \cup {Heard(e).kind}
      /\ wire[o] = <<>> => Heard(e).kind = ""
      /\ wire[o] # <<>> => Heard(e) = wire[o][1]
  BY KindFrame
<1>3. Unheard(e)'
  <2> SUFFICES ASSUME e \notin foreign, o \notin foreign, ~cut,
                      sess'[e].at \in {"sid", "prompt", "propose", "answer"},
                      sess[o].at \in {"answer", "proposals"}
               PROVE  "FF" \in Kinds(wire'[o])
    BY <1>1 DEF Unheard
  <2>1. \/ sess[e].at = "sid" /\ e = "caller"
        \/ sess[e].at = "sid" /\ e = "called"
        \/ sess[e].at = "prompt" /\ e = "caller"
        \/ sess[e].at = "propose" /\ ~reads
    BY <1>1 DEF Moves, MovesOpening, MovesTurn, MovesMail, Roles
  <2>2. "FF" \in Kinds(wire[o])
    BY <1>1, <2>1 DEF Unheard
  <2>3. CASE sess[e].at \in {"sid", "prompt"} /\ e = "caller"
    <3>1. wire[o] = <<>> \/ wire[o][1].kind \in {"SID", ">"}
      BY <1>1, <2>3 DEF Prompted
    <3>2. Heard(e).kind # "FF"
      BY <1>2, <3>1
    <3> QED BY <1>2, <2>2, <3>2
  <2>4. CASE sess[e].at = "sid" /\ e = "called"
    BY <1>1, <2>4 DEF Waiting
  <2>5. CASE sess[e].at = "propose" /\ ~reads
    <3>1. wire'[o] = wire[o]
      BY <2>5 DEF Exchange, Talks, Frame
    <3> QED BY <2>2, <3>1
  <2> QED BY <2>1, <2>3, <2>4, <2>5
<1>4. Unheard(o)'
  <2> SUFFICES ASSUME e \notin foreign, o \notin foreign, ~cut,
                      sess[o].at \in {"sid", "prompt", "propose", "answer"},
                      sess'[e].at \in {"answer", "proposals"}
               PROVE  "FF" \in Kinds(wire'[e])
    BY <1>1 DEF Unheard
  <2>1. \/ sess[e].at \in {"answer", "proposals"}
        \/ "FF" \in Kinds(lines)
    BY <1>1 DEF Moves, MovesOpening, MovesTurn, MovesMail, Roles
  <2>2. CASE sess[e].at \in {"answer", "proposals"}
    BY <1>1, <1>2, <2>2 DEF Unheard
  <2>3. CASE "FF" \in Kinds(lines)
    BY <1>2, <2>3
  <2> QED BY <2>1, <2>2, <2>3
<1> QED BY <1>3, <1>4

LEMMA OpenedKept ==
  ASSUME NEW e, NEW o, NEW lines, NEW reads, Exchange(e, o, lines, reads), Opened(e), Opened(o)
  PROVE  Opened(e)' /\ Opened(o)'
BY RolesKept, SaysLittleKept, WaitingKept, PromptedKept, TurnKept, UnheardKept DEF Opened

-----------------------------------------------------------------------------
(***************************************************************************)
(* Then the deal: the answers are paired with the proposals by position,   *)
(* and what is accepted stays to be sent until its block is out.           *)
(***************************************************************************)
\* The grants an FS line gives to what e has proposed are the other's own.
Matched(e, as) ==
  \A k \in DOMAIN sess[e].out :
    k <= Len(as) /\ as[k] = "+" =>
      sess[e].out[k] \in granted[e] /\ store[Other(e)][sess[e].out[k]] = "absent"

Answered(e) ==
  LET q == wire[Other(e)] IN
  sess[e].at = "answer" /\ q # <<>> /\ q[1].kind = "FS" => Matched(e, q[1].answers)

\* The reader has heard the first of the proposals, those before line 1 - k.
LinedUp(p, out, inc, k) ==
  /\ Len(inc) = IF k < 0 THEN 0 - k ELSE 0
  /\ \A i \in DOMAIN inc : i \in DOMAIN out /\ inc[i] = out[i]
  /\ \A i \in DOMAIN p : /\ i <= k => p[i].kind \notin {"FB", "FF", "FQ"}
                         /\ k < i /\ i <= k + Len(out) => p[i] = FB(out[i - k])
                         /\ k + Len(out) < i => p[i].kind = "FF"

Lined(e) ==
  LET o == Other(e) IN
  /\ e \in foreign \/ o \in foreign
  /\ sess[e].at = "answer"
  /\ sess[o].at \in {"greet", "proposals"} \/ (o \notin foreign /\ sess[o].at = "answer")
  => \E k \in Int : /\ LinedUp(wire[e], sess[e].out, sess[o].inc, k)
                    /\ sess[o].at = "answer" => k >= 1

\* What is still to be sent, and the messages whose blocks are on the wire.
Due(s) == {s.ok[j] : j \in {i \in DOMAIN s.ok : s.at = "record" => i > 1}}

Blocks(p) == {l.msg : l \in {x \in Range(p) : x.kind = "BLOCK"}}

Present(e) == {m \in Msg : store[e][m] # "absent"}

Kept(e, ok, due, p) ==
  /\ Rising(ok) /\ Range(ok) \subseteq granted[e] \cap Present(e)
  /\ due \cap Present(Other(e)) = {} /\ due \cap Blocks(p) = {}

Careful(e) ==
  /\ sess[e].at = "answer" => Range(sess[e].out) \subseteq Present(e)
  /\ sess[e].at \in {"greet", "proposals", "send", "record"} =>
       Kept(e, sess[e].ok, Due(sess[e]), wire[e])

Marked(e) == \A m \in Msg : store[e][m] = "F" => m \in granted[e]

Dealt(e) == Answered(e) /\ Lined(e) /\ Careful(e) /\ Marked(e)

LEMMA LinesUp ==
  ASSUME NEW p \in Seq(Line), Kinds(p) \subseteq {"SID", ">", "FS"}, NEW out \in Seq(Msg)
  PROVE  /\ LinedUp(p \o Proposals(out), out, <<>>, Len(p)) /\ Len(p) \in Nat
         /\ \A k \in Int : k >= Len(p) => LinedUp(p, out, <<>>, k)
<1> DEFINE x == Proposals(out)
<1>1. /\ x \in Seq(Line) /\ Len(x) = Len(out) + 1 /\ Len(out) \in Nat
      /\ \A i \in DOMAIN out : x[i] = FB(out[i])
      /\ x[Len(out) + 1] = Text("FF") /\ Text("FF").kind = "FF"
  <2>1. /\ x \in Seq(Line) /\ Len(x) = Len(out) + 1 /\ Len(out) \in Nat
        /\ x[Len(out) + 1] = Text("FF")
    BY ProposalLines
  <2>2. \A i \in DOMAIN out : x[i] = FB(out[i])
    BY ProposalLines
  <2>3. Text("FF").kind = "FF"
    BY TextLines
  <2> QED BY <2>1, <2>2, <2>3
<1> HIDE DEF x
<1>2. /\ DOMAIN p = 1 .. Len(p) /\ Len(p) \in Nat /\ DOMAIN x = 1 .. Len(x) /\ DOMAIN out = 1 .. Len(out)
      /\ Len(<<>>) = 0 /\ DOMAIN <<>> = {}
  BY <1>1
<1>3. /\ \A i \in DOMAIN p : (p \o x)[i] = p[i]
      /\ \A i \in DOMAIN (p \o x) : \/ i \in DOMAIN p
                                    \/ i - Len(p) \in DOMAIN x /\ (p \o x)[i] = x[i - Len(p)]
      /\ DOMAIN (p \o x) = 1 .. Len(p \o x) /\ Len(p \o x) \in Nat
  <2>1. p \o x \in Seq(Line)
    BY <1>1, Joined
  <2>2. DOMAIN (p \o x) = 1 .. Len(p \o x) /\ Len(p \o x) \in Nat
    BY <2>1
  <2> QED BY <1>1, <2>2, Joined
<1>4. \A i \in DOMAIN p : p[i].kind \notin {"FB", "FF", "FQ"}
  <2>1. \A i \in DOMAIN p : p[i].kind \in Kinds(p)
    BY DEF Kinds, Range
  <2> QED BY <2>1
<1>5. \A k \in Int : k >= Len(p) => LinedUp(p, out, <<>>, k)
  BY <1>1, <1>2, <1>4 DEF LinedUp
<1>6. LinedUp(p \o x, out, <<>>, Len(p))
  <2> DEFINE n == Len(p)
             m == Len(out)
             y == p \o x
  <2>1. n \in Nat /\ m \in Nat /\ DOMAIN p = 1 .. n /\ DOMAIN x = 1 .. m + 1 /\ DOMAIN out = 1 .. m
    BY <1>1, <1>2
  <2> HIDE DEF n, m, y
  <2>2. ASSUME NEW i \in DOMAIN y
        PROVE  /\ i <= n => y[i].kind \notin {"FB", "FF", "FQ"}
               /\ n < i /\ i <= n + m => y[i] = FB(out[i - n])
               /\ n + m < i => y[i].kind = "FF"
    <3>1. CASE i \in DOMAIN p
      <4>1. y[i] = p[i] /\ i <= n /\ i \in Nat /\ ~(n < i) /\ ~(n + m < i)
        BY <1>3, <2>1, <3>1 DEF y
      <4> QED BY <1>4, <3>1, <4>1
    <3>2. CASE i - n \in DOMAIN x /\ y[i] = x[i - n]
      <4>1. i \in Nat /\ i - n \in 1 .. m + 1
        BY <1>3, <2>1, <3>2 DEF y
      <4>2. CASE i - n \in 1 .. m
        <5>1. y[i] = FB(out[i - n]) /\ n < i /\ i <= n + m
          BY <1>1, <2>1, <3>2, <4>1, <4>2
        <5> QED BY <2>1, <4>1, <5>1
      <4>3. CASE i - n = m + 1
        <5>1. y[i].kind = "FF" /\ n + m < i
          BY <1>1, <2>1, <3>2, <4>1, <4>3 DEF m
        <5> QED BY <2>1, <4>1, <5>1
      <4> QED BY <2>1, <4>1, <4>2, <4>3
    <3> QED BY <1>3, <3>1, <3>2 DEF y, n
  <2> QED BY <1>2, <2>1, <2>2 DEF LinedUp, n, m, y
<1> QED BY <1>2, <1>5, <1>6 DEF x

LEMMA LineRead ==
  ASSUME NEW p \in Seq(Line), NEW out \in Seq(Msg), NEW inc \in Seq(Msg), NEW k \in Int,
         LinedUp(p, out, inc, k), k >= 1
  PROVE  LinedUp(Rest(p), out, inc, k - 1)
<1>1. \A i \in DOMAIN Rest(p) : i + 1 \in DOMAIN p /\ Rest(p)[i] = p[i + 1] /\ i \in Nat \ {0}
  BY RestFacts
<1>2. Len(out) \in Nat /\ ~(k - 1 < 0) /\ ~(k < 0)
  OBVIOUS
<1>3. ASSUME NEW i \in DOMAIN Rest(p)
      PROVE  /\ i <= k - 1 => Rest(p)[i].kind \notin {"FB", "FF", "FQ"}
             /\ k - 1 < i /\ i <= (k - 1) + Len(out) => Rest(p)[i] = FB(out[i - (k - 1)])
             /\ (k - 1) + Len(out) < i => Rest(p)[i].kind = "FF"
  <2>1. i + 1 \in DOMAIN p /\ Rest(p)[i] = p[i + 1] /\ i \in Nat /\ (i + 1) - k = i - (k - 1)
    BY <1>1
  <2> QED BY <1>2, <2>1 DEF LinedUp
<1> QED BY <1>2, <1>3 DEF LinedUp

LEMMA ProposalRead ==
  ASSUME NEW p \in Seq(Line), NEW out \in Seq(Msg), NEW inc \in Seq(Msg), NEW k \in Int,
         LinedUp(p, out, inc, k), p # <<>>, p[1].kind = "FB"
  PROVE  LinedUp(Rest(p), out, Append(inc, p[1].msg), k - 1)
<1>1. \A i \in DOMAIN Rest(p) : i + 1 \in DOMAIN p /\ Rest(p)[i] = p[i + 1] /\ i \in Nat \ {0}
  BY RestFacts
<1> DEFINE m == Len(out)
<1>2. m \in Nat /\ 1 \in DOMAIN p /\ DOMAIN out = 1 .. m
  OBVIOUS
<1> HIDE DEF m
<1>3. k < 1 /\ 1 <= k + m /\ p[1] = FB(out[1 - k])
  <2>1. /\ 1 <= k => p[1].kind \notin {"FB", "FF", "FQ"}
        /\ k < 1 /\ 1 <= k + m => p[1] = FB(out[1 - k])
        /\ k + m < 1 => p[1].kind = "FF"
    BY <1>2 DEF LinedUp, m
  <2> QED BY <1>2, <2>1
<1>4. 1 - k \in DOMAIN out /\ p[1].msg = out[1 - k]
  <2>1. 1 - k \in 1 .. m
    BY <1>2, <1>3
  <2>2. out[1 - k] \in Msg
    BY <1>2, <2>1
  <2>3. FB(out[1 - k]).msg = out[1 - k]
    BY <2>2, TextLines
  <2> QED BY <1>2, <1>3, <2>1, <2>3
<1>5. Len(inc) = 0 - k /\ DOMAIN inc = 1 .. Len(inc)
  BY <1>3 DEF LinedUp
<1> DEFINE inc2 == Append(inc, p[1].msg)
<1>6. /\ Len(inc2) = 1 - k /\ DOMAIN inc2 = 1 .. 1 - k
      /\ \A i \in DOMAIN inc : inc2[i] = inc[i]
      /\ inc2[1 - k] = p[1].msg
  <2>1. p[1].msg \in Msg
    BY <1>2, <1>4
  <2> QED BY <1>5, <2>1
<1> HIDE DEF inc2
<1>7. ASSUME NEW i \in DOMAIN inc2 PROVE i \in DOMAIN out /\ inc2[i] = out[i]
  <2>1. i \in DOMAIN inc \/ i = 1 - k
    BY <1>3, <1>5, <1>6
  <2>2. ASSUME i \in DOMAIN inc PROVE i \in DOMAIN out /\ inc[i] = out[i]
    BY <2>2 DEF LinedUp
  <2> QED BY <1>4, <1>6, <2>1, <2>2
<1>8. ASSUME NEW i \in DOMAIN Rest(p)
      PROVE  /\ i <= k - 1 => Rest(p)[i].kind \notin {"FB", "FF", "FQ"}
             /\ k - 1 < i /\ i <= (k - 1) + m => Rest(p)[i] = FB(out[i - (k - 1)])
             /\ (k - 1) + m < i => Rest(p)[i].kind = "FF"
  <2>1. i + 1 \in DOMAIN p /\ Rest(p)[i] = p[i + 1] /\ i \in Nat /\ (i + 1) - k = i - (k - 1)
    BY <1>1
  <2>2. /\ i + 1 <= k => p[i + 1].kind \notin {"FB", "FF", "FQ"}
        /\ k < i + 1 /\ i + 1 <= k + m => p[i + 1] = FB(out[(i + 1) - k])
        /\ k + m < i + 1 => p[i + 1].kind = "FF"
    BY <2>1 DEF LinedUp, m
  <2>3. /\ i <= k - 1 <=> i + 1 <= k
        /\ k - 1 < i <=> k < i + 1
        /\ i <= (k - 1) + m <=> i + 1 <= k + m
        /\ (k - 1) + m < i <=> k + m < i + 1
    BY <1>2, <2>1
  <2> HIDE DEF LinedUp
  <2> QED BY <2>1, <2>2, <2>3
<1>9. Len(inc2) = IF k - 1 < 0 THEN 0 - (k - 1) ELSE 0
  BY <1>3, <1>6
<1> QED BY <1>7, <1>8, <1>9 DEF LinedUp, inc2, m

LEMMA Parts ==
  ASSUME NEW e, NEW o, NEW lines, NEW reads, Exchange(e, o, lines, reads)
  PROVE  /\ TypeInv /\ e \in End /\ o \in End /\ Other(e) = o /\ Other(o) = e /\ e # o
         /\ sess[e] \in Session /\ sess[o] \in Session /\ sess'[e] \in Session /\ sess'[o] = sess[o]
         /\ sess[e].out \in Seq(Msg) /\ sess[e].ok \in Seq(Msg) /\ sess[e].inc \in Seq(Msg)
         /\ sess[o].out \in Seq(Msg) /\ sess[o].ok \in Seq(Msg) /\ sess[o].inc \in Seq(Msg)
         /\ wire[e] \in Seq(Line) /\ wire[o] \in Seq(Line) /\ lines \in Seq(Line)
         /\ foreign' = foreign /\ Moves(e, lines, reads)
         /\ granted[e] \in SUBSET Msg /\ granted[o] \in SUBSET Msg
         /\ wire'[e] = wire[e] \/ (~cut /\ wire'[e] = wire[e] \o lines)
         /\ wire'[o] = IF reads THEN Rest(wire[o]) ELSE wire[o]
<1>1. /\ TypeInv /\ e \in End /\ o \in End /\ Other(e) = o /\ Other(o) = e /\ e # o
      /\ sess'[e] \in Session /\ sess'[o] = sess[o] /\ lines \in Seq(Line)
      /\ foreign' = foreign /\ Moves(e, lines, reads)
      /\ wire'[e] = Said(e, lines) /\ wire'[o] = IF reads THEN Rest(wire[o]) ELSE wire[o]
  BY DEF Exchange, Talks, Frame
<1>2. /\ sess[e] \in Session /\ sess[Other(e)] \in Session
      /\ wire[e] \in Seq(Line) /\ wire[Other(e)] \in Seq(Line)
      /\ granted[e] \in SUBSET Msg /\ granted[Other(e)] \in SUBSET Msg
  BY <1>1, Halves
<1>3. \A s \in Session : s.out \in Seq(Msg) /\ s.ok \in Seq(Msg) /\ s.inc \in Seq(Msg)
  BY DEF Session
<1>4. wire'[e] = wire[e] \/ (~cut /\ wire'[e] = wire[e] \o lines)
  BY <1>1 DEF Said
<1> QED BY <1>1, <1>2, <1>3, <1>4

\* A message that is not on a board gets there by a block alone, and the other
\* end sends no block before it has its answer.
LEMMA StillAbsent ==
  ASSUME NEW e, NEW o, NEW lines, NEW reads, Exchange(e, o, lines, reads), Books(e, o, lines),
         Opened(e), Opened(o), Dealt(e), Dealt(o), NEW m \in Msg, store[e][m] = "absent",
         m \notin Blocks(wire[o])
  PROVE  store'[e][m] = "absent"
<1>1. \/ store'[e][m] = store[e][m]
      \/ sess[e].at = "record" /\ m = Head(sess[e].ok) /\ store'[e][m] = "F"
      \/ wire[o] # <<>> /\ Heard(e).kind = "BLOCK" /\ m = Heard(e).msg
  BY DEF Books
<1>2. ASSUME sess[e].at = "record" PROVE m # Head(sess[e].ok)
  <2>1. sess[e].ok \in Seq(Msg) /\ sess[e].ok # <<>> /\ Loaded(sess[e])
    <3>1. TypeInv /\ e \in End /\ sess[e].ok \in Seq(Msg)
      BY Parts
    <3>2. Loaded(sess[e])
      BY <3>1, Halves
    <3> QED BY <1>2, <3>1, <3>2 DEF Loaded
  <2>2. 1 \in DOMAIN sess[e].ok /\ Head(sess[e].ok) = sess[e].ok[1]
    BY <2>1
  <2>3. Head(sess[e].ok) \in Range(sess[e].ok)
    BY <2>2 DEF Range
  <2>4. Range(sess[e].ok) \subseteq Present(e)
    BY <1>2 DEF Dealt, Careful, Kept
  <2> QED BY <2>3, <2>4 DEF Present
<1>3. wire[o] # <<>> /\ Heard(e).kind = "BLOCK" => m # Heard(e).msg
  <2> SUFFICES ASSUME wire[o] # <<>>, Heard(e).kind = "BLOCK" PROVE Heard(e).msg \in Blocks(wire[o])
    OBVIOUS
  <2>1. wire[o] \in Seq(Line) /\ Heard(e) = wire[o][1]
    BY Parts, KindFrame
  <2>2. 1 \in DOMAIN wire[o]
    BY <2>1
  <2>3. Heard(e) \in Range(wire[o])
    BY <2>1, <2>2 DEF Range
  <2> QED BY <2>3 DEF Blocks
<1> QED BY <1>1, <1>2, <1>3

LEMMA NoBlocks ==
  ASSUME NEW p, "BLOCK" \notin Kinds(p)
  PROVE  Blocks(p) = {}
BY DEF Blocks, Kinds

LEMMA AnsweredKept ==
  ASSUME NEW e, NEW o, NEW lines, NEW reads, Exchange(e, o, lines, reads), Books(e, o, lines),
         Opened(e), Opened(o), Dealt(e), Dealt(o)
  PROVE  Answered(e)' /\ Answered(o)'
<1>1. /\ Moves(e, lines, reads) /\ sess'[o] = sess[o] /\ foreign' = foreign /\ Other(e) = o /\ Other(o) = e
      /\ e \in End /\ TypeInv /\ wire[e] \in Seq(Line) /\ lines \in Seq(Line)
      /\ sess[o].out \in Seq(Msg) /\ sess[e].inc \in Seq(Msg)
  BY Parts
<1>2. Answered(e)'
  <2> SUFFICES ASSUME sess'[e].at = "answer", wire'[o] # <<>>, wire'[o][1].kind = "FS"
               PROVE  FALSE
    BY <1>1 DEF Answered
  <2>1. Early(e)
    BY <1>1 DEF Moves, MovesOpening, MovesTurn, MovesMail, Early
  <2>2. "FS" \notin Kinds(wire[o])
    BY <1>1, <2>1 DEF Opened, SaysLittle
  <2>3. Kinds(wire'[o]) \subseteq Kinds(wire[o])
    BY KindFrame
  <2>4. wire'[o] \in Seq(Line)
    <3>1. wire[o] \in Seq(Line) /\ wire'[o] = IF reads THEN Rest(wire[o]) ELSE wire[o]
      BY Parts
    <3>2. Rest(wire[o]) \in Seq(Line)
      BY <3>1, RestFacts
    <3> QED BY <3>1, <3>2
  <2>5. 1 \in DOMAIN wire'[o]
    BY <2>4
  <2>6. wire'[o][1].kind \in Kinds(wire'[o])
    BY <2>5 DEF Kinds, Range
  <2> QED BY <2>2, <2>3, <2>6
<1>3. Answered(o)'
  <2> SUFFICES ASSUME sess[o].at = "answer", wire'[e] # <<>>, wire'[e][1].kind = "FS",
                      NEW k \in DOMAIN sess[o].out,
                      k <= Len(wire'[e][1].answers), wire'[e][1].answers[k] = "+"
               PROVE  sess[o].out[k] \in granted'[o] /\ store'[e][sess[o].out[k]] = "absent"
    BY <1>1 DEF Answered, Matched
  <2> DEFINE m == sess[o].out[k]
  <2>1. m \in Msg
    BY <1>1
  <2>2. Blocks(wire[o]) = {}
    <3>1. "BLOCK" \notin Kinds(wire[o])
      BY DEF Opened, SaysLittle
    <3> QED BY <3>1, NoBlocks
  <2>3. store[e][m] = "absent" => store'[e][m] = "absent"
    BY <2>1, <2>2, StillAbsent
  <2>4. CASE wire[e] # <<>>
    <3>1. wire'[e][1] = wire[e][1]
      <4>1. wire'[e] = wire[e] \/ wire'[e] = wire[e] \o lines
        BY Parts
      <4>2. 1 \in DOMAIN wire[e]
        BY <1>1, <2>4
      <4>3. (wire[e] \o lines)[1] = wire[e][1]
        BY <1>1, <4>2, Joined
      <4> QED BY <4>1, <4>3
    <3>2. Matched(o, wire[e][1].answers)
      BY <1>1, <2>4, <3>1 DEF Dealt, Answered
    <3>3. m \in granted[o] /\ store[e][m] = "absent"
      BY <1>1, <3>1, <3>2 DEF Matched
    <3>4. granted[o] \subseteq granted'[o]
      BY DEF Books
    <3> QED BY <2>3, <3>3, <3>4
  <2>5. CASE wire[e] = <<>>
    <3>1. ~cut /\ wire'[e] = lines
      <4>1. wire'[e] = wire[e] \/ (~cut /\ wire'[e] = wire[e] \o lines)
        BY Parts
      <4>2. wire[e] \o lines = lines
        BY <1>1, <2>5, ConcatEmptySeq
      <4> QED BY <2>5, <4>1, <4>2
    <3>2. lines # <<>> /\ lines[1].kind = "FS"
      BY <3>1
    <3>3. 1 \in DOMAIN lines
      BY <1>1, <3>2
    <3>4. "FS" \in Kinds(lines)
      BY <3>2, <3>3 DEF Kinds, Range
    <3>5. /\ sess[e].at = "proposals"
          /\ \/ lines = <<FS(Responses(e))>>
             \/ \E out \in Seq(Msg) : lines = <<FS(Responses(e))>> \o Proposals(out)
      BY <1>1, <3>4 DEF Moves, MovesOpening, MovesTurn, MovesMail, Silent, Asks
    <3> DEFINE as == Responses(e)
    <3>6. /\ as \in Seq(Answers) /\ Len(as) = Len(sess[e].inc)
          /\ \A i \in DOMAIN sess[e].inc : as[i] = AnswerTo(e, sess[e].inc[i])
          /\ FS(as).answers = as
          /\ <<FS(as)>> \in Seq(Line)
      BY <1>1, ResponseFacts
    <3>7. lines[1] = FS(as)
      <4>1. <<FS(as)>>[1] = FS(as) /\ 1 \in DOMAIN <<FS(as)>>
        OBVIOUS
      <4>2. ASSUME NEW out \in Seq(Msg), lines = <<FS(as)>> \o Proposals(out)
            PROVE  lines[1] = FS(as)
        <5>1. Proposals(out) \in Seq(Line)
          BY ProposalLines
        <5> DEFINE x == <<FS(as)>>
                   y == Proposals(out)
        <5>2. x \in Seq(Line) /\ y \in Seq(Line) /\ 1 \in DOMAIN x /\ x[1] = FS(as)
          BY <3>6, <4>1, <5>1
        <5> HIDE DEF x, y, as
        <5>3. (x \o y)[1] = x[1]
          BY <5>2, Joined
        <5> QED BY <4>2, <5>2, <5>3 DEF x, y
      <4> HIDE DEF as
      <4> QED BY <3>5, <4>1, <4>2 DEF as
    <3>8. k <= Len(as) /\ as[k] = "+"
      BY <3>1, <3>6, <3>7
    <3>9. e \in foreign \/ o \in foreign
      <4>1. ASSUME e \notin foreign, o \notin foreign PROVE "FF" \in Kinds(wire[e])
        BY <1>1, <3>1, <3>5, <4>1 DEF Opened, Unheard
      <4>2. Kinds(wire[e]) = {}
        BY <2>5, KindsFacts DEF Silent
      <4> QED BY <4>1, <4>2
    <3>10. PICK n \in Int : LinedUp(wire[o], sess[o].out, sess[e].inc, n)
      BY <1>1, <3>5, <3>9 DEF Dealt, Lined
    <3>11. k \in DOMAIN sess[e].inc
      <4>1. DOMAIN sess[o].out = 1 .. Len(sess[o].out) /\ Len(sess[e].inc) \in Nat
            /\ DOMAIN sess[e].inc = 1 .. Len(sess[e].inc)
        BY <1>1
      <4> HIDE DEF as
      <4> QED BY <3>6, <3>8, <4>1
    <3>12. sess[e].inc[k] = m
      BY <3>10, <3>11 DEF LinedUp
    <3>13. AnswerTo(e, m) = "+"
      BY <3>6, <3>8, <3>11, <3>12
    <3>14. store[e][m] = "absent"
      BY <3>13 DEF AnswerTo
    <3>15. m \in Range(Wanted(e))
      <4>1. Range(Wanted(e)) = {x \in Range(sess[e].inc) : AnswerTo(e, x) = "+"}
        BY <1>1, WantedFacts
      <4>2. m \in Range(sess[e].inc)
        BY <3>11, <3>12 DEF Range
      <4> QED BY <3>13, <4>1, <4>2
    <3>16. granted'[o] = granted[o] \cup Range(Wanted(e))
      BY <3>4 DEF Books
    <3> QED BY <2>3, <3>14, <3>15, <3>16
  <2> QED BY <2>4, <2>5
<1> QED BY <1>2, <1>3

LEMMA LinedActive ==
  ASSUME NEW e, NEW o, NEW lines, NEW reads, Exchange(e, o, lines, reads), Opened(e), Opened(o),
         Dealt(e), Dealt(o)
  PROVE  Lined(e)'
<1>1. /\ Moves(e, lines, reads) /\ sess'[o] = sess[o] /\ foreign' = foreign /\ Other(e) = o /\ Other(o) = e
      /\ e \in End /\ TypeInv /\ wire[e] \in Seq(Line) /\ lines \in Seq(Line) /\ e # o
      /\ wire'[e] = wire[e] \/ wire'[e] = wire[e] \o lines
  BY Parts
<1> SUFFICES ASSUME e \in foreign \/ o \in foreign, sess'[e].at = "answer",
                    sess[o].at \in {"greet", "proposals"} \/ (o \notin foreign /\ sess[o].at = "answer")
             PROVE  \E k \in Int : /\ LinedUp(wire'[e], sess'[e].out, sess[o].inc, k)
                                   /\ sess[o].at = "answer" => k >= 1
  BY <1>1 DEF Lined
<1>2. Early(e) /\ sess'[e].out \in Seq(Msg)
      /\ \/ sess[e].at = "propose" /\ lines = Proposals(sess'[e].out)
         \/ e \in foreign /\ lines = <<FS(Responses(e))>> \o Proposals(sess'[e].out)
  BY <1>1 DEF Moves, MovesOpening, MovesTurn, MovesMail, Early, Asks
<1>3. Kinds(wire[e]) \subseteq {"SID", ">"} /\ sess[o].inc = <<>>
  BY <1>1, <1>2 DEF Opened, SaysLittle
<1> DEFINE p == wire[e]
           out == sess'[e].out
           n == Len(p)
<1>4. n \in Nat /\ \A k \in Int : k >= n => LinedUp(p, out, <<>>, k)
  BY <1>1, <1>2, <1>3, LinesUp
<1>5. CASE wire'[e] = p
  <2>1. n + 1 \in Int /\ n + 1 >= n /\ n + 1 >= 1
    BY <1>4
  <2>2. LinedUp(p, out, <<>>, n + 1)
    BY <1>4, <2>1
  <2> QED BY <1>3, <1>5, <2>1, <2>2
<1>6. CASE sess[e].at = "propose" /\ wire'[e] = p \o Proposals(out)
  <2>1. LinedUp(p \o Proposals(out), out, <<>>, n)
    BY <1>1, <1>2, <1>3, LinesUp
  <2>2. sess[o].at # "answer"
    <3>1. e \notin foreign
      BY <1>6 DEF Opened, Roles
    <3>2. sess[o].at \in {"greet", "proposals", "idle"}
      BY <1>1, <1>6, <3>1 DEF Opened, Turn
    <3> QED BY <3>2
  <2> QED BY <1>3, <1>4, <1>6, <2>1, <2>2
<1>7. CASE e \in foreign /\ wire'[e] = p \o (<<FS(Responses(e))>> \o Proposals(out))
  <2> DEFINE x == <<FS(Responses(e))>>
             y == Proposals(out)
             r == p \o x
  <2>1. x \in Seq(Line) /\ Kinds(x) = {"FS"} /\ Len(x) = 1
    <3>1. FS(Responses(e)) \in Line /\ FS(Responses(e)).kind = "FS"
      BY <1>1, ResponseFacts
    <3> QED BY <3>1, KindsFacts, OneLine
  <2>2. y \in Seq(Line)
    BY <1>2, ProposalLines
  <2> HIDE DEF x
  <2>3. r \in Seq(Line) /\ Kinds(r) \subseteq {"SID", ">", "FS"} /\ Len(r) = n + 1
    <3>1. Kinds(p \o x) = Kinds(p) \cup Kinds(x) /\ p \o x \in Seq(Line)
      BY <1>1, <2>1, KindsFacts
    <3>2. Len(p \o x) = Len(p) + Len(x)
      BY <1>1, <2>1, Joined
    <3> QED BY <1>3, <2>1, <3>1, <3>2
  <2>4. p \o (x \o y) = r \o y
    <3> HIDE DEF p, x, y
    <3>1. p \in Seq(Line)
      BY <1>1 DEF p
    <3>2. (p \o x) \o y = p \o (x \o y)
      BY <2>1, <2>2, <3>1, ConcatAssociative
    <3> QED BY <3>2
  <2> HIDE DEF r
  <2>5. LinedUp(r \o Proposals(out), out, <<>>, Len(r))
    BY <1>2, <2>3, LinesUp
  <2>6. wire'[e] = r \o Proposals(out)
    BY <1>7, <2>4 DEF x
  <2>7. n + 1 \in Int /\ n + 1 >= 1
    BY <1>4
  <2> QED BY <1>3, <2>3, <2>5, <2>6, <2>7
<1> QED BY <1>1, <1>2, <1>5, <1>6, <1>7

LEMMA LinedPassive ==
  ASSUME NEW e, NEW o, NEW lines, NEW reads, Exchange(e, o, lines, reads), Opened(e), Opened(o),
         Dealt(e), Dealt(o)
  PROVE  Lined(o)'
<1>1. /\ Moves(e, lines, reads) /\ sess'[o] = sess[o] /\ foreign' = foreign /\ Other(e) = o /\ Other(o) = e
      /\ wire[o] \in Seq(Line) /\ sess[o].out \in Seq(Msg) /\ sess[e].inc \in Seq(Msg) /\ e # o
      /\ wire'[o] = IF reads THEN Rest(wire[o]) ELSE wire[o]
  BY Parts
<1> SUFFICES ASSUME e \in foreign \/ o \in foreign, sess[o].at = "answer",
                    sess'[e].at \in {"greet", "proposals"} \/ (e \notin foreign /\ sess'[e].at = "answer")
             PROVE  \E k \in Int : /\ LinedUp(wire'[o], sess[o].out, sess'[e].inc, k)
                                   /\ sess'[e].at = "answer" => k >= 1
  BY <1>1 DEF Lined
<1>2. sess[e].at # "propose"
  <2>1. ASSUME sess[e].at = "propose" PROVE FALSE
    <3>1. e \notin foreign
      BY <2>1 DEF Opened, Roles
    <3>2. sess[o].at \in {"greet", "proposals", "idle"}
      BY <1>1, <2>1, <3>1 DEF Opened, Turn
    <3> QED BY <3>2
  <2> QED BY <2>1
<1>3. /\ sess'[e].at = "proposals"
      /\ \/ sess[e].at = "answer" /\ reads /\ e \notin foreign /\ sess'[e].inc = sess[e].inc
         \/ /\ sess[e].at = "proposals" /\ reads /\ Heard(e).kind = "FB"
            /\ sess'[e].inc = Append(sess[e].inc, Heard(e).msg)
         \/ /\ sess[e].at = "proposals" /\ reads /\ Heard(e).kind \notin {"FB", "FF", "FQ", ""}
            /\ sess'[e].inc = sess[e].inc
         \/ sess[e].at = "greet" /\ ~reads /\ sess'[e].inc = sess[e].inc
  BY <1>1, <1>2 DEF Moves, MovesOpening, MovesTurn, MovesMail, SameMail
<1> DEFINE q == wire[o]
           out == sess[o].out
           inc == sess[e].inc
<1>4. PICK k \in Int : LinedUp(q, out, inc, k) /\ (sess[e].at = "answer" => k >= 1)
  BY <1>1, <1>3 DEF Dealt, Lined
<1>5. wire[o] = <<>> => Heard(e).kind = ""
  BY KindFrame
<1>6. wire[o] # <<>> => Heard(e) = wire[o][1]
  BY KindFrame
<1>7. k - 1 \in Int
  OBVIOUS
<1>8. CASE sess[e].at = "answer" /\ reads /\ sess'[e].inc = sess[e].inc
  <2>1. LinedUp(Rest(q), out, inc, k - 1)
    BY <1>1, <1>4, <1>8, LineRead
  <2>2. wire'[o] = Rest(q)
    BY <1>1, <1>8
  <2> QED BY <1>3, <1>7, <1>8, <2>1, <2>2
<1>9. CASE reads /\ Heard(e).kind = "FB" /\ sess'[e].inc = Append(sess[e].inc, Heard(e).msg)
  <2>1. q # <<>> /\ Heard(e) = q[1]
    BY <1>5, <1>6, <1>9
  <2>2. LinedUp(Rest(q), out, Append(inc, q[1].msg), k - 1)
    BY <1>1, <1>4, <1>9, <2>1, ProposalRead
  <2>3. wire'[o] = Rest(q)
    BY <1>1, <1>9
  <2> QED BY <1>3, <1>7, <1>9, <2>1, <2>2, <2>3
<1>10. CASE reads /\ Heard(e).kind \notin {"FB", "FF", "FQ", ""} /\ sess'[e].inc = sess[e].inc
  <2>1. q # <<>> /\ Heard(e) = q[1]
    BY <1>5, <1>6, <1>10
  <2>2. 1 \in DOMAIN q /\ Len(out) \in Nat /\ DOMAIN out = 1 .. Len(out)
    BY <1>1, <2>1
  <2>3. k >= 1
    <3>1. /\ k < 1 /\ 1 <= k + Len(out) => q[1] = FB(out[1 - k])
          /\ k + Len(out) < 1 => q[1].kind = "FF"
      BY <1>4, <2>2 DEF LinedUp
    <3>2. ASSUME k < 1, 1 <= k + Len(out) PROVE FALSE
      <4>1. 1 - k \in 1 .. Len(out)
        BY <2>2, <3>2
      <4>2. out[1 - k] \in Msg
        BY <1>1, <2>2, <4>1
      <4>3. FB(out[1 - k]).kind = "FB"
        BY <4>2, TextLines
      <4> QED BY <1>10, <2>1, <3>1, <3>2, <4>3
    <3>3. ~(k + Len(out) < 1)
      <4>1. q[1].kind # "FF"
        BY <1>10, <2>1
      <4> QED BY <3>1, <4>1
    <3> QED BY <2>2, <3>2, <3>3
  <2>4. LinedUp(Rest(q), out, inc, k - 1)
    BY <1>1, <1>4, <2>3, LineRead
  <2>5. wire'[o] = Rest(q)
    BY <1>1, <1>10
  <2> QED BY <1>3, <1>7, <1>10, <2>4, <2>5
<1>11. CASE ~reads /\ sess'[e].inc = sess[e].inc
  <2>1. wire'[o] = q
    BY <1>1, <1>11
  <2> QED BY <1>3, <1>4, <1>11, <2>1
<1> QED BY <1>3, <1>8, <1>9, <1>10, <1>11

LEMMA BlocksFacts ==
  ASSUME NEW p \in Seq(Line), NEW x \in Seq(Line)
  PROVE  /\ Blocks(p \o x) = Blocks(p) \cup Blocks(x) /\ Blocks(Rest(p)) \subseteq Blocks(p)
         /\ "BLOCK" \notin Kinds(x) => Blocks(p \o x) = Blocks(p)
<1>1. Range(p \o x) = Range(p) \cup Range(x) /\ Range(Rest(p)) \subseteq Range(p)
  BY Joined, RestFacts
<1>2. Blocks(p \o x) = Blocks(p) \cup Blocks(x) /\ Blocks(Rest(p)) \subseteq Blocks(p)
  <2> DEFINE y == p \o x
             r == Rest(p)
  <2> HIDE DEF y, r
  <2>1. Range(y) = Range(p) \cup Range(x) => Blocks(y) = Blocks(p) \cup Blocks(x)
    BY DEF Blocks
  <2>2. Range(r) \subseteq Range(p) => Blocks(r) \subseteq Blocks(p)
    BY DEF Blocks
  <2> QED BY <1>1, <2>1, <2>2 DEF y, r
<1> QED BY <1>2, NoBlocks

LEMMA TailFacts ==
  ASSUME NEW ok \in Seq(Msg), ok # <<>>
  PROVE  /\ Tail(ok) \in Seq(Msg) /\ Range(Tail(ok)) \subseteq Range(ok)
         /\ Head(ok) = ok[1] /\ Head(ok) \in Range(ok)
         /\ Range(Tail(ok)) = {ok[i] : i \in {j \in DOMAIN ok : j > 1}}
         /\ Rising(ok) => Rising(Tail(ok)) /\ Head(ok) \notin Range(Tail(ok))
<1>1. /\ Tail(ok) \in Seq(Msg) /\ Head(ok) = ok[1] /\ 1 \in DOMAIN ok
      /\ DOMAIN ok = 1 .. Len(ok) /\ Len(ok) \in Nat
      /\ \A i \in DOMAIN Tail(ok) : i + 1 \in DOMAIN ok /\ Tail(ok)[i] = ok[i + 1] /\ i \in Nat /\ i >= 1
      /\ \A i \in DOMAIN ok : i > 1 => i - 1 \in DOMAIN Tail(ok) /\ Tail(ok)[i - 1] = ok[i]
  OBVIOUS
<1> DEFINE r == Tail(ok)
<1> HIDE DEF r
<1>2. Range(r) = {ok[i] : i \in {j \in DOMAIN ok : j > 1}}
  <2>1. ASSUME NEW i \in DOMAIN r PROVE r[i] \in {ok[j] : j \in {j \in DOMAIN ok : j > 1}}
    <3>1. i + 1 \in DOMAIN ok /\ r[i] = ok[i + 1] /\ i + 1 > 1
      BY <1>1 DEF r
    <3> QED BY <3>1
  <2>2. ASSUME NEW i \in DOMAIN ok, i > 1 PROVE ok[i] \in Range(r)
    BY <1>1, <2>2 DEF r, Range
  <2> QED BY <2>1, <2>2 DEF Range
<1>3. Range(r) \subseteq Range(ok) /\ Head(ok) \in Range(ok)
  BY <1>1, <1>2 DEF Range
<1>4. ASSUME Rising(ok) PROVE Rising(r) /\ Head(ok) \notin Range(r)
  <2>1. Rising(r)
    <3> SUFFICES ASSUME NEW i \in DOMAIN r, NEW j \in DOMAIN r, i < j PROVE r[i] < r[j]
      BY DEF Rising
    <3>1. i + 1 \in DOMAIN ok /\ j + 1 \in DOMAIN ok /\ i + 1 < j + 1 /\ r[i] = ok[i + 1] /\ r[j] = ok[j + 1]
      BY <1>1 DEF r
    <3> QED BY <1>4, <3>1 DEF Rising
  <2>2. ASSUME NEW i \in DOMAIN ok, i > 1 PROVE ok[1] # ok[i]
    <3>1. ok[1] < ok[i]
      BY <1>1, <1>4, <2>2 DEF Rising
    <3>2. ok[1] \in Msg /\ ok[i] \in Msg
      BY <1>1
    <3>3. ok[1] \in Nat /\ ok[i] \in Nat
      BY <3>2, Mails
    <3> QED BY <3>1, <3>3
  <2> QED BY <1>1, <1>2, <2>1, <2>2
<1> QED BY <1>1, <1>2, <1>3, <1>4 DEF r

LEMMA DueFacts ==
  ASSUME NEW s \in Session, s.at = "record" => s.ok # <<>>
  PROVE  /\ s.at # "record" => Due(s) = Range(s.ok)
         /\ s.at = "record" => s.ok # <<>> /\ Due(s) = Range(Tail(s.ok))
         /\ Due(s) \subseteq Msg /\ s.ok \in Seq(Msg)
<1>1. s.ok \in Seq(Msg)
  BY DEF Session
<1>2. ASSUME s.at # "record" PROVE Due(s) = Range(s.ok)
  BY <1>2 DEF Due, Range
<1>3. ASSUME s.at = "record" PROVE s.ok # <<>> /\ Due(s) = Range(Tail(s.ok))
  <2>1. s.ok # <<>>
    BY <1>3
  <2>2. Due(s) = {s.ok[i] : i \in {j \in DOMAIN s.ok : j > 1}}
    BY <1>3 DEF Due
  <2> QED BY <1>1, <2>1, <2>2, TailFacts
<1>4. Range(s.ok) \subseteq Msg
  BY <1>1 DEF Range
<1>5. s.ok # <<>> => Range(Tail(s.ok)) \subseteq Msg
  BY <1>1, <1>4, TailFacts
<1> QED BY <1>1, <1>2, <1>3, <1>4, <1>5

LEMMA CarefulPassive ==
  ASSUME NEW e, NEW o, NEW lines, NEW reads, Exchange(e, o, lines, reads), Books(e, o, lines),
         Opened(e), Opened(o), Dealt(e), Dealt(o)
  PROVE  Careful(o)'
<1>1. /\ sess'[o] = sess[o] /\ Other(o) = e /\ Other(e) = o /\ TypeInv /\ o \in End /\ e \in End
      /\ wire[o] \in Seq(Line) /\ wire'[o] = IF reads THEN Rest(wire[o]) ELSE wire[o]
      /\ sess[o] \in Session
  BY Parts
<1>2. Present(o)' = Present(o) /\ granted[o] \subseteq granted'[o]
  BY DEF Books, Present
<1>3. Careful(o)
  BY DEF Dealt
<1>4. ASSUME sess[o].at \in {"greet", "proposals", "send", "record"}
      PROVE  Kept(o, sess[o].ok, Due(sess[o]), wire[o])'
  <2> DEFINE due == Due(sess[o])
  <2>1. /\ Rising(sess[o].ok) /\ Range(sess[o].ok) \subseteq granted[o] \cap Present(o)
        /\ due \cap Present(e) = {} /\ due \cap Blocks(wire[o]) = {}
    BY <1>1, <1>3, <1>4 DEF Careful, Kept
  <2>2. due \subseteq Msg
    <3>1. Loaded(sess[o])
      BY <1>1, Halves
    <3> QED BY <1>1, <3>1, DueFacts DEF Loaded
  <2>3. Blocks(wire'[o]) \subseteq Blocks(wire[o])
    BY <1>1, BlocksFacts
  <2> HIDE DEF due
  <2>4. ASSUME NEW m \in due PROVE store'[e][m] = "absent"
    <3>1. m \in Msg /\ store[e][m] = "absent" /\ m \notin Blocks(wire[o])
      BY <2>1, <2>2 DEF Present
    <3> QED BY <3>1, StillAbsent
  <2>5. due \cap Present(e)' = {}
    BY <2>4 DEF Present
  <2>6. due \cap Blocks(wire'[o]) = {}
    BY <2>1, <2>3
  <2>7. Range(sess[o].ok) \subseteq granted'[o] \cap Present(o)'
    BY <1>2, <2>1
  <2>8. Due(sess[o])' = due
    BY <1>1 DEF due
  <2> QED BY <1>1, <2>1, <2>5, <2>6, <2>7, <2>8 DEF Kept
<1>5. sess[o].at = "answer" => Range(sess[o].out) \subseteq Present(o)
  BY <1>3 DEF Careful
<1> QED BY <1>1, <1>2, <1>4, <1>5 DEF Careful

GrantedBy(out, as, ok) ==
  Rising(ok) /\ \A m \in Range(ok) : \E k \in DOMAIN out : k <= Len(as) /\ as[k] = "+" /\ m = out[k]

LEMMA AcceptedIs ==
  ASSUME NEW out \in Seq(Msg), NEW as
  PROVE  GrantedBy(out, as, Accepted(out, as))
<1> DEFINE A == {out[i] : i \in {j \in DOMAIN out : j <= Len(as) /\ as[j] = "+"}}
<1>1. A \in SUBSET Msg /\ Accepted(out, as) = Ordered(A)
  BY AcceptedFacts, Zenon
<1>2. \A m \in A : \E k \in DOMAIN out : k <= Len(as) /\ as[k] = "+" /\ m = out[k]
  OBVIOUS
<1> HIDE DEF A
<1>3. Ordered(A) \in Seq(Msg) /\ Range(Ordered(A)) = A /\ Rising(Ordered(A))
  BY <1>1, Listing
<1> QED BY <1>1, <1>2, <1>3, Zenon DEF GrantedBy

LEMMA TurnMoves ==
  ASSUME NEW e, NEW s, NEW r, NEW h, NEW lines, MovesTurn(e, s, r, h, lines),
         s.at # "answer", r.at \notin {"answer", "idle"}
  PROVE  s.at = "proposals" /\ r.at \in {"proposals", "send"} /\ r.ok = s.ok /\ "BLOCK" \notin Kinds(lines)
BY DEF MovesTurn, SameMail, Silent

\* What is granted goes on being sent, one block after the other.
LEMMA CarefulActive ==
  ASSUME NEW e, NEW o, NEW lines, NEW reads, Exchange(e, o, lines, reads), Books(e, o, lines),
         Opened(e), Opened(o), Dealt(e), Dealt(o)
  PROVE  Careful(e)'
<1> DEFINE s == sess[e]
           r == sess'[e]
<1>1. /\ Moves(e, lines, reads) /\ sess'[o] = sess[o] /\ Other(o) = e /\ Other(e) = o /\ TypeInv /\ e \in End
      /\ wire[e] \in Seq(Line) /\ lines \in Seq(Line) /\ s \in Session /\ r \in Session
      /\ s.out \in Seq(Msg) /\ s.ok \in Seq(Msg)
      /\ wire'[e] = wire[e] \/ wire'[e] = wire[e] \o lines
  BY Parts
<1>2. s.at = "record" => s.ok # <<>>
  BY <1>1, Halves DEF Loaded
<1>3. store'[o] = store[o] /\ granted'[e] = granted[e]
      /\ \A m \in Msg : store[e][m] # "absent" => store'[e][m] # "absent"
  BY DEF Books
<1>4. Present(o)' = Present(o) /\ Present(e) \subseteq Present(e)'
  BY <1>3 DEF Present
<1>5. Careful(e)
  BY DEF Dealt
<1>6. Blocks(wire'[e]) \subseteq Blocks(wire[e]) \cup Blocks(lines)
  <2>1. Blocks(wire[e] \o lines) = Blocks(wire[e]) \cup Blocks(lines)
    BY <1>1, BlocksFacts
  <2>2. CASE wire'[e] = wire[e]
    BY <2>2
  <2>3. CASE wire'[e] = wire[e] \o lines
    BY <2>1, <2>3
  <2> QED BY <1>1, <2>2, <2>3
<1>7. "BLOCK" \notin Kinds(lines) => Blocks(wire'[e]) \subseteq Blocks(wire[e])
  BY <1>6, NoBlocks
<1>8. ASSUME r.at = "answer" PROVE Range(r.out) \subseteq Present(e)'
  <2>1. r.out \in Seq(Msg) /\ \A i \in DOMAIN r.out : store[e][r.out[i]] = "N"
    BY <1>1, <1>8 DEF Moves, MovesOpening, MovesTurn, MovesMail, Asks
  <2>2. Range(r.out) \subseteq Present(e)
    BY <2>1 DEF Range, Present
  <2> QED BY <1>4, <2>2
<1>9. ASSUME s.at = "answer", r.at \in {"proposals", "send"}
      PROVE  Kept(e, r.ok, Due(r), wire[e])
  <2> DEFINE as == Heard(e).answers
  <2>1. r.ok = Accepted(s.out, as) /\ Due(r) = Range(r.ok)
    <3>1. r.ok = Accepted(s.out, as)
      BY <1>1, <1>9 DEF Moves, MovesOpening, MovesTurn, MovesMail
    <3> QED BY <1>1, <1>9, <3>1, DueFacts
  <2>2. GrantedBy(s.out, as, r.ok)
    <3> HIDE DEF s, r, as
    <3>1. GrantedBy(s.out, as, Accepted(s.out, as))
      BY <1>1, AcceptedIs
    <3> QED BY <2>1, <3>1
  <2>3. ASSUME NEW k \in DOMAIN s.out, k <= Len(as), as[k] = "+"
        PROVE  s.out[k] \in granted[e] \cap Present(e) /\ s.out[k] \notin Present(o)
    <3>1. Heard(e).kind = "FS"
      <4>1. Heard(e).kind # "FS" => as = <<>>
        BY <1>1, Halves
      <4>2. k \in Nat /\ k >= 1
        BY <1>1
      <4>3. Len(<<>>) = 0
        OBVIOUS
      <4> HIDE DEF as
      <4>4. ASSUME as = <<>> PROVE FALSE
        <5>1. Len(as) = 0
          BY <4>3, <4>4, Zenon
        <5>2. k <= Len(as)
          BY <2>3
        <5> QED BY <4>2, <5>1, <5>2
      <4> QED BY <4>1, <4>4
    <3>2. wire[o] # <<>> /\ Heard(e) = wire[o][1]
      <4>1. wire[o] = <<>> => Heard(e).kind = ""
        BY KindFrame
      <4>2. wire[o] # <<>> => Heard(e) = wire[o][1]
        BY KindFrame
      <4> QED BY <3>1, <4>1, <4>2
    <3>3. Matched(e, as)
      BY <1>1, <1>9, <3>1, <3>2 DEF Dealt, Answered
    <3>4. s.out[k] \in granted[e] /\ store[o][s.out[k]] = "absent"
      BY <1>1, <2>3, <3>3 DEF Matched
    <3>5. s.out[k] \in Present(e)
      <4>1. s.out[k] \in Range(s.out)
        BY DEF Range
      <4> QED BY <1>5, <1>9, <4>1 DEF Careful
    <3> QED BY <3>4, <3>5 DEF Present
  <2>4. Blocks(wire[e]) = {}
    <3>1. "BLOCK" \notin Kinds(wire[e])
      BY <1>9 DEF Opened, SaysLittle
    <3> QED BY <3>1, NoBlocks
  <2> HIDE DEF s, r, as
  <2>5. ASSUME NEW m \in Range(r.ok) PROVE m \in granted[e] \cap Present(e) /\ m \notin Present(o)
    <3>1. PICK k \in DOMAIN s.out : k <= Len(as) /\ as[k] = "+" /\ m = s.out[k]
      BY <2>2 DEF GrantedBy
    <3> QED BY <2>3, <3>1
  <2>6. Range(r.ok) \subseteq granted[e] \cap Present(e) /\ Due(r) \cap Present(Other(e)) = {}
    BY <1>1, <2>1, <2>5
  <2> QED BY <2>2, <2>4, <2>6 DEF Kept, GrantedBy
<1>10. ASSUME s.at \in {"greet", "proposals", "send", "record"}
       PROVE  /\ Rising(s.ok) /\ Range(s.ok) \subseteq granted[e] \cap Present(e)
              /\ Due(s) \cap Present(o) = {} /\ Due(s) \cap Blocks(wire[e]) = {}
  BY <1>1, <1>5, <1>10 DEF Careful, Kept
<1>11. ASSUME r.at \in {"greet", "proposals", "send", "record"}, s.at # "answer"
       PROVE  /\ Rising(r.ok) /\ Range(r.ok) \subseteq granted[e] \cap Present(e)
              /\ Due(r) \cap Present(o) = {} /\ Due(r) \cap Blocks(wire'[e]) = {}
  <2>1. \/ /\ s.at \in {"greet", "proposals"} /\ r.at \in {"proposals", "send"} /\ r.ok = s.ok
           /\ "BLOCK" \notin Kinds(lines)
        \/ /\ s.at = "send" /\ r.at = "record" /\ r.ok = s.ok /\ s.ok # <<>>
           /\ lines = <<Block(Head(s.ok))>>
        \/ /\ s.at \in {"send", "record"} /\ r.at = "send" /\ r.ok = Tail(s.ok) /\ s.ok # <<>>
           /\ "BLOCK" \notin Kinds(lines)
        \/ r.at = "send" /\ r.ok = <<>>
    <3>1. CASE reads /\ SameMail(s, r) /\ MovesOpening(e, s, r, Heard(e).kind, lines)
      BY <1>11, <3>1 DEF MovesOpening
    <3>2. CASE reads /\ MovesTurn(e, s, r, Heard(e), lines)
      <4> HIDE DEF s, r
      <4>1. s.at = "proposals" /\ r.at \in {"proposals", "send"} /\ r.ok = s.ok /\ "BLOCK" \notin Kinds(lines)
        BY <1>11, <3>2, TurnMoves
      <4> QED BY <4>1
    <3>3. CASE MovesMail(s, r, Heard(e), lines, reads)
      <4> HIDE DEF s, r
      <4> QED BY <1>2, <1>11, <3>3 DEF MovesMail, SameMail, Silent
    <3>4. CASE /\ s.at = "propose" /\ ~reads /\ r.at = "answer" /\ r.ok = s.ok /\ r.inc = s.inc
               /\ Asks(e, r, lines) /\ Kinds(lines) \subseteq {"FB", "FF"} /\ "FF" \in Kinds(lines)
      BY <1>11, <3>4
    <3>5. CASE /\ s.at = "greet" /\ ~reads /\ r.at = "proposals" /\ SameMail(s, r)
               /\ lines = Greeting /\ Kinds(lines) = {"SID", ">"}
      BY <3>5 DEF SameMail
    <3>6. CASE s.at # "idle" /\ ~reads /\ r.at = "idle" /\ SameMail(s, r) /\ Silent(lines)
      BY <1>11, <3>6
    <3>7. Moves(e, lines, reads)
      BY <1>1
    <3> QED BY <3>1, <3>2, <3>3, <3>4, <3>5, <3>6, <3>7, Zenon DEF Moves
  <2>2. CASE /\ s.at \in {"greet", "proposals"} /\ r.at \in {"proposals", "send"} /\ r.ok = s.ok
             /\ "BLOCK" \notin Kinds(lines)
    <3>1. Due(s) = Range(s.ok) /\ Due(r) = Range(r.ok)
      BY <1>1, <2>2, DueFacts
    <3> HIDE DEF s, r
    <3> QED BY <1>7, <1>10, <2>2, <3>1
  <2>3. CASE /\ s.at = "send" /\ r.at = "record" /\ r.ok = s.ok /\ s.ok # <<>>
             /\ lines = <<Block(Head(s.ok))>>
    <3>1. Due(s) = Range(s.ok) /\ Due(r) = Range(Tail(s.ok))
      BY <1>1, <2>3, DueFacts
    <3>2. Range(Tail(s.ok)) \subseteq Range(s.ok) /\ Head(s.ok) \in Range(s.ok)
          /\ (Rising(s.ok) => Head(s.ok) \notin Range(Tail(s.ok)))
      BY <1>1, <2>3, TailFacts
    <3>3. Blocks(lines) = {Head(s.ok)}
      <4>1. Head(s.ok) \in Msg
        BY <1>1, <2>3
      <4> DEFINE l == Block(Head(s.ok))
      <4>2. l \in Line /\ l.kind = "BLOCK" /\ l.msg = Head(s.ok)
        BY <4>1, TextLines
      <4> HIDE DEF l
      <4>3. Range(<<l>>) = {l}
        BY <4>2, OneLine
      <4>4. lines = <<l>>
        BY <2>3 DEF l
      <4>5. Range(lines) = {l}
        BY <4>3, <4>4
      <4> QED BY <4>2, <4>5 DEF Blocks
    <3> HIDE DEF s, r
    <3> QED BY <1>6, <1>10, <2>3, <3>1, <3>2, <3>3
  <2>4. CASE /\ s.at \in {"send", "record"} /\ r.at = "send" /\ r.ok = Tail(s.ok) /\ s.ok # <<>>
             /\ "BLOCK" \notin Kinds(lines)
    <3>1. Due(r) = Range(Tail(s.ok)) /\ (s.at = "send" => Due(s) = Range(s.ok))
          /\ (s.at = "record" => Due(s) = Range(Tail(s.ok)))
      BY <1>1, <2>4, DueFacts
    <3>2. Range(Tail(s.ok)) \subseteq Range(s.ok) /\ (Rising(s.ok) => Rising(Tail(s.ok)))
      BY <1>1, <2>4, TailFacts
    <3> HIDE DEF s, r
    <3> QED BY <1>7, <1>10, <2>4, <3>1, <3>2
  <2>5. CASE r.at = "send" /\ r.ok = <<>>
    <3>1. Due(r) = Range(r.ok)
      BY <1>1, <2>5, DueFacts
    <3>2. Range(<<>>) = {} /\ Rising(<<>>)
      BY DEF Range, Rising
    <3> HIDE DEF r
    <3> QED BY <2>5, <3>1, <3>2
  <2> QED BY <2>1, <2>2, <2>3, <2>4, <2>5
<1>12. ASSUME r.at \in {"greet", "proposals", "send", "record"}
       PROVE  Kept(e, sess[e].ok, Due(sess[e]), wire[e])'
  <2>1. /\ Rising(r.ok) /\ Range(r.ok) \subseteq granted[e] \cap Present(e)
        /\ Due(r) \cap Present(o) = {} /\ Due(r) \cap Blocks(wire'[e]) = {}
    <3>1. CASE s.at = "answer"
      <4>1. r.at \in {"proposals", "send"} /\ "BLOCK" \notin Kinds(lines)
        BY <1>1, <1>12, <3>1 DEF Moves, MovesOpening, MovesTurn, MovesMail, Silent
      <4>2. Kept(e, r.ok, Due(r), wire[e])
        BY <1>9, <3>1, <4>1
      <4>3. Blocks(wire'[e]) \subseteq Blocks(wire[e])
        BY <1>7, <4>1
      <4> HIDE DEF r
      <4> QED BY <1>1, <4>2, <4>3 DEF Kept
    <3>2. CASE s.at # "answer"
      BY <1>11, <1>12, <3>2
    <3> QED BY <3>1, <3>2
  <2>2. Range(r.ok) \subseteq granted'[e] \cap Present(e)'
    BY <1>3, <1>4, <2>1
  <2>3. Due(sess[e])' = Due(r)
    BY DEF Due
  <2> QED BY <1>1, <1>4, <2>1, <2>2, <2>3 DEF Kept
<1> QED BY <1>1, <1>8, <1>12 DEF Careful

LEMMA MarkedKept ==
  ASSUME NEW e, NEW o, NEW lines, NEW reads, Exchange(e, o, lines, reads), Books(e, o, lines),
         Opened(e), Opened(o), Dealt(e), Dealt(o)
  PROVE  Marked(e)' /\ Marked(o)'
<1>1. Marked(e) /\ Marked(o) /\ Careful(e)
  BY DEF Dealt
<1>2. Marked(o)'
  BY <1>1 DEF Books, Marked
<1>3. ASSUME NEW m \in Msg, store'[e][m] = "F" PROVE m \in granted'[e]
  <2>1. granted'[e] = granted[e]
    BY DEF Books
  <2>2. \/ store'[e][m] = store[e][m]
        \/ sess[e].at = "record" /\ m = Head(sess[e].ok)
        \/ store'[e][m] = "N"
    BY DEF Books
  <2>3. CASE store'[e][m] = store[e][m]
    BY <1>1, <1>3, <2>1, <2>3 DEF Marked
  <2>4. CASE sess[e].at = "record" /\ m = Head(sess[e].ok)
    <3>1. TypeInv /\ e \in End /\ sess[e].ok \in Seq(Msg)
      BY Parts
    <3>2. sess[e].ok # <<>>
      BY <2>4, <3>1, Halves DEF Loaded
    <3>3. m \in Range(sess[e].ok)
      BY <2>4, <3>1, <3>2, TailFacts
    <3> QED BY <1>1, <2>1, <2>4, <3>3 DEF Careful, Kept
  <2> QED BY <1>3, <2>2, <2>3, <2>4
<1> QED BY <1>2, <1>3 DEF Marked

LEMMA DealtKept ==
  ASSUME NEW e, NEW o, NEW lines, NEW reads, Exchange(e, o, lines, reads), Books(e, o, lines),
         Opened(e), Opened(o), Dealt(e), Dealt(o)
  PROVE  Dealt(e)' /\ Dealt(o)'
BY AnsweredKept, LinedActive, LinedPassive, CarefulActive, CarefulPassive, MarkedKept DEF Dealt

-----------------------------------------------------------------------------
(***************************************************************************)
(* Faults: lines are lost from the end of what is on the way, and an end   *)
(* that died is idle.                                                      *)
(***************************************************************************)
Lost(e) ==
  /\ wire[e] \in Seq(Line) /\ wire'[e] \in Seq(Line)
  /\ Range(wire'[e]) \subseteq Range(wire[e]) /\ Kinds(wire'[e]) \subseteq Kinds(wire[e])
  /\ \A i \in DOMAIN wire'[e] : i \in DOMAIN wire[e] /\ wire'[e][i] = wire[e][i]
  /\ SameMail(sess[e], sess'[e]) /\ sess'[e].at \in {"idle", sess[e].at}
  /\ sess[e].ok \in Seq(Msg) /\ (sess[e].at = "record" => sess[e].ok # <<>>)

Fault(e) ==
  /\ Lost(e) /\ cut' = TRUE /\ foreign' = foreign /\ store' = store /\ granted' = granted

LEMMA FaultIs ==
  ASSUME TypeInv, NEW x \in End, Cut \/ Crash(x)
  PROVE  \A e \in End : Fault(e)
<1> SUFFICES ASSUME NEW e \in End PROVE Fault(e)
  OBVIOUS
<1>1. /\ Breaks /\ sess[e] \in Session /\ wire[e] \in Seq(Line) /\ Loaded(sess[e]) /\ TalkTyped
      /\ sess[x] \in Session
  BY Halves DEF Cut, Crash
<1>2. wire'[e] \in Prefixes(wire[e]) /\ cut' = TRUE /\ foreign' = foreign /\ UNCHANGED records
  BY <1>1, BreaksFacts
<1>3. /\ wire'[e] \in Seq(Line) /\ Range(wire'[e]) \subseteq Range(wire[e])
      /\ \A i \in DOMAIN wire'[e] : i \in DOMAIN wire[e] /\ wire'[e][i] = wire[e][i]
  BY <1>1, <1>2, Beginnings
<1>4. Kinds(wire'[e]) \subseteq Kinds(wire[e])
  BY <1>3 DEF Kinds
<1>5. sess' = sess \/ sess' = [sess EXCEPT ![x] = [sess[x] EXCEPT !.at = "idle"]]
  BY DEF Cut, Crash
<1>6. LET r == [sess[x] EXCEPT !.at = "idle"] IN r.at = "idle" /\ SameMail(sess[x], r)
  BY <1>1, Moved DEF SameMail, Stages
<1>7. SameMail(sess[e], sess'[e]) /\ sess'[e].at \in {"idle", sess[e].at}
  BY <1>1, <1>5, <1>6 DEF TalkTyped, SameMail
<1> QED BY <1>1, <1>2, <1>3, <1>4, <1>7 DEF Fault, Lost, records, Session, Loaded

LEMMA FaultOpened ==
  ASSUME NEW e \in End, NEW o \in End, Other(e) = o, Other(o) = e, Fault(e), Fault(o),
         Opened(e), Opened(o)
  PROVE  Opened(e)'
<1>1. /\ SameMail(sess[e], sess'[e]) /\ sess'[e].at \in {"idle", sess[e].at}
      /\ SameMail(sess[o], sess'[o]) /\ sess'[o].at \in {"idle", sess[o].at}
      /\ Kinds(wire'[e]) \subseteq Kinds(wire[e]) /\ Kinds(wire'[o]) \subseteq Kinds(wire[o])
      /\ cut' = TRUE /\ foreign' = foreign
  BY DEF Fault, Lost
<1>2. Roles(e)'
  BY <1>1 DEF Opened, Roles
<1>3. SaysLittle(e)'
  <2>1. Early(e)' => Early(e)
    BY <1>1 DEF Early
  <2> QED BY <1>1, <2>1 DEF Opened, SaysLittle, SameMail
<1>4. ASSUME NEW x \in End, Fault(x)
      PROVE  /\ wire'[x] # <<>> => wire[x] # <<>> /\ wire'[x][1] = wire[x][1]
             /\ Len(wire'[x]) >= 2 => Len(wire[x]) >= 2 /\ wire'[x][2] = wire[x][2]
  <2>1. /\ wire[x] \in Seq(Line) /\ wire'[x] \in Seq(Line)
        /\ \A i \in DOMAIN wire'[x] : i \in DOMAIN wire[x] /\ wire'[x][i] = wire[x][i]
    BY <1>4 DEF Fault, Lost
  <2>2. DOMAIN wire[x] = 1 .. Len(wire[x]) /\ Len(wire[x]) \in Nat
        /\ DOMAIN wire'[x] = 1 .. Len(wire'[x]) /\ Len(wire'[x]) \in Nat
    BY <2>1
  <2>3. ASSUME wire'[x] # <<>> PROVE wire[x] # <<>> /\ wire'[x][1] = wire[x][1]
    <3>1. 1 \in DOMAIN wire'[x]
      BY <2>1, <2>3
    <3>2. 1 \in DOMAIN wire[x] /\ wire'[x][1] = wire[x][1]
      BY <2>1, <3>1
    <3> QED BY <2>2, <3>2, EmptySeq
  <2>4. ASSUME Len(wire'[x]) >= 2 PROVE Len(wire[x]) >= 2 /\ wire'[x][2] = wire[x][2]
    <3>1. 2 \in DOMAIN wire'[x]
      BY <2>2, <2>4
    <3> QED BY <2>1, <2>2, <3>1
  <2> QED BY <2>3, <2>4
<1>5. Waiting(e)'
  BY <1>1, <1>4 DEF Opened, Waiting
<1>6. Prompted(e)'
  <2> SUFFICES ASSUME e = "caller", sess'[e].at \in {"sid", "prompt"}
               PROVE  \/ wire'[o] = <<>>
                      \/ sess'[e].at = "prompt" /\ wire'[o][1].kind = ">"
                      \/ wire'[o][1].kind = "SID" /\ (Len(wire'[o]) >= 2 => wire'[o][2].kind = ">")
    BY <1>1 DEF Prompted
  <2>1. sess'[e].at = sess[e].at
    BY <1>1
  <2> DEFINE q == wire[o]
  <2>2. \/ q = <<>>
        \/ sess[e].at = "prompt" /\ q[1].kind = ">"
        \/ q[1].kind = "SID" /\ (Len(q) >= 2 => q[2].kind = ">")
    BY <2>1 DEF Opened, Prompted
  <2> QED BY <1>4, <2>1, <2>2
<1>7. Turn(e)'
  BY <1>1 DEF Opened, Turn
<1>8. Unheard(e)'
  BY <1>1 DEF Unheard
<1> QED BY <1>2, <1>3, <1>5, <1>6, <1>7, <1>8 DEF Opened

LEMMA FaultDealt ==
  ASSUME NEW e \in End, NEW o \in End, Other(e) = o, Other(o) = e, Fault(e), Fault(o),
         Dealt(e), Dealt(o)
  PROVE  Dealt(e)'
<1>1. /\ SameMail(sess[e], sess'[e]) /\ sess'[e].at \in {"idle", sess[e].at}
      /\ SameMail(sess[o], sess'[o]) /\ sess'[o].at \in {"idle", sess[o].at}
      /\ Range(wire'[e]) \subseteq Range(wire[e])
      /\ wire[o] \in Seq(Line) /\ wire'[o] \in Seq(Line)
      /\ \A i \in DOMAIN wire'[e] : i \in DOMAIN wire[e] /\ wire'[e][i] = wire[e][i]
      /\ \A i \in DOMAIN wire'[o] : i \in DOMAIN wire[o] /\ wire'[o][i] = wire[o][i]
      /\ foreign' = foreign /\ store' = store /\ granted' = granted
  BY DEF Fault, Lost
<1>2. Answered(e)'
  <2> SUFFICES ASSUME sess'[e].at = "answer", wire'[o] # <<>>, wire'[o][1].kind = "FS",
                      NEW k \in DOMAIN sess'[e].out,
                      k <= Len(wire'[o][1].answers), wire'[o][1].answers[k] = "+"
               PROVE  sess'[e].out[k] \in granted'[e] /\ store'[o][sess'[e].out[k]] = "absent"
    BY DEF Answered, Matched
  <2>1. 1 \in DOMAIN wire'[o]
    BY <1>1
  <2>2. wire[o] # <<>> /\ wire'[o][1] = wire[o][1]
    BY <1>1, <2>1
  <2>3. Matched(e, wire[o][1].answers)
    BY <1>1, <2>2 DEF Dealt, Answered
  <2>4. sess'[e].out = sess[e].out
    BY <1>1 DEF SameMail
  <2> QED BY <1>1, <2>2, <2>3, <2>4 DEF Matched
<1>3. Lined(e)'
  <2> SUFFICES ASSUME e \in foreign \/ o \in foreign, sess'[e].at = "answer",
                      sess'[o].at \in {"greet", "proposals"} \/ (o \notin foreign /\ sess'[o].at = "answer")
               PROVE  \E k \in Int : /\ LinedUp(wire'[e], sess'[e].out, sess'[o].inc, k)
                                     /\ sess'[o].at = "answer" => k >= 1
    BY <1>1 DEF Lined
  <2>1. sess'[e].at = sess[e].at /\ sess'[o].at = sess[o].at
        /\ sess'[e].out = sess[e].out /\ sess'[o].inc = sess[o].inc
    BY <1>1 DEF SameMail
  <2>2. PICK k \in Int : LinedUp(wire[e], sess[e].out, sess[o].inc, k) /\ (sess[o].at = "answer" => k >= 1)
    BY <2>1 DEF Dealt, Lined
  <2>3. LinedUp(wire'[e], sess[e].out, sess[o].inc, k)
    BY <1>1, <2>2 DEF LinedUp
  <2> QED BY <2>1, <2>2, <2>3
<1>4. Careful(e)'
  <2>1. Present(e)' = Present(e) /\ Present(o)' = Present(o) /\ granted'[e] = granted[e]
    BY <1>1 DEF Present
  <2>2. Blocks(wire'[e]) \subseteq Blocks(wire[e])
    BY <1>1 DEF Blocks
  <2>3. sess'[e].out = sess[e].out /\ sess'[e].ok = sess[e].ok
    BY <1>1 DEF SameMail
  <2>4. ASSUME sess'[e].at \in {"greet", "proposals", "send", "record"}
        PROVE  Kept(e, sess[e].ok, Due(sess[e]), wire[e])'
    <3>1. sess'[e].at = sess[e].at
      BY <1>1, <2>4
    <3>2. Kept(e, sess[e].ok, Due(sess[e]), wire[e])
      BY <2>4, <3>1 DEF Dealt, Careful
    <3>3. Due(sess[e])' = Due(sess[e])
      BY <2>3, <3>1 DEF Due
    <3> QED BY <2>1, <2>2, <2>3, <3>2, <3>3 DEF Kept
  <2>5. sess'[e].at = "answer" => Range(sess[e].out) \subseteq Present(e)
    BY <1>1 DEF Dealt, Careful
  <2> QED BY <2>1, <2>3, <2>4, <2>5 DEF Careful
<1>5. Marked(e)'
  BY <1>1 DEF Dealt, Marked
<1> QED BY <1>2, <1>3, <1>4, <1>5 DEF Dealt


-----------------------------------------------------------------------------
(***************************************************************************)
(* The invariant: it holds at first, and every step keeps it.              *)
(***************************************************************************)
LEMMA IdleHolds ==
  ASSUME NEW e \in End, sess[e].at = "idle", wire[e] = <<>>, wire[Other(e)] = <<>>, Marked(e)
  PROVE  Opened(e) /\ Dealt(e)
<1>1. Kinds(wire[e]) = {}
  BY DEF Kinds, Range
<1>2. Roles(e) /\ Waiting(e) /\ Prompted(e) /\ Turn(e) /\ Unheard(e)
  BY DEF Roles, Waiting, Prompted, Turn, Unheard
<1>3. e \in foreign => sess[e].at # "proposals"
  OBVIOUS
<1>4. SaysLittle(e)
  BY <1>1, <1>3 DEF SaysLittle, Early
<1>5. Answered(e) /\ Lined(e) /\ Careful(e)
  BY DEF Answered, Lined, Careful
<1> QED BY <1>2, <1>4, <1>5 DEF Opened, Dealt

LEMMA InitHolds ==
  ASSUME Init, NEW e \in End
  PROVE  Opened(e) /\ Dealt(e)
<1>1. sess[e].at = "idle" /\ wire[e] = <<>> /\ wire[Other(e)] = <<>>
  BY Ends DEF Init
<1>2. Marked(e)
  BY DEF Init, Marked
<1> QED BY <1>1, <1>2, IdleHolds

LEMMA NoMailKept ==
  ASSUME NEW e, NEW p
  PROVE  Kept(e, <<>>, {}, p)
<1>1. Rising(<<>>) /\ Range(<<>>) = {}
  BY DEF Rising, Range
<1> QED BY <1>1 DEF Kept

\* Both ends of a new connection are in their opening, and nothing of the last
\* one is left on the wires.
LEMMA ConnectKeeps ==
  ASSUME TypeInv, Connect, NEW e \in End, Marked(e)
  PROVE  Opened(e)' /\ Dealt(e)'
<1> DEFINE o == Other(e)
<1>1. o \in End /\ Other(o) = e /\ o # e /\ {e, o} = {"caller", "called"}
  BY Ends DEF End, Other
<1>2. \A x \in End : /\ sess'[x].at = Opening(x) /\ sess'[x].out = <<>>
                     /\ sess'[x].ok = <<>> /\ sess'[x].inc = <<>>
  BY DEF Connect
<1>3. foreign' = foreign /\ store' = store /\ granted' = granted
  BY DEF Connect, records
<1>4. wire'["caller"] = <<Text("SID")>> /\ wire'["called"] = <<>>
  BY DEF Connect, End
<1>5. \A x \in End : Kinds(wire'[x]) \subseteq {"SID"}
  <2> DEFINE a == Text("SID")
  <2>1. a \in Line /\ a.kind = "SID"
    BY TextLines
  <2> HIDE DEF a
  <2>2. Range(<<a>>) = {a}
    BY <2>1, OneLine
  <2>3. Kinds(<<a>>) = {"SID"}
    BY <2>1, <2>2 DEF Kinds
  <2>4. Kinds(<<>>) = {}
    BY NothingWorded DEF Kinds
  <2>5. wire'["caller"] = <<a>>
    BY <1>4 DEF a
  <2> QED BY <1>4, <2>3, <2>4, <2>5 DEF End
<1>6. /\ sess'[e].at = Opening(e) /\ sess'[o].at = Opening(o)
      /\ sess'[e].ok = <<>> /\ sess'[o].inc = <<>>
      /\ Kinds(wire'[e]) \subseteq {"SID"} /\ Kinds(wire'[o]) \subseteq {"SID"}
  BY <1>1, <1>2, <1>5
<1>7. e = "called" => wire'[e] = <<>>
  BY <1>4
<1>8. e = "caller" => wire'[o] = <<>>
  BY <1>4 DEF Other
<1>9. Roles(e)'
  BY <1>3, <1>6, <1>1 DEF Roles, Opening
<1>10. SaysLittle(e)'
  BY <1>6 DEF SaysLittle
<1>11. Waiting(e)'
  BY <1>3, <1>6, <1>7, <1>1 DEF Waiting, Opening
<1>12. Prompted(e)'
  BY <1>6, <1>8, <1>1 DEF Prompted, Opening
<1>13. Turn(e)'
  BY <1>3, <1>6 DEF Turn, Opening
<1>14. Unheard(e)'
  BY <1>3, <1>6 DEF Unheard, Opening
<1>15. sess'[e].at \notin {"answer", "record"}
  BY <1>6 DEF Opening
<1>16. Answered(e)' /\ Lined(e)'
  BY <1>15 DEF Answered, Lined
<1>17. Careful(e)'
  <2>1. Due(sess'[e]) = {}
    BY <1>6 DEF Due
  <2>2. Kept(e, sess[e].ok, Due(sess[e]), wire[e])'
    BY <1>6, <2>1, NoMailKept DEF Kept, Rising, Range
  <2> QED BY <1>15, <2>2 DEF Careful
<1>18. Marked(e)'
  BY <1>3 DEF Marked
<1> QED BY <1>9, <1>10, <1>11, <1>12, <1>13, <1>14, <1>16, <1>17, <1>18 DEF Opened, Dealt

\* What ties the sessions, the wires and the stores of the two ends together.
ForwardInv == TypeInv /\ \A e \in End : Opened(e) /\ Dealt(e)

LEMMA StutterKeeps ==
  ASSUME UNCHANGED vars, ForwardInv
  PROVE  ForwardInv'
BY SMTT(30) DEF vars, ForwardInv, TypeInv, TypeOK, Worded, Loaded, Opened, Roles, SaysLittle, Early, Waiting, Prompted, Turn,
   Unheard, Dealt, Answered, Matched, Lined, Careful, Marked, Kept, Present

LEMMA StepHolds ==
  ASSUME ForwardInv, [Next]_vars
  PROVE  ForwardInv'
<1>1. TypeInv /\ \A e \in End : Opened(e) /\ Dealt(e)
  BY DEF ForwardInv
<1>2. TypeInv'
  BY <1>1, StepTypes
<1>3. CASE UNCHANGED vars
  BY <1>3, StutterKeeps
<1>4. CASE Connect
  <2>1. \A e \in End : Opened(e)' /\ Dealt(e)'
    BY <1>1, <1>4, ConnectKeeps DEF Dealt
  <2> QED BY <1>2, <2>1 DEF ForwardInv
<1>5. ASSUME NEW x \in End, Cut \/ Crash(x)
      PROVE  ForwardInv'
  <2>1. \A e \in End : Fault(e)
    BY <1>1, <1>5, FaultIs
  <2>2. ASSUME NEW e \in End PROVE Opened(e)' /\ Dealt(e)'
    <3>1. Other(e) \in End /\ Other(Other(e)) = e
      BY Ends
    <3> QED BY <1>1, <2>1, <3>1, FaultOpened, FaultDealt
  <2> QED BY <1>2, <2>2 DEF ForwardInv
<1>6. ASSUME NEW e \in End, Does(e)
      PROVE  ForwardInv'
  <2> DEFINE o == Other(e)
  <2>1. o \in End /\ Other(o) = e /\ o # e /\ \A x \in End : x = e \/ x = o
    BY Ends DEF End
  <2>2. PICK lines : \E reads \in BOOLEAN : Talks(e, o, lines, reads) /\ Books(e, o, lines)
    BY <1>1, <1>6, Doing
  <2>3. PICK reads \in BOOLEAN : Talks(e, o, lines, reads) /\ Books(e, o, lines)
    BY <2>2
  <2>4. Exchange(e, o, lines, reads)
    BY <1>1, <2>1, <2>3 DEF Exchange
  <2>5. Opened(e)' /\ Opened(o)' /\ Dealt(e)' /\ Dealt(o)'
    BY <1>1, <2>1, <2>3, <2>4, OpenedKept, DealtKept
  <2>6. ASSUME NEW x \in End PROVE Opened(x)' /\ Dealt(x)'
    <3>1. CASE x = e
      BY <2>5, <3>1
    <3>2. CASE x = o
      BY <2>5, <3>2
    <3> QED BY <2>1, <3>1, <3>2
  <2> QED BY <1>2, <2>6 DEF ForwardInv
<1>7. CASE Next
  BY <1>4, <1>5, <1>6, <1>7 DEF Next, Does, End
<1> QED BY <1>3, <1>7

(***************************************************************************)
(* In every reachable state, whatever was cut, died or came late, the ends *)
(* stand to each other as the opening says (Opened), and what one has      *)
(* proposed, been granted and still to send agrees with what the other has *)
(* heard, stored and has on its way (Dealt).                               *)
(***************************************************************************)
THEOREM Invariance == Spec => []ForwardInv
<1>1. Init => ForwardInv
  BY InitTypes, InitHolds DEF ForwardInv
<1>2. ForwardInv /\ [Next]_vars => ForwardInv'
  BY StepHolds
<1> QED BY <1>1, <1>2, PTL DEF Spec

(***************************************************************************)
(* A board marks a message forwarded (Record) only when the other asked    *)
(* for that very message.  The answers come back as a row of signs, paired *)
(* with the proposals by position (ReadAnswer); what makes the pairing     *)
(* right, whatever is cut, times out or is late, is that the answering end *)
(* heard a beginning of the proposals and in their order (Lined), and that *)
(* no other row can be what stands there when it is read (Answered).       *)
(***************************************************************************)
THEOREM MarkedForwardedWasGranted == Spec => []MarkedWasGranted
<1>1. ForwardInv => MarkedWasGranted
  BY DEF ForwardInv, Dealt, Marked, MarkedWasGranted
<1> QED BY <1>1, Invariance, PTL

(***************************************************************************)
(* A board that is about to send a block (Send) sends it to one that does  *)
(* not have the message: neither again, when the record of the first time  *)
(* was lost, nor back to where it came from, when a crash left it without  *)
(* its path.  What is due is not on the other board, nor in a block on its *)
(* way there (Careful).                                                    *)
(***************************************************************************)
THEOREM BlocksAreNew == Spec => []NoneSentTwice
<1>1. ASSUME ForwardInv PROVE NoneSentTwice
  <2> SUFFICES ASSUME NEW e \in End, sess[e].at = "send", NEW i \in DOMAIN sess[e].ok
               PROVE  store[Other(e)][sess[e].ok[i]] = "absent"
    BY DEF NoneSentTwice
  <2>1. sess[e] \in Session /\ Kept(e, sess[e].ok, Due(sess[e]), wire[e])
    BY <1>1 DEF ForwardInv, TypeInv, TypeOK, Dealt, Careful
  <2>2. Due(sess[e]) = Range(sess[e].ok) /\ sess[e].ok \in Seq(Msg)
    BY <2>1, DueFacts
  <2>3. sess[e].ok[i] \in Due(sess[e]) /\ sess[e].ok[i] \in Msg
    BY <2>2 DEF Range
  <2> QED BY <2>1, <2>3 DEF Kept, Present
<1> QED BY <1>1, Invariance, PTL

-----------------------------------------------------------------------------
(***************************************************************************)
(* A session with a foreign end that nothing disturbs goes from phase to   *)
(* phase, and in each of them what is on the wires is what the two ends    *)
(* are about to read.  First what is read and said of a list of lines.     *)
(***************************************************************************)
\* Proposals up to the line that ends them, and z after it.
Listed(p, z) ==
  \E q \in Seq(Line) : Kinds(q) \subseteq {"SID", ">", "FB"} /\ p = q \o (<<Text("FF")>> \o z)

\* What is still to be sent: a block is out before it is recorded, and what a
\* session at "path" holds is a message it has received.
Left(s) ==
  CASE s.at = "record" -> Tail(s.ok) [] s.at = "path" -> <<>> [] OTHER -> s.ok

\* The n blocks the other end waits for are on the way or left to be sent, the
\* other lines come after all of them, and of what was proposed all that is not
\* too big is among them, or there.
Carries(p, left, out, n, there) ==
  \E b \in Seq(Line), z \in Seq(Line) :
    /\ p = b \o z /\ Kinds(b) \subseteq {"BLOCK"}
    /\ z # <<>> => left = <<>>
    /\ Len(b) + Len(left) = n
    /\ Range(out) \ TooBig \subseteq there \cup Range(left) \cup Blocks(b)

LEMMA NoLines == <<>> \in Seq(Line) /\ Len(<<>>) = 0 /\ Kinds(<<>>) = {} /\ Blocks(<<>>) = {}
BY NothingWorded, NoBlocks DEF Kinds

LEMMA JoinRead ==
  ASSUME NEW p \in Seq(Line), NEW x \in Seq(Line), p # <<>>
  PROVE  /\ p \o x # <<>> /\ First(p \o x) = First(p) /\ Rest(p \o x) = Rest(p) \o x
         /\ First(p) \in Line /\ Rest(p) \in Seq(Line) /\ Len(Rest(p)) = Len(p) - 1
         /\ First(p).kind \in Kinds(p) /\ Kinds(Rest(p)) \subseteq Kinds(p)
         /\ Blocks(p) \subseteq {First(p).msg} \cup Blocks(Rest(p))
<1> DEFINE y == p \o x
           r == Tail(p)
           t == Tail(y)
<1>1. /\ y \in Seq(Line) /\ Len(y) = Len(p) + Len(x) /\ Len(p) \in Nat /\ Len(x) \in Nat
      /\ \A i \in 1 .. Len(p) + Len(x) : y[i] = IF i <= Len(p) THEN p[i] ELSE x[i - Len(p)]
  BY ConcatProperties, LenProperties
<1>2. Len(p) >= 1
  BY <1>1, EmptySeq
<1> HIDE DEF y
<1>3. y # <<>>
  BY <1>1, <1>2, NoLines
<1>4. /\ r \in Seq(Line) /\ Len(r) = Len(p) - 1 /\ \A i \in 1 .. Len(r) : r[i] = p[i + 1]
      /\ t \in Seq(Line) /\ Len(t) = Len(y) - 1 /\ \A i \in 1 .. Len(t) : t[i] = y[i + 1]
  BY <1>1, <1>3, HeadTailProperties
<1> HIDE DEF r, t
<1>5. t = r \o x
  <2> DEFINE c == r \o x
  <2>1. /\ c \in Seq(Line) /\ Len(c) = Len(r) + Len(x)
        /\ \A i \in 1 .. Len(r) + Len(x) : c[i] = IF i <= Len(r) THEN r[i] ELSE x[i - Len(r)]
    <3>1. r \in Seq(Line)
      BY <1>4
    <3> QED BY <3>1, ConcatProperties
  <2> HIDE DEF c
  <2>2. ASSUME NEW i \in 1 .. Len(t) PROVE t[i] = c[i]
    <3>1. i + 1 \in 1 .. Len(p) + Len(x) /\ i \in 1 .. Len(r) + Len(x) /\ t[i] = y[i + 1]
      BY <1>1, <1>4
    <3>2. y[i + 1] = IF i + 1 <= Len(p) THEN p[i + 1] ELSE x[(i + 1) - Len(p)]
      BY <1>1, <3>1
    <3>3. c[i] = IF i <= Len(r) THEN r[i] ELSE x[i - Len(r)]
      BY <2>1, <3>1
    <3>4. (i + 1) - Len(p) = i - Len(r) /\ (i + 1 <= Len(p) <=> i <= Len(r)) /\ (i <= Len(r) => i \in 1 .. Len(r))
      BY <1>1, <1>4
    <3>5. i <= Len(r) => r[i] = p[i + 1]
      BY <1>4, <3>4
    <3> QED BY <3>1, <3>2, <3>3, <3>4, <3>5
  <2>3. Len(t) = Len(c)
    BY <1>1, <1>4, <2>1
  <2>4. t = c
    BY <1>4, <2>1, <2>2, <2>3, SeqEqual
  <2> QED BY <2>4 DEF c
<1>6. First(p) = p[1] /\ First(p) \in Range(p) /\ Range(p) = {First(p)} \cup Range(Rest(p)) /\ First(p) \in Line
  BY RestFacts
<1>7. First(y) = y[1] /\ y[1] = p[1]
  <2>1. y \in Seq(Line)
    BY <1>1
  <2>2. First(y) = y[1]
    BY <1>3, <2>1, RestFacts
  <2>3. 1 \in 1 .. Len(p) + Len(x) /\ 1 <= Len(p)
    BY <1>1, <1>2
  <2>4. y[1] = p[1]
    BY <1>1, <2>3
  <2> QED BY <2>2, <2>4
<1>8. Rest(p) = r /\ Rest(y) = t
  BY <1>3 DEF Rest, r, t
<1>9. First(p).kind \in Kinds(p) /\ Kinds(Rest(p)) \subseteq Kinds(p)
  BY <1>6 DEF Kinds
<1>10. Blocks(p) \subseteq {First(p).msg} \cup Blocks(Rest(p))
  BY <1>6 DEF Blocks
<1>11. First(y) = First(p) /\ Rest(y) = Rest(p) \o x
  BY <1>5, <1>6, <1>7, <1>8
<1>12. Rest(p) \in Seq(Line) /\ Len(Rest(p)) = Len(p) - 1
  BY <1>4, <1>8
<1> QED BY <1>3, <1>6, <1>9, <1>10, <1>11, <1>12 DEF y

LEMMA ListRead ==
  ASSUME NEW p \in Seq(Line), NEW z \in Seq(Line), Listed(p, z)
  PROVE  /\ p # <<>>
         /\ \/ First(p).kind = "FF" /\ Rest(p) = z
            \/ First(p).kind \in {"SID", ">", "FB"} /\ Listed(Rest(p), z)
<1> DEFINE l == Text("FF")
<1>1. l \in Line /\ l.kind = "FF"
  BY TextLines
<1>2. PICK q \in Seq(Line) : Kinds(q) \subseteq {"SID", ">", "FB"} /\ p = q \o (<<l>> \o z)
  BY DEF Listed
<1> DEFINE w == <<l>> \o z
<1>3. <<l>> \in Seq(Line) /\ Len(<<l>>) = 1
  BY <1>1, OneLine
<1>4. <<l>> # <<>>
  BY <1>3, NoLines
<1>5. w \in Seq(Line) /\ w # <<>> /\ First(w) = First(<<l>>) /\ Rest(w) = Rest(<<l>>) \o z
  BY <1>3, <1>4, JoinRead, ConcatProperties
<1>6. First(<<l>>) = l /\ Rest(<<l>>) = <<>>
  <2>1. Head(<<l>>) = l /\ Tail(<<l>>) = <<>>
    OBVIOUS
  <2> QED BY <1>4, <2>1 DEF First, Rest
<1>7. Rest(w) = z /\ First(w).kind = "FF"
  BY <1>1, <1>5, <1>6, ConcatEmptySeq
<1>8. CASE q = <<>>
  <2>1. p = w
    BY <1>2, <1>5, <1>8, ConcatEmptySeq
  <2> QED BY <1>5, <1>7, <2>1
<1>9. CASE q # <<>>
  <2>1. /\ p # <<>> /\ First(p) = First(q) /\ Rest(p) = Rest(q) \o w /\ Rest(q) \in Seq(Line)
        /\ First(q).kind \in Kinds(q) /\ Kinds(Rest(q)) \subseteq Kinds(q)
    BY <1>2, <1>5, <1>9, JoinRead
  <2>2. Listed(Rest(p), z)
    BY <1>2, <2>1 DEF Listed
  <2> QED BY <1>2, <2>1, <2>2
<1> QED BY <1>8, <1>9

LEMMA ListSaid ==
  ASSUME NEW w \in Seq(Line), Kinds(w) \subseteq {"SID", ">"}, NEW out \in Seq(Msg)
  PROVE  Listed(w \o Proposals(out), <<>>)
<1> DEFINE x == [i \in DOMAIN out |-> FB(out[i])]
           y == <<Text("FF")>>
<1>1. Text("FF") \in Line
  BY TextLines
<1>2. y \in Seq(Line)
  BY <1>1, OneLine
<1>3. x \in Seq(Line) /\ Kinds(x) \subseteq {"FB"}
  <2>1. DOMAIN out = 1 .. Len(out) /\ Len(out) \in Nat /\ \A i \in DOMAIN out : out[i] \in Msg
    OBVIOUS
  <2>2. \A i \in DOMAIN out : FB(out[i]) \in Line /\ FB(out[i]).kind = "FB"
    BY <2>1, TextLines
  <2>3. x \in [1 .. Len(out) -> Line] /\ \A i \in DOMAIN x : x[i].kind = "FB"
    BY <2>1, <2>2
  <2> HIDE DEF x
  <2>4. x \in Seq(Line)
    BY <2>1, <2>3
  <2> QED BY <2>3, <2>4 DEF Kinds, Range
<1>4. Proposals(out) = x \o y
  BY DEF Proposals
<1> HIDE DEF x, y
<1>5. w \o (x \o y) = (w \o x) \o y /\ y \o <<>> = y
  BY <1>2, <1>3, ConcatAssociative, ConcatEmptySeq
<1>6. w \o x \in Seq(Line) /\ Kinds(w \o x) = Kinds(w) \cup Kinds(x)
  BY <1>3, KindsFacts
<1> DEFINE q == w \o x
<1>7. q \in Seq(Line) /\ Kinds(q) \subseteq {"SID", ">", "FB"} /\ w \o Proposals(out) = q \o (y \o <<>>)
  BY <1>3, <1>4, <1>5, <1>6
<1> HIDE DEF q
<1> QED BY <1>7 DEF Listed, y

LEMMA ListGoesOn ==
  ASSUME NEW p \in Seq(Line), NEW x \in Seq(Line), Listed(p, <<>>)
  PROVE  Listed(p \o x, x)
<1> DEFINE l == Text("FF")
<1>1. l \in Line
  BY TextLines
<1>2. PICK q \in Seq(Line) : Kinds(q) \subseteq {"SID", ">", "FB"} /\ p = q \o (<<l>> \o <<>>)
  BY DEF Listed
<1>3. <<l>> \in Seq(Line)
  BY <1>1, OneLine
<1>4. p = q \o <<l>>
  BY <1>2, <1>3, ConcatEmptySeq
<1>5. p \o x = q \o (<<l>> \o x)
  BY <1>3, <1>4, ConcatAssociative
<1> QED BY <1>2, <1>5 DEF Listed

\* What carrying comes to when nothing is on the way, and as blocks go out and
\* come in.
LEMMA NoneOnTheWay ==
  ASSUME NEW left \in Seq(Msg), NEW out, NEW n, NEW there, Len(left) = n,
         Range(out) \ TooBig \subseteq there \cup Range(left)
  PROVE  Carries(<<>>, left, out, n, there)
<1>1. <<>> = <<>> \o <<>>
  BY NoLines, ConcatEmptySeq
<1>2. Len(<<>>) + Len(left) = n
  BY NoLines, LenProperties
<1> QED BY <1>1, <1>2, NoLines DEF Carries

LEMMA CarriesMore ==
  ASSUME NEW p, NEW left, NEW out, NEW n, NEW there, NEW more, Carries(p, left, out, n, there),
         there \subseteq more
  PROVE  Carries(p, left, out, n, more)
<1>1. PICK b \in Seq(Line), z \in Seq(Line) :
        /\ p = b \o z /\ Kinds(b) \subseteq {"BLOCK"}
        /\ z # <<>> => left = <<>>
        /\ Len(b) + Len(left) = n
        /\ Range(out) \ TooBig \subseteq there \cup Range(left) \cup Blocks(b)
  BY DEF Carries
<1>2. Range(out) \ TooBig \subseteq more \cup Range(left) \cup Blocks(b)
  BY <1>1
<1> QED BY <1>1, <1>2 DEF Carries

LEMMA BlockSent ==
  ASSUME NEW p \in Seq(Line), NEW left \in Seq(Msg), left # <<>>, NEW out, NEW n, NEW there,
         Carries(p, left, out, n, there)
  PROVE  Carries(p \o <<Block(Head(left))>>, Tail(left), out, n, there)
<1> DEFINE l == Block(Head(left))
<1>1. PICK b \in Seq(Line), z \in Seq(Line) :
        /\ p = b \o z /\ Kinds(b) \subseteq {"BLOCK"}
        /\ z # <<>> => left = <<>>
        /\ Len(b) + Len(left) = n
        /\ Range(out) \ TooBig \subseteq there \cup Range(left) \cup Blocks(b)
  BY DEF Carries
<1>2. p = b /\ z = <<>>
  BY <1>1, ConcatEmptySeq
<1>3. Head(left) \in Msg /\ Tail(left) \in Seq(Msg) /\ Len(Tail(left)) = Len(left) - 1 /\ Len(left) \in Nat
  BY HeadTailProperties, LenProperties
<1>4. l \in Line /\ l.kind = "BLOCK" /\ l.msg = Head(left)
  BY <1>3, TextLines
<1>5. Range(left) \subseteq {Head(left)} \cup Range(Tail(left))
  <2>1. /\ Range(Tail(left)) = {left[i] : i \in {j \in DOMAIN left : j > 1}} /\ Head(left) = left[1]
    BY TailFacts
  <2>2. \A i \in DOMAIN left : i = 1 \/ i > 1
    BY LenProperties
  <2> QED BY <2>1, <2>2 DEF Range
<1> HIDE DEF l
<1>6. <<l>> \in Seq(Line) /\ Len(<<l>>) = 1 /\ Range(<<l>>) = {l}
  BY <1>4, OneLine
<1>7. Kinds(<<l>>) = {"BLOCK"} /\ Blocks(<<l>>) = {Head(left)}
  BY <1>4, <1>6 DEF Kinds, Blocks
<1> DEFINE c == b \o <<l>>
<1>8. c \in Seq(Line) /\ Len(c) = Len(b) + 1 /\ Len(b) \in Nat
  BY <1>6, Joined
<1>9. Kinds(c) \subseteq {"BLOCK"}
  BY <1>1, <1>6, <1>7, KindsFacts
<1>10. Blocks(c) = Blocks(b) \cup {Head(left)}
  <2>1. Blocks(b \o <<l>>) = Blocks(b) \cup Blocks(<<l>>)
    BY <1>6, BlocksFacts
  <2> QED BY <1>7, <2>1
<1> HIDE DEF c
<1>11. c = c \o <<>>
  BY <1>8, ConcatEmptySeq
<1>12. Len(c) + Len(Tail(left)) = n
  BY <1>1, <1>3, <1>8
<1>13. Range(out) \ TooBig \subseteq there \cup Range(Tail(left)) \cup Blocks(c)
  BY <1>1, <1>5, <1>10
<1>14. Carries(c, Tail(left), out, n, there)
  BY <1>8, <1>9, <1>11, <1>12, <1>13, NoLines DEF Carries
<1> QED BY <1>2, <1>14 DEF c, l

LEMMA SaidAfter ==
  ASSUME NEW p \in Seq(Line), NEW x \in Seq(Line), NEW out, NEW n, NEW there,
         Carries(p, <<>>, out, n, there)
  PROVE  Carries(p \o x, <<>>, out, n, there)
<1> DEFINE e == <<>>
<1>1. PICK b \in Seq(Line), z \in Seq(Line) :
        /\ p = b \o z /\ Kinds(b) \subseteq {"BLOCK"}
        /\ Len(b) + Len(e) = n
        /\ Range(out) \ TooBig \subseteq there \cup Range(e) \cup Blocks(b)
  BY DEF Carries
<1>2. p \o x = b \o (z \o x)
  BY <1>1, ConcatAssociative
<1>3. z \o x \in Seq(Line)
  BY Joined
<1> QED BY <1>1, <1>2, <1>3 DEF Carries

LEMMA BlockRead ==
  ASSUME NEW p \in Seq(Line), NEW left \in Seq(Msg), NEW out, NEW n \in Nat, n > 0, NEW there,
         Carries(p, left, out, n, there)
  PROVE  \/ p = <<>> /\ left # <<>>
         \/ /\ p # <<>> /\ First(p).kind = "BLOCK"
            /\ Carries(Rest(p), left, out, n - 1, there \cup {First(p).msg})
<1>1. PICK b \in Seq(Line), z \in Seq(Line) :
        /\ p = b \o z /\ Kinds(b) \subseteq {"BLOCK"}
        /\ z # <<>> => left = <<>>
        /\ Len(b) + Len(left) = n
        /\ Range(out) \ TooBig \subseteq there \cup Range(left) \cup Blocks(b)
  BY DEF Carries
<1>2. Len(b) \in Nat /\ Len(left) \in Nat
  BY LenProperties
<1>3. CASE b = <<>>
  <2>1. Len(left) = n
    BY <1>1, <1>2, <1>3, NoLines
  <2>2. left # <<>>
    BY <2>1, EmptySeq
  <2>3. p = <<>>
    BY <1>1, <1>3, <2>2, ConcatEmptySeq
  <2> QED BY <2>2, <2>3
<1>4. CASE b # <<>>
  <2>1. /\ p # <<>> /\ First(p) = First(b) /\ Rest(p) = Rest(b) \o z
        /\ First(b) \in Line /\ Rest(b) \in Seq(Line) /\ Len(Rest(b)) = Len(b) - 1
        /\ First(b).kind \in Kinds(b) /\ Kinds(Rest(b)) \subseteq Kinds(b)
        /\ Blocks(b) \subseteq {First(b).msg} \cup Blocks(Rest(b))
    BY <1>1, <1>4, JoinRead
  <2>2. First(p).kind = "BLOCK" /\ Kinds(Rest(b)) \subseteq {"BLOCK"}
    BY <1>1, <2>1
  <2>3. Len(Rest(b)) + Len(left) = n - 1
    BY <1>1, <1>2, <2>1
  <2>4. Range(out) \ TooBig \subseteq (there \cup {First(p).msg}) \cup Range(left) \cup Blocks(Rest(b))
    BY <1>1, <2>1
  <2>5. Carries(Rest(p), left, out, n - 1, there \cup {First(p).msg})
    BY <1>1, <2>1, <2>2, <2>3, <2>4 DEF Carries
  <2> QED BY <2>1, <2>2, <2>5
<1> QED BY <1>3, <1>4

\* As many proposals are accepted as were wanted, when the answers are to these
\* very proposals: no message is proposed twice.
LEMMA AnswersMatch ==
  ASSUME TypeInv, NEW e \in End, Rising(sess[e].inc)
  PROVE  Carries(<<>>, Accepted(sess[e].inc, Responses(e)), sess[e].inc, Len(Wanted(e)), Present(e))
<1> DEFINE out == sess[e].inc
           as == Responses(e)
           I == {i \in DOMAIN out : AnswerTo(e, out[i]) = "+"}
           A == {out[i] : i \in {j \in DOMAIN out : j <= Len(as) /\ as[j] = "+"}}
           kept == Ordered(I)
           ok == Accepted(out, as)
<1>1. out \in Seq(Msg)
  BY Halves DEF Session
<1>2. Len(as) = Len(out) /\ \A i \in DOMAIN out : as[i] = AnswerTo(e, out[i])
  BY ResponseFacts
<1>3. A \in SUBSET Msg /\ ok = Ordered(A)
  BY <1>1, AcceptedFacts, Zenon
<1>4. Wanted(e) = [k \in DOMAIN kept |-> out[kept[k]]]
  BY DEF Wanted
<1>5. \A i : i \in I <=> i \in DOMAIN out /\ AnswerTo(e, out[i]) = "+"
  OBVIOUS
<1>6. Rising(out)
  OBVIOUS
<1>7. A = {out[i] : i \in I}
  <2>1. DOMAIN out = 1 .. Len(out) /\ Len(out) \in Nat
    BY <1>1, LenProperties
  <2>2. \A j \in DOMAIN out : j <= Len(as)
    BY <1>2, <2>1
  <2>3. \A j \in DOMAIN out : (j <= Len(as) /\ as[j] = "+") <=> AnswerTo(e, out[j]) = "+"
    BY <1>2, <2>2
  <2> QED BY <2>3, Zenon
<1> HIDE DEF out, as, I, A, kept, ok
<1>8. DOMAIN out = 1 .. Len(out) /\ Len(out) \in Nat /\ \A i \in DOMAIN out : out[i] \in Msg /\ out[i] \in Nat
  <2>1. DOMAIN out = 1 .. Len(out) /\ Len(out) \in Nat
    BY <1>1, LenProperties
  <2>2. \A i \in DOMAIN out : out[i] \in Msg
    BY <1>1, <2>1, ElementOfSeq
  <2> QED BY <2>1, <2>2, Mails
<1>9. I \in SUBSET Nat /\ IsFiniteSet(I)
  <2>1. IsFiniteSet(1 .. Len(out))
    BY <1>8, FS_Interval
  <2>2. I \in SUBSET (1 .. Len(out))
    BY <1>5, <1>8
  <2>3. IsFiniteSet(I)
    BY <2>1, <2>2, FS_Subset
  <2> QED BY <1>8, <2>2, <2>3
<1>10. Len(kept) = Cardinality(I) /\ kept \in Seq(I)
  BY <1>9, OrderedFacts DEF kept
<1>11. Len(Wanted(e)) = Cardinality(I)
  <2>1. DOMAIN kept = 1 .. Len(kept) /\ Len(kept) \in Nat
    BY <1>10, LenProperties
  <2>2. Wanted(e) \in Seq(Msg) /\ DOMAIN Wanted(e) = 1 .. Len(kept)
    BY <1>4, <2>1, WantedFacts
  <2>3. Len(Wanted(e)) = Len(kept)
    BY <2>1, <2>2
  <2> QED BY <1>10, <2>3
<1>12. Cardinality(A) = Cardinality(I)
  <2> DEFINE g == [i \in I |-> out[i]]
  <2>1. g \in Surjection(I, A)
    <3>1. g \in [I -> A]
      BY <1>7
    <3>2. \A m \in A : \E i \in I : g[i] = m
      BY <1>7
    <3> QED BY <3>1, <3>2, Zenon DEF Surjection
  <2>2. \A i, j \in I : g[i] = g[j] => i = j
    <3> SUFFICES ASSUME NEW i \in I, NEW j \in I, out[i] = out[j], i # j PROVE FALSE
      OBVIOUS
    <3>1. i \in DOMAIN out /\ j \in DOMAIN out /\ i \in Nat /\ j \in Nat
      BY <1>5, <1>9
    <3>2. i < j \/ j < i
      BY <3>1
    <3>3. out[i] < out[j] \/ out[j] < out[i]
      BY <1>6, <3>1, <3>2 DEF Rising
    <3> QED BY <1>8, <3>1, <3>3
  <2>3. g \in Injection(I, A)
    <3>1. g \in [I -> A]
      BY <1>7
    <3> HIDE DEF g
    <3> QED BY <2>2, <3>1 DEF Injection, IsInjective
  <2> HIDE DEF g
  <2> QED BY <1>9, <2>1, <2>3, FS_Surjection
<1>13. ok \in Seq(Msg) /\ Range(ok) = A /\ Len(ok) = Cardinality(A)
  BY <1>3, Listing
<1>14. ASSUME NEW m \in Range(out) \ TooBig PROVE m \in Present(e) \cup A
  <2>1. PICK i \in DOMAIN out : out[i] = m
    BY DEF Range
  <2>2. m \in Msg /\ m \notin TooBig
    BY <1>8, <2>1
  <2>3. CASE store[e][m] # "absent"
    BY <2>2, <2>3 DEF Present
  <2>4. CASE store[e][m] = "absent"
    <3>1. AnswerTo(e, out[i]) = "+"
      BY <2>1, <2>2, <2>4 DEF AnswerTo
    <3> QED BY <1>5, <1>7, <2>1, <3>1
  <2> QED BY <2>3, <2>4
<1>15. Range(out) \ TooBig \subseteq Present(e) \cup Range(ok)
  BY <1>13, <1>14
<1>16. Len(ok) = Len(Wanted(e))
  BY <1>11, <1>12, <1>13
<1>17. Carries(<<>>, ok, out, Len(Wanted(e)), Present(e))
  BY <1>13, <1>15, <1>16, NoneOnTheWay
<1> QED BY <1>17 DEF ok, out, as

(***************************************************************************)
(* The phases, of s and t, the sessions of an end that runs this program   *)
(* and of the foreign one, p and q, the lines they have on the way, and po *)
(* and pf, the messages that are on the two boards.                        *)
(***************************************************************************)
Fresh(s) == s.out = <<>> /\ s.ok = <<>> /\ s.inc = <<>>

Over(s) == s.at = "idle" => s.ok = <<>> /\ s.inc = <<>>

Opens(o, s, t, p, q) ==
  /\ Fresh(s) /\ Fresh(t) /\ Kinds(p) \subseteq {"SID", ">"}
  /\ \/ s.at = "sid" /\ o = "called" /\ t.at = "proposals" /\ q = <<Text("SID")>>
     \/ s.at = "sid" /\ o = "caller" /\ t.at = "greet" /\ q = <<>>
     \/ s.at = "sid" /\ o = "caller" /\ t.at = "proposals" /\ q = Greeting
     \/ s.at = "prompt" /\ t.at = "proposals" /\ q = <<Text(">")>>
     \/ s.at = "propose" /\ t.at = "proposals" /\ q = <<>>

\* The proposals of s are being heard.
Asking(s, t, p, q) ==
  /\ s.at = "answer" /\ s.inc = <<>> /\ Rising(s.out) /\ Listed(p, <<>>)
  /\ t.at = "proposals" /\ t.ok = <<>> /\ q = <<>>

\* What the foreign end does once it has answered: with proposals of its own it
\* waits for their answer, without any it waits for blocks, or says goodbye.
Replied(t) ==
  /\ t.ok = <<>> /\ Rising(t.out)
  /\ \/ t.at = "answer" /\ t.out # <<>>
     \/ t.at = "send" /\ t.out = <<>>
     \/ t.at = "idle" /\ t.out = <<>> /\ t.inc = <<>>

Bye(t) == IF t.at = "idle" THEN <<Text("FQ")>> ELSE <<>>

\* Answers of y to what x has proposed, none of whose blocks is out.
Settles(ok, x, y, there) == Carries(<<>>, ok, x.out, Len(y.inc), there)

Replying(s, t, p, q, pf) ==
  /\ s.at = "answer" /\ s.inc = <<>> /\ Replied(t) /\ p = <<>>
  /\ \E as \in Seq(Answers), l \in Seq(Line) :
       /\ q = <<FS(as)>> \o l /\ Listed(l, Bye(t)) /\ (t.out = <<>> => "FB" \notin Kinds(l))
       /\ Settles(Accepted(s.out, as), s, t, pf)

\* The proposals of t are being heard.
Hearing(s, t, p, q, pf) ==
  /\ s.at = "proposals" /\ Replied(t) /\ p = <<>> /\ Listed(q, Bye(t))
  /\ t.out = <<>> => s.inc = <<>> /\ "FB" \notin Kinds(q)
  /\ Settles(s.ok, s, t, pf)

\* The answers to them are before t, and blocks may follow them already.
Deciding(s, t, p, q, po, pf) ==
  /\ s.at \in {"send", "record", "idle"} /\ Over(s) /\ t.at = "answer" /\ q = <<>>
  /\ \E as \in Seq(Answers), l \in Seq(Line) :
       /\ p = <<FS(as)>> \o l /\ Settles(Accepted(t.out, as), t, s, po)
       /\ Carries(l, Left(s), s.out, Len(t.inc), pf)

Late == {"send", "record", "path", "idle"}

Trading(s, t, p, q, po, pf) ==
  /\ s.at \in Late /\ t.at \in Late /\ Over(s) /\ Over(t)
  /\ Carries(p, Left(s), s.out, Len(t.inc), pf) /\ Carries(q, Left(t), t.out, Len(s.inc), po)

Phase(o, s, t, p, q, po, pf) ==
  \/ Opens(o, s, t, p, q) \/ Asking(s, t, p, q) \/ Replying(s, t, p, q, pf)
  \/ Hearing(s, t, p, q, pf) \/ Deciding(s, t, p, q, po, pf) \/ Trading(s, t, p, q, po, pf)

InPhase(o, f) == Phase(o, sess[o], sess[f], wire[o], wire[f], Present(o), Present(f))

\* o runs this program, f does not, and nothing disturbs the session.
Alone(o, f) ==
  /\ o \in End /\ f \in End /\ o = Other(f) /\ f = Other(o) /\ o # f
  /\ o \notin foreign /\ f \in foreign /\ TypeInv /\ ~cut /\ ~flawed

(***************************************************************************)
(* What the ends do then.                                                  *)
(***************************************************************************)
LEMMA Values ==
  ASSUME TypeInv, NEW e \in End, NEW o, o = Other(e)
  PROVE  /\ sess[e] \in Session /\ sess[e].out \in Seq(Msg) /\ sess[e].ok \in Seq(Msg) /\ sess[e].inc \in Seq(Msg)
         /\ sess[o] \in Session /\ sess[o].out \in Seq(Msg) /\ sess[o].ok \in Seq(Msg) /\ sess[o].inc \in Seq(Msg)
         /\ wire[e] \in Seq(Line) /\ wire[o] \in Seq(Line) /\ Heard(e) = First(wire[o])
         /\ Heard(e).kind \in {"FB", "BLOCK"} => Heard(e).msg \in Msg
         /\ wire[o] = <<>> => Heard(e).kind = ""
<1>1. /\ sess[e] \in Session /\ sess[o] \in Session
      /\ wire[e] \in Seq(Line) /\ wire[o] \in Seq(Line) /\ Heard(e) = First(wire[o])
      /\ Heard(e).kind \in {"FB", "BLOCK"} => Heard(e).msg \in Msg
  BY Halves
<1>2. \A s \in Session : s.out \in Seq(Msg) /\ s.ok \in Seq(Msg) /\ s.inc \in Seq(Msg)
  BY DEF Session
<1>3. wire[o] = <<>> => Heard(e).kind = ""
  BY <1>1, RestFacts
<1> QED BY <1>1, <1>2, <1>3

LEMMA Written ==
  ASSUME TypeInv, NEW e \in End, NEW o, o = Other(e), NEW s, NEW lines, Write(e, s, lines)
  PROVE  sess'[e] = s /\ sess'[o] = sess[o] /\ wire'[o] = wire[o] /\ wire'[e] = Said(e, lines)
<1>1. TalkTyped
  BY TypeHalves
<1> QED BY <1>1, Writes

\* A line is there, or the other end would not have said anything more.
InTime(e, o) ==
  \/ wire[o] # <<>> \/ sess[o].at = "idle"
  \/ /\ wire[e] = <<>>
     /\ sess[o].at \in {"sid", "prompt", "answer", "proposals"} \/ (sess[o].at = "send" /\ sess[o].ok = <<>>)

LEMMA Listened ==
  ASSUME TypeInv, NEW e \in End, NEW o, o = Other(e), NEW s, NEW lines, Read(e, s, lines), ~flawed'
  PROVE  /\ sess'[e] = s /\ sess'[o] = sess[o] /\ wire'[o] = Rest(wire[o]) /\ wire'[e] = Said(e, lines)
         /\ InTime(e, o)
<1>1. TalkTyped /\ Other(o) = e
  BY TypeHalves, Ends
<1>2. /\ sess'[e] = s /\ sess'[o] = sess[o] /\ wire'[o] = Rest(wire[o]) /\ wire'[e] = Said(e, lines)
  BY <1>1, Reads
<1>3. InTime(e, o)
  <2>1. ~TooSoon(e)
    BY Zenon DEF Read
  <2> QED BY <1>1, <2>1 DEF TooSoon, Waits, InTime
<1> QED BY <1>2, <1>3

LEMMA SaidOn ==
  ASSUME TypeInv, NEW e \in End, ~cut
  PROVE  /\ \A lines : sess[Other(e)].at # "idle" => Said(e, lines) = wire[e] \o lines
         /\ \A lines : Said(e, lines) \in {wire[e], wire[e] \o lines}
         /\ Said(e, <<>>) = wire[e]
<1>1. wire[e] \o <<>> = wire[e]
  BY Halves, ConcatEmptySeq
<1> QED BY <1>1 DEF Said

LEMMA Takes ==
  ASSUME NEW e \in End, Does(e), ~Broken(e)
  PROVE  \/ sess[e].at = "sid" /\ ReadSID(e)
         \/ sess[e].at = "prompt" /\ AwaitPrompt(e)
         \/ sess[e].at = "propose" /\ Propose(e)
         \/ sess[e].at = "greet" /\ Greet(e)
         \/ sess[e].at = "answer" /\ ReadAnswer(e)
         \/ /\ sess[e].at = "proposals"
            /\ HearProposal(e) \/ HearOther(e) \/ Respond(e) \/ ForeignAnswer(e) \/ Leave(e)
         \/ sess[e].at = "send" /\ sess[e].ok # <<>> /\ Send(e)
         \/ sess[e].at = "send" /\ sess[e].ok = <<>> /\ sess[e].inc # <<>> /\ Receive(e)
         \/ sess[e].at = "send" /\ sess[e].ok = <<>> /\ sess[e].inc = <<>> /\ Finish(e)
         \/ sess[e].at = "record" /\ Record(e)
         \/ sess[e].at = "path" /\ AppendPath(e)
<1>1. ~Abort(e)
  BY Zenon DEF Abort
<1>2. ~SendFails(e)
  BY Zenon DEF SendFails
<1>3. ReadSID(e) => sess[e].at = "sid"
  BY DEF ReadSID
<1>4. AwaitPrompt(e) => sess[e].at = "prompt"
  BY DEF AwaitPrompt
<1>5. Propose(e) => sess[e].at = "propose"
  BY DEF Propose
<1>6. Greet(e) => sess[e].at = "greet"
  BY DEF Greet
<1>7. ReadAnswer(e) => sess[e].at = "answer"
  BY DEF ReadAnswer
<1>8. HearProposal(e) \/ HearOther(e) \/ Respond(e) \/ ForeignAnswer(e) \/ Leave(e) => sess[e].at = "proposals"
  BY Zenon DEF HearProposal, HearOther, Respond, ForeignAnswer, Leave
<1>9. Send(e) => sess[e].at = "send" /\ sess[e].ok # <<>>
  BY DEF Send
<1>10. Receive(e) => sess[e].at = "send" /\ sess[e].ok = <<>> /\ sess[e].inc # <<>>
  BY Zenon DEF Receive
<1>11. Finish(e) => sess[e].at = "send" /\ sess[e].ok = <<>> /\ sess[e].inc = <<>>
  BY DEF Finish
<1>12. (Record(e) => sess[e].at = "record") /\ (AppendPath(e) => sess[e].at = "path")
  BY Zenon DEF Record, AppendPath
<1> QED BY <1>1, <1>2, <1>3, <1>4, <1>5, <1>6, <1>7, <1>8, <1>9, <1>10, <1>11, <1>12, ZenonT(60) DEF Does, Step

LEMMA Whole ==
  ASSUME NEW o, NEW f, Alone(o, f)
  PROVE  /\ \A e \in {o, f} : e \in End /\ Other(e) \in {o, f} /\ ~Broken(e)
         /\ (store' = store => Present(o)' = Present(o) /\ Present(f)' = Present(f))
<1>1. ~cut /\ ~flawed /\ o \in End /\ f \in End /\ Other(o) = f /\ Other(f) = o
  BY Zenon DEF Alone
<1>2. \A e \in {o, f} : ~Broken(e)
  BY <1>1, Zenon DEF Broken
<1>3. store' = store => Present(o)' = Present(o) /\ Present(f)' = Present(f)
  BY DEF Present
<1> QED BY <1>1, <1>2, <1>3

LEMMA NothingDue ==
  ASSUME NEW p, NEW left \in Seq(Msg), NEW out, NEW there, Carries(p, left, out, 0, there)
  PROVE  left = <<>> /\ Range(out) \ TooBig \subseteq there
<1>1. PICK b \in Seq(Line), z \in Seq(Line) :
        /\ Len(b) + Len(left) = 0
        /\ Range(out) \ TooBig \subseteq there \cup Range(left) \cup Blocks(b)
  BY DEF Carries
<1>2. Len(b) \in Nat /\ Len(left) \in Nat
  BY LenProperties
<1>3. Len(b) = 0 /\ Len(left) = 0
  BY <1>1, <1>2
<1>4. b = <<>>
  BY <1>3, EmptySeq
<1>5. left = <<>>
  BY <1>3, EmptySeq
<1>6. Blocks(b) = {} /\ Range(left) = {}
  BY <1>4, <1>5, NoLines DEF Range
<1> QED BY <1>1, <1>5, <1>6

\* A step of an end by which it says, or has said, a block, or goodbye.
Sends(s, r, lines) ==
  /\ r.out = s.out /\ r.inc = s.inc
  /\ \/ /\ s.at = "send" /\ s.ok # <<>> /\ r.at = "record" /\ r.ok = s.ok
        /\ lines = <<Block(Head(s.ok))>>
     \/ s.at = "record" /\ r.at = "send" /\ r.ok = Tail(s.ok) /\ lines = <<>>
     \/ s.at = "path" /\ r.at = "send" /\ r.ok = <<>> /\ lines = <<>>
     \/ /\ s.at = "send" /\ s.ok = <<>> /\ s.inc = <<>> /\ r.at = "idle" /\ r.ok = <<>>
        /\ lines = <<Text("FQ")>>

LEMMA SendsCarries ==
  ASSUME NEW p \in Seq(Line), NEW s \in Session, NEW r, NEW lines, Sends(s, r, lines),
         NEW n, NEW there, Carries(p, Left(s), s.out, n, there)
  PROVE  /\ r.at \in Late /\ Over(r) /\ r.at # "path" /\ r.out = s.out /\ r.inc = s.inc
         /\ lines \in Seq(Line)
         /\ Carries(p \o lines, Left(r), r.out, n, there)
         /\ n = 0 => Carries(p, Left(r), r.out, n, there)
<1>1. s.ok \in Seq(Msg) /\ r.out = s.out /\ r.inc = s.inc
  BY DEF Session, Sends
<1>2. p \o <<>> = p /\ <<>> \in Seq(Line)
  BY ConcatEmptySeq, NoLines
<1>3. CASE s.at = "send" /\ s.ok # <<>> /\ r.at = "record" /\ r.ok = s.ok /\ lines = <<Block(Head(s.ok))>>
  <2>1. Left(s) = s.ok /\ Left(r) = Tail(s.ok) /\ r.at \in Late /\ Over(r)
    BY <1>3 DEF Left, Late, Over
  <2>2. Carries(p, s.ok, s.out, n, there)
    BY <2>1
  <2>3. Carries(p \o <<Block(Head(s.ok))>>, Tail(s.ok), s.out, n, there)
    BY <1>1, <1>3, <2>2, BlockSent
  <2>4. n # 0
    BY <1>1, <1>3, <2>2, NothingDue
  <2>5. lines \in Seq(Line)
    <3>1. Head(s.ok) \in Msg
      BY <1>1, <1>3, HeadTailProperties
    <3>2. Block(Head(s.ok)) \in Line
      BY <3>1, TextLines
    <3> QED BY <1>3, <3>2, OneLine
  <2> QED BY <1>1, <1>3, <2>1, <2>3, <2>4, <2>5
<1>4. CASE s.at = "record" /\ r.at = "send" /\ r.ok = Tail(s.ok) /\ lines = <<>>
  <2>1. Left(s) = Tail(s.ok) /\ Left(r) = Tail(s.ok) /\ r.at \in Late /\ Over(r)
    BY <1>4 DEF Left, Late, Over
  <2> QED BY <1>1, <1>2, <1>4, <2>1
<1>5. CASE s.at = "path" /\ r.at = "send" /\ r.ok = <<>> /\ lines = <<>>
  <2>1. Left(s) = <<>> /\ Left(r) = <<>> /\ r.at \in Late /\ Over(r)
    BY <1>5 DEF Left, Late, Over
  <2> QED BY <1>1, <1>2, <1>5, <2>1
<1>6. CASE /\ s.at = "send" /\ s.ok = <<>> /\ s.inc = <<>> /\ r.at = "idle" /\ r.ok = <<>>
           /\ lines = <<Text("FQ")>>
  <2>1. Left(s) = <<>> /\ Left(r) = <<>> /\ r.at \in Late /\ Over(r)
    BY <1>1, <1>6 DEF Left, Late, Over
  <2>2. Text("FQ") \in Line
    BY TextLines
  <2>3. lines \in Seq(Line)
    BY <1>6, <2>2, OneLine
  <2>4. Carries(p, <<>>, s.out, n, there)
    BY <2>1
  <2>5. Carries(p \o lines, <<>>, s.out, n, there)
    BY <2>3, <2>4, SaidAfter
  <2> QED BY <1>1, <1>6, <2>1, <2>3, <2>4, <2>5
<1> QED BY <1>3, <1>4, <1>5, <1>6 DEF Sends

LEMMA SendsDoes ==
  ASSUME TypeInv, NEW e \in End, NEW o, o = Other(e),
         Send(e) \/ Record(e) \/ AppendPath(e) \/ Finish(e)
  PROVE  /\ \E lines : Sends(sess[e], sess'[e], lines) /\ wire'[e] = Said(e, lines)
         /\ wire'[o] = wire[o] /\ sess'[o] = sess[o]
         /\ Present(e) \subseteq Present(e)' /\ Present(o)' = Present(o)
<1>1. sess[e] \in Session /\ store \in [End -> [Msg -> Statuses]] /\ o \in End /\ o # e
  BY Halves DEF TypeInv, TypeOK
<1>2. CASE Send(e)
  <2> DEFINE r == [sess[e] EXCEPT !.at = "record"]
             x == <<Block(Head(sess[e].ok))>>
  <2>1. Write(e, r, x) /\ store' = store /\ sess[e].at = "send" /\ sess[e].ok # <<>>
    BY <1>2 DEF Send, records
  <2>2. r.at = "record" /\ r.ok = sess[e].ok /\ r.out = sess[e].out /\ r.inc = sess[e].inc
    BY <1>1, Moved DEF Stages
  <2>3. Sends(sess[e], r, x)
    <3> HIDE DEF r
    <3> QED BY <2>1, <2>2 DEF Sends
  <2> HIDE DEF r, x
  <2>4. sess'[e] = r /\ wire'[e] = Said(e, x) /\ wire'[o] = wire[o] /\ sess'[o] = sess[o]
    BY <2>1, Written
  <2>5. Present(e)' = Present(e) /\ Present(o)' = Present(o)
    BY <2>1 DEF Present
  <2> QED BY <2>3, <2>4, <2>5
<1>3. CASE Record(e)
  <2> DEFINE m == Head(sess[e].ok)
             rest == Tail(sess[e].ok)
             r == [sess[e] EXCEPT !.at = "send", !.ok = rest]
  <2>1. /\ Write(e, r, <<>>) /\ sess[e].at = "record" /\ store' = [store EXCEPT ![e][m] = "F"]
    BY <1>3 DEF Record
  <2> HIDE DEF m, rest
  <2>2. r.at = "send" /\ r.ok = rest /\ r.out = sess[e].out /\ r.inc = sess[e].inc
    BY <1>1 DEF Session
  <2>3. Sends(sess[e], r, <<>>)
    <3> HIDE DEF r
    <3> QED BY <2>1, <2>2 DEF Sends, rest
  <2> HIDE DEF r
  <2>4. sess'[e] = r /\ wire'[e] = Said(e, <<>>) /\ wire'[o] = wire[o] /\ sess'[o] = sess[o]
    BY <2>1, Written
  <2>5. store'[o] = store[o] /\ \A k \in Msg : store[e][k] # "absent" => store'[e][k] # "absent"
    BY <1>1, <2>1
  <2>6. Present(e) \subseteq Present(e)' /\ Present(o)' = Present(o)
    BY <2>5 DEF Present
  <2> QED BY <2>3, <2>4, <2>6
<1>4. CASE AppendPath(e)
  <2> DEFINE r == [sess[e] EXCEPT !.at = "send", !.ok = <<>>]
  <2>1. Write(e, r, <<>>) /\ sess[e].at = "path" /\ store' = store
    BY <1>4 DEF AppendPath
  <2>2. r.at = "send" /\ r.ok = <<>> /\ r.out = sess[e].out /\ r.inc = sess[e].inc
    BY <1>1 DEF Session
  <2>3. Sends(sess[e], r, <<>>)
    <3> HIDE DEF r
    <3> QED BY <2>1, <2>2 DEF Sends
  <2> HIDE DEF r
  <2>4. sess'[e] = r /\ wire'[e] = Said(e, <<>>) /\ wire'[o] = wire[o] /\ sess'[o] = sess[o]
    BY <2>1, Written
  <2>5. Present(e)' = Present(e) /\ Present(o)' = Present(o)
    BY <2>1 DEF Present
  <2> QED BY <2>3, <2>4, <2>5
<1>5. CASE Finish(e)
  <2> DEFINE r == [sess[e] EXCEPT !.at = "idle"]
             x == <<Text("FQ")>>
  <2>1. Write(e, r, x) /\ store' = store /\ sess[e].at = "send" /\ sess[e].ok = <<>> /\ sess[e].inc = <<>>
    BY <1>5 DEF Finish, records
  <2>2. r.at = "idle" /\ r.ok = sess[e].ok /\ r.out = sess[e].out /\ r.inc = sess[e].inc
    BY <1>1, Moved DEF Stages
  <2>3. Sends(sess[e], r, x)
    <3> HIDE DEF r
    <3> QED BY <2>1, <2>2 DEF Sends
  <2> HIDE DEF r, x
  <2>4. sess'[e] = r /\ wire'[e] = Said(e, x) /\ wire'[o] = wire[o] /\ sess'[o] = sess[o]
    BY <2>1, Written
  <2>5. Present(e)' = Present(e) /\ Present(o)' = Present(o)
    BY <2>1 DEF Present
  <2> QED BY <2>3, <2>4, <2>5
<1> QED BY <1>2, <1>3, <1>4, <1>5

LEMMA Received ==
  ASSUME TypeInv, ~cut, NEW e \in End, NEW o, o = Other(e), Receive(e), ~flawed'
  PROVE  /\ sess'[e].at \in {"path", "send"} /\ sess'[e].out = sess[e].out
         /\ sess'[e].inc = Tail(sess[e].inc) /\ Left(sess'[e]) = <<>>
         /\ wire'[e] = wire[e] /\ wire'[o] = Rest(wire[o]) /\ sess'[o] = sess[o] /\ InTime(e, o)
         /\ Present(e) \subseteq Present(e)' /\ Present(o)' = Present(o)
         /\ Heard(e).kind = "BLOCK" => Heard(e).msg \in Present(e)'
<1>1. /\ sess[e] \in Session /\ store \in [End -> [Msg -> Statuses]] /\ o \in End /\ o # e
      /\ Heard(e).kind = "BLOCK" => Heard(e).msg \in Msg
  BY Halves DEF TypeInv, TypeOK
<1>2. sess[e].at = "send" /\ sess[e].ok = <<>>
  BY Zenon DEF Receive
<1> DEFINE m == Heard(e).msg
           rest == Tail(sess[e].inc)
           s == [sess[e] EXCEPT !.at = "path", !.ok = <<m>>, !.inc = rest]
           t == [sess[e] EXCEPT !.inc = rest]
<1>3. CASE New(e)
  <2>1. Read(e, s, <<>>) /\ store' = [store EXCEPT ![e][m] = "N"]
    BY <1>3 DEF Receive
  <2>2. m \in Msg
    BY <1>1, <1>3 DEF New
  <2> HIDE DEF m, rest
  <2>3. s.at = "path" /\ s.inc = rest /\ s.out = sess[e].out
    BY <1>1 DEF Session
  <2>4. Left(s) = <<>>
    BY <2>3 DEF Left
  <2> HIDE DEF s
  <2>5. sess'[e] = s /\ sess'[o] = sess[o] /\ wire'[o] = Rest(wire[o]) /\ wire'[e] = Said(e, <<>>) /\ InTime(e, o)
    BY <2>1, Listened
  <2>6. wire'[e] = wire[e]
    BY <2>5, SaidOn
  <2>7. store'[o] = store[o] /\ store'[e][m] = "N" /\ \A k \in Msg : store[e][k] # "absent" => store'[e][k] # "absent"
    BY <1>1, <2>1, <2>2
  <2>8. Present(e) \subseteq Present(e)' /\ Present(o)' = Present(o) /\ m \in Present(e)'
    BY <2>2, <2>7 DEF Present
  <2> QED BY <2>3, <2>4, <2>5, <2>6, <2>8 DEF m, rest
<1>4. CASE ~New(e)
  <2>1. Read(e, t, <<>>) /\ store' = store
    BY <1>4 DEF Receive
  <2>2. Heard(e).kind = "BLOCK" => m \in Present(e)
    BY <1>1, <1>4 DEF New, Present
  <2> HIDE DEF m, rest
  <2>3. t.at = "send" /\ t.inc = rest /\ t.out = sess[e].out /\ t.ok = <<>>
    BY <1>1, <1>2 DEF Session
  <2>4. Left(t) = <<>>
    BY <2>3 DEF Left
  <2> HIDE DEF t
  <2>5. sess'[e] = t /\ sess'[o] = sess[o] /\ wire'[o] = Rest(wire[o]) /\ wire'[e] = Said(e, <<>>) /\ InTime(e, o)
    BY <2>1, Listened
  <2>6. wire'[e] = wire[e]
    BY <2>5, SaidOn
  <2>7. Present(e)' = Present(e) /\ Present(o)' = Present(o)
    BY <2>1 DEF Present
  <2> QED BY <2>2, <2>3, <2>4, <2>5, <2>6, <2>7 DEF m, rest
<1> QED BY <1>3, <1>4

\* The transfer, of either end: what is carried is read, recorded and answered
\* by nothing, until neither has anything left.
LEMMA TradingKept ==
  ASSUME TypeInv, ~cut, NEW e \in End, NEW o, o = Other(e), Does(e), ~Broken(e), ~flawed',
         Trading(sess[e], sess[o], wire[e], wire[o], Present(e), Present(o))
  PROVE  Trading(sess[e], sess[o], wire[e], wire[o], Present(e), Present(o))'
<1> DEFINE s == sess[e]
           t == sess[o]
           p == wire[e]
           q == wire[o]
<1>1. /\ s \in Session /\ s.ok \in Seq(Msg) /\ s.inc \in Seq(Msg) /\ t \in Session /\ t.inc \in Seq(Msg) /\ t.ok \in Seq(Msg)
      /\ p \in Seq(Line) /\ q \in Seq(Line) /\ Heard(e) = First(q)
  BY Values
<1>2. /\ s.at \in Late /\ t.at \in Late /\ Over(s) /\ Over(t)
      /\ Carries(p, Left(s), s.out, Len(t.inc), Present(o))
      /\ Carries(q, Left(t), t.out, Len(s.inc), Present(e))
  BY DEF Trading
<1>3. \/ Send(e) \/ Record(e) \/ AppendPath(e) \/ Finish(e)
      \/ s.at = "send" /\ s.ok = <<>> /\ s.inc # <<>> /\ Receive(e)
  BY <1>2, Takes DEF Late
<1>4. CASE Send(e) \/ Record(e) \/ AppendPath(e) \/ Finish(e)
  <2>1. /\ wire'[o] = q /\ sess'[o] = t /\ Present(e) \subseteq Present(e)' /\ Present(o)' = Present(o)
        /\ \E lines : Sends(s, sess'[e], lines) /\ wire'[e] = Said(e, lines)
    BY <1>4, SendsDoes
  <2>2. PICK lines : Sends(s, sess'[e], lines) /\ wire'[e] = Said(e, lines)
    BY <2>1
  <2> DEFINE r == sess'[e]
             n == Len(t.inc)
             there == Present(o)
  <2> HIDE DEF there
  <2>3. Carries(p, Left(s), s.out, n, there)
    BY <1>2 DEF there
  <2> HIDE DEF n
  <2>4. p \in Seq(Line) /\ s \in Session /\ Sends(s, r, lines)
    BY <1>1, <2>2
  <2>5. /\ r.at \in Late /\ Over(r) /\ r.at # "path" /\ r.out = s.out /\ r.inc = s.inc
        /\ lines \in Seq(Line) /\ Carries(p \o lines, Left(r), r.out, n, there)
    <3> HIDE DEF s, t, p, q, r
    <3> QED BY <2>3, <2>4, SendsCarries
  <2>6. n = 0 => Carries(p, Left(r), r.out, n, there)
    <3> HIDE DEF s, t, p, q, r
    <3> QED BY <2>3, <2>4, SendsCarries
  <2>7. Carries(wire'[e], Left(r), r.out, n, there)
    <3>1. CASE t.at = "idle"
      <4>1. n = 0
        BY <1>2, <3>1, NoLines DEF Over, n
      <4>2. wire'[e] = p \/ wire'[e] = p \o lines
        BY <2>2, SaidOn
      <4> QED BY <2>5, <2>6, <4>1, <4>2
    <3>2. CASE t.at # "idle"
      <4>1. wire'[e] = p \o lines
        BY <2>2, <3>2, SaidOn
      <4> QED BY <2>5, <4>1
    <3> QED BY <3>1, <3>2
  <2>8. Carries(q, Left(t), t.out, Len(s.inc), Present(e)')
    BY <1>2, <2>1, CarriesMore
  <2> HIDE DEF s, t, p, q, r
  <2>9. Trading(r, t, wire'[e], q, Present(e)', there)
    BY <1>2, <2>5, <2>7, <2>8 DEF Trading, n
  <2> QED BY <2>1, <2>9 DEF r, s, t, p, q, there
<1>5. CASE s.at = "send" /\ s.ok = <<>> /\ s.inc # <<>> /\ Receive(e)
  <2> DEFINE r == sess'[e]
             h == First(q).msg
  <2>1. /\ r.at \in {"path", "send"} /\ r.out = s.out /\ r.inc = Tail(s.inc) /\ Left(r) = <<>>
        /\ wire'[e] = p /\ wire'[o] = Rest(q) /\ sess'[o] = t /\ InTime(e, o)
        /\ Present(e) \subseteq Present(e)' /\ Present(o)' = Present(o)
        /\ Heard(e).kind = "BLOCK" => Heard(e).msg \in Present(e)'
    BY <1>5, Received
  <2>2. Left(s) = <<>>
    BY <1>5 DEF Left
  <2>3. Len(s.inc) \in Nat /\ Len(s.inc) > 0 /\ Len(Tail(s.inc)) = Len(s.inc) - 1
    BY <1>1, <1>5, EmptySeq, HeadTailProperties
  <2>4. Left(t) \in Seq(Msg)
    <3>1. t.at = "record" => t.ok # <<>>
      BY Halves DEF Loaded
    <3>2. t.at = "record" => Tail(t.ok) \in Seq(Msg)
      BY <1>1, <3>1, HeadTailProperties
    <3>3. <<>> \in Seq(Msg)
      BY EmptySeq
    <3> QED BY <1>1, <3>2, <3>3 DEF Left
  <2>5. ~(q = <<>> /\ Left(t) # <<>>)
    <3> SUFFICES ASSUME q = <<>>, Left(t) # <<>> PROVE FALSE
      OBVIOUS
    <3>1. t.at = "idle" \/ (t.at = "send" /\ t.ok = <<>>)
      BY <1>2, <2>1 DEF InTime, Late
    <3>2. t.ok = <<>>
      BY <1>2, <3>1 DEF Over
    <3> QED BY <3>1, <3>2 DEF Left
  <2> DEFINE n == Len(s.inc)
  <2>6. n \in Nat /\ n > 0 /\ Carries(q, Left(t), t.out, n, Present(e))
    BY <1>2, <2>3
  <2>7. First(q).kind = "BLOCK" /\ Carries(Rest(q), Left(t), t.out, n - 1, Present(e) \cup {h})
    <3> HIDE DEF n
    <3> QED BY <1>1, <2>4, <2>5, <2>6, BlockRead
  <2>8. Present(e) \cup {h} \subseteq Present(e)'
    BY <1>1, <2>1, <2>7
  <2>9. Carries(Rest(q), Left(t), t.out, n - 1, Present(e)')
    <3> HIDE DEF h, n
    <3> QED BY <2>7, <2>8, CarriesMore
  <2>10. Carries(Rest(q), Left(t), t.out, Len(r.inc), Present(e)')
    BY <2>1, <2>3, <2>9
  <2>11. Carries(p, Left(r), r.out, Len(t.inc), Present(o))
    BY <1>2, <2>1, <2>2
  <2>12. r.at \in Late /\ Over(r)
    BY <2>1 DEF Late, Over
  <2> HIDE DEF s, t, p, q, r
  <2>13. Trading(r, t, p, Rest(q), Present(e)', Present(o))
    BY <1>2, <2>10, <2>11, <2>12 DEF Trading
  <2> QED BY <2>1, <2>13 DEF r, s, t, p, q
<1> QED BY <1>3, <1>4, <1>5

LEMMA OneRead ==
  ASSUME NEW l \in Line
  PROVE  <<l>> \in Seq(Line) /\ <<l>> # <<>> /\ First(<<l>>) = l /\ Rest(<<l>>) = <<>>
<1>1. <<l>> \in Seq(Line) /\ Len(<<l>>) = 1
  BY OneLine
<1>2. <<l>> # <<>>
  BY <1>1, NoLines
<1>3. Head(<<l>>) = l /\ Tail(<<l>>) = <<>>
  OBVIOUS
<1> QED BY <1>1, <1>2, <1>3 DEF First, Rest

LEMMA GreetingRead ==
  /\ Greeting \in Seq(Line) /\ Greeting # <<>> /\ First(Greeting) = Text("SID")
  /\ Rest(Greeting) = <<Text(">")>>
<1> DEFINE a == Text("SID")
           b == Text(">")
<1>1. a \in Line /\ b \in Line
  BY TextLines
<1> HIDE DEF a, b
<1>2. <<a, b>> \in Seq(Line) /\ <<a, b>> # <<>> /\ Head(<<a, b>>) = a /\ Tail(<<a, b>>) = <<b>>
  BY <1>1
<1> QED BY <1>2 DEF Greeting, First, Rest, a, b

LEMMA AnswersRead ==
  ASSUME NEW as \in Seq(Answers), NEW l \in Seq(Line)
  PROVE  LET q == <<FS(as)>> \o l IN
         /\ q \in Seq(Line) /\ q # <<>> /\ First(q).kind = "FS" /\ First(q).answers = as /\ Rest(q) = l
<1> DEFINE a == FS(as)
           q == <<a>> \o l
<1>1. a \in Line /\ a.kind = "FS" /\ a.answers = as
  BY TextLines
<1> HIDE DEF a
<1>2. <<a>> \in Seq(Line) /\ <<a>> # <<>> /\ First(<<a>>) = a /\ Rest(<<a>>) = <<>>
  BY <1>1, OneRead
<1>3. q \in Seq(Line) /\ q # <<>> /\ First(q) = a /\ Rest(q) = <<>> \o l
  <2>1. q \in Seq(Line)
    BY <1>2, Joined
  <2>2. q # <<>> /\ First(q) = First(<<a>>) /\ Rest(q) = Rest(<<a>>) \o l
    BY <1>2, JoinRead
  <2> QED BY <1>2, <2>1, <2>2
<1>4. <<>> \o l = l
  BY ConcatEmptySeq
<1> HIDE DEF q
<1>5. q \in Seq(Line) /\ q # <<>> /\ First(q).kind = "FS" /\ First(q).answers = as /\ Rest(q) = l
  BY <1>1, <1>3, <1>4
<1> QED BY <1>5 DEF q, a

\* The opening.
LEMMA OpensOwn ==
  ASSUME NEW o, NEW f, Alone(o, f), Does(o), ~flawed',
         Opens(o, sess[o], sess[f], wire[o], wire[f])
  PROVE  InPhase(o, f)'
<1> DEFINE s == sess[o]
           t == sess[f]
           p == wire[o]
           q == wire[f]
<1>1. TypeInv /\ o \in End /\ f \in End /\ f = Other(o) /\ o \notin foreign /\ ~cut /\ ~Broken(o)
  BY Whole, Zenon DEF Alone
<1>2. s \in Session /\ t \in Session /\ p \in Seq(Line) /\ q \in Seq(Line) /\ Heard(o) = First(q)
  BY <1>1, Values
<1>3. Fresh(s) /\ Fresh(t) /\ Kinds(p) \subseteq {"SID", ">"} /\ t.at \in {"proposals", "greet"}
  BY DEF Opens
<1>4. ReadSID(o) \/ AwaitPrompt(o) \/ Propose(o)
  BY <1>1, Takes DEF Opens
<1>5. Text("SID") \in Line /\ Text("SID").kind = "SID" /\ Text(">") \in Line /\ Text(">").kind = ">"
  BY TextLines
<1>6. \A a \in Stages : LET r == [s EXCEPT !.at = a] IN r.at = a /\ Fresh(r)
  BY <1>2, <1>3, Moved DEF Fresh
<1>7. CASE ReadSID(o) /\ o = "called"
  <2> DEFINE r == [s EXCEPT !.at = "propose"]
  <2>1. q = <<Text("SID")>> /\ t.at = "proposals"
    BY <1>7, <1>4 DEF Opens, ReadSID
  <2>2. Heard(o).kind = "SID" /\ Rest(q) = <<>>
    BY <1>2, <1>5, <2>1, OneRead
  <2>3. Read(o, r, Greeting) /\ store' = store
    BY <1>7, <2>2 DEF ReadSID, Greeting, records
  <2>4. r.at = "propose" /\ Fresh(r)
    BY <1>6 DEF Stages
  <2> HIDE DEF r
  <2>5. sess'[o] = r /\ sess'[f] = t /\ wire'[f] = <<>> /\ wire'[o] = Said(o, Greeting)
    BY <1>1, <2>2, <2>3, Listened
  <2>6. Kinds(wire'[o]) \subseteq {"SID", ">"}
    <3>1. wire'[o] = p \o Greeting
      BY <1>1, <2>1, <2>5, SaidOn
    <3>2. Kinds(p \o Greeting) = Kinds(p) \cup Kinds(Greeting) /\ Kinds(Greeting) = {"SID", ">"}
      BY <1>2, KindsFacts
    <3> QED BY <1>3, <3>1, <3>2
  <2> HIDE DEF s, t, p, q
  <2>7. Opens(o, r, t, wire'[o], <<>>)
    BY <1>3, <2>1, <2>4, <2>6 DEF Opens
  <2> QED BY <2>5, <2>7 DEF InPhase, Phase
<1>8. CASE ReadSID(o) /\ o = "caller"
  <2> DEFINE r == [s EXCEPT !.at = "prompt"]
  <2>1. s.at = "sid" /\ Read(o, r, <<>>) /\ store' = store
    BY <1>8 DEF ReadSID, records
  <2>2. r.at = "prompt" /\ Fresh(r)
    BY <1>6 DEF Stages
  <2>3. (t.at = "greet" /\ q = <<>>) \/ (t.at = "proposals" /\ q = Greeting)
    BY <1>8, <2>1 DEF Opens
  <2> HIDE DEF r
  <2>4. sess'[o] = r /\ sess'[f] = t /\ wire'[f] = Rest(q) /\ wire'[o] = Said(o, <<>>) /\ InTime(o, f)
    BY <1>1, <2>1, Listened
  <2>5. wire'[o] = p
    BY <1>1, <2>4, SaidOn
  <2>6. t.at = "proposals" /\ wire'[f] = <<Text(">")>>
    <3>1. ~(t.at = "greet" /\ q = <<>>)
      BY <2>4 DEF InTime
    <3> QED BY <2>3, <2>4, <3>1, GreetingRead
  <2> HIDE DEF s, t, p, q
  <2>7. Opens(o, r, t, p, <<Text(">")>>)
    BY <1>3, <2>2, <2>6 DEF Opens
  <2> QED BY <2>4, <2>5, <2>6, <2>7 DEF InPhase, Phase
<1>9. CASE AwaitPrompt(o)
  <2> DEFINE r == [s EXCEPT !.at = "propose"]
  <2>1. s.at = "prompt" /\ q = <<Text(">")>> /\ t.at = "proposals"
    BY <1>9 DEF Opens, AwaitPrompt
  <2>2. Heard(o).kind = ">" /\ Rest(q) = <<>>
    BY <1>2, <1>5, <2>1, OneRead
  <2>3. Read(o, r, <<>>) /\ store' = store
    BY <1>9, <2>2 DEF AwaitPrompt, records
  <2>4. r.at = "propose" /\ Fresh(r)
    BY <1>6 DEF Stages
  <2> HIDE DEF r
  <2>5. sess'[o] = r /\ sess'[f] = t /\ wire'[f] = <<>> /\ wire'[o] = Said(o, <<>>)
    BY <1>1, <2>2, <2>3, Listened
  <2>6. wire'[o] = p
    BY <1>1, <2>5, SaidOn
  <2> HIDE DEF s, t, p, q
  <2>7. Opens(o, r, t, p, <<>>)
    BY <1>3, <2>1, <2>4 DEF Opens
  <2> QED BY <2>5, <2>6, <2>7 DEF InPhase, Phase
<1>10. CASE Propose(o)
  <2> DEFINE out == Ordered(Selected(o))
             r == [s EXCEPT !.at = "answer", !.out = out]
             x == Proposals(out)
  <2>1. s.at = "propose" /\ Write(o, r, x) /\ store' = store
    BY <1>10 DEF Propose, records
  <2>2. q = <<>> /\ t.at = "proposals"
    BY <2>1 DEF Opens
  <2>3. out \in Seq(Msg) /\ Rising(out)
    BY <1>1, SelectedFacts, Listing
  <2> HIDE DEF out
  <2>4. r.at = "answer" /\ r.out = out /\ r.inc = <<>>
    BY <1>2, <1>3 DEF Session, Fresh
  <2>5. Listed(p \o x, <<>>)
    BY <1>2, <1>3, <2>3, ListSaid
  <2> HIDE DEF r, x
  <2>6. sess'[o] = r /\ sess'[f] = t /\ wire'[f] = q /\ wire'[o] = Said(o, x)
    BY <1>1, <2>1, Written
  <2>7. wire'[o] = p \o x
    BY <1>1, <2>2, <2>6, SaidOn
  <2>8. t.ok = <<>>
    BY <1>3 DEF Fresh
  <2> HIDE DEF s, t, p, q
  <2>9. Asking(r, t, wire'[o], <<>>)
    BY <2>2, <2>3, <2>4, <2>5, <2>7, <2>8 DEF Asking
  <2> QED BY <2>2, <2>6, <2>9 DEF InPhase, Phase
<1>11. o = "caller" \/ o = "called"
  BY <1>1 DEF End
<1> QED BY <1>4, <1>7, <1>8, <1>9, <1>10, <1>11

LEMMA OpensForeign ==
  ASSUME NEW o, NEW f, Alone(o, f), Does(f), ~flawed',
         Opens(o, sess[o], sess[f], wire[o], wire[f])
  PROVE  InPhase(o, f)'
<1> DEFINE s == sess[o]
           t == sess[f]
           p == wire[o]
           q == wire[f]
<1>1. TypeInv /\ o \in End /\ f \in End /\ o = Other(f) /\ f \in foreign /\ ~cut /\ ~Broken(f)
  BY Whole, Zenon DEF Alone
<1>2. s \in Session /\ t \in Session /\ p \in Seq(Line) /\ q \in Seq(Line) /\ Heard(f) = First(p)
  BY <1>1, Values
<1>3. /\ Fresh(s) /\ Fresh(t) /\ Kinds(p) \subseteq {"SID", ">"} /\ t.at \in {"proposals", "greet"}
      /\ s.at # "idle"
  BY DEF Opens
<1>4. CASE t.at = "greet"
  <2> DEFINE r == [t EXCEPT !.at = "proposals"]
  <2>1. Greet(f)
    BY <1>1, <1>4, Takes
  <2>2. Write(f, r, Greeting)
    BY <2>1 DEF Greet, Greeting
  <2>3. r.at = "proposals" /\ Fresh(r)
    BY <1>2, <1>3, Moved DEF Stages, Fresh
  <2>4. s.at = "sid" /\ o = "caller" /\ q = <<>>
    BY <1>4 DEF Opens
  <2> HIDE DEF r
  <2>5. sess'[f] = r /\ sess'[o] = s /\ wire'[o] = p /\ wire'[f] = Said(f, Greeting)
    BY <1>1, <2>2, Written
  <2>6. wire'[f] = Greeting
    <3>1. wire'[f] = q \o Greeting
      BY <1>1, <1>3, <2>5, SaidOn
    <3> QED BY <2>4, <3>1, GreetingRead, ConcatEmptySeq
  <2> HIDE DEF s, t, p, q
  <2>7. Opens(o, s, r, p, Greeting)
    BY <1>3, <2>3, <2>4 DEF Opens
  <2> QED BY <2>5, <2>6, <2>7 DEF InPhase, Phase
<1>5. CASE t.at = "proposals"
  <2>1. Heard(f).kind \in {"SID", ">", ""}
    <3>1. p # <<>> => First(p).kind \in Kinds(p)
      BY <1>2, JoinRead, NoLines
    <3>2. p = <<>> => Heard(f).kind = ""
      BY <1>1, Values
    <3> QED BY <1>2, <1>3, <3>1, <3>2
  <2>2. HearProposal(f) \/ HearOther(f) \/ Respond(f) \/ ForeignAnswer(f) \/ Leave(f)
    BY <1>1, <1>5, Takes
  <2>3. ~HearProposal(f)
    BY <2>1 DEF HearProposal
  <2>4. ~Respond(f)
    BY <1>1, Zenon DEF Respond
  <2>5. ~ForeignAnswer(f)
    BY <2>1 DEF ForeignAnswer
  <2>6. ~Leave(f)
    BY <1>1, <1>3, Zenon DEF Leave
  <2>7. Read(f, t, <<>>)
    BY <2>2, <2>3, <2>4, <2>5, <2>6 DEF HearOther
  <2>8. sess'[f] = t /\ sess'[o] = s /\ wire'[o] = Rest(p) /\ wire'[f] = Said(f, <<>>)
    BY <1>1, <2>7, Listened
  <2>9. wire'[f] = q
    BY <1>1, <2>8, SaidOn
  <2>10. Kinds(Rest(p)) \subseteq {"SID", ">"}
    <3>1. p # <<>> => Kinds(Rest(p)) \subseteq Kinds(p)
      BY <1>2, JoinRead, NoLines
    <3>2. p = <<>> => Rest(p) = p
      BY DEF Rest
    <3> QED BY <1>3, <3>1, <3>2
  <2> HIDE DEF s, t, p, q
  <2>11. Opens(o, s, t, Rest(p), q)
    BY <1>3, <1>5, <2>10 DEF Opens, s, t, p, q
  <2> QED BY <2>8, <2>9, <2>11 DEF InPhase, Phase
<1> QED BY <1>3, <1>4, <1>5

\* The proposals and the answers.
LEMMA AllHeard ==
  ASSUME TypeInv, NEW x \in End, NEW y, y = Other(x), Lined(x), x \in foreign \/ y \in foreign,
         sess[x].at = "answer", sess[y].at = "proposals", wire[x] # <<>>, First(wire[x]).kind = "FF"
  PROVE  sess[y].inc = sess[x].out
<1> DEFINE out == sess[x].out
           inc == sess[y].inc
           p == wire[x]
           n == Len(out)
           m == Len(inc)
<1>1. out \in Seq(Msg) /\ inc \in Seq(Msg) /\ p \in Seq(Line)
  BY Values
<1>2. PICK k \in Int : LinedUp(p, out, inc, k)
  BY DEF Lined
<1>3. /\ n \in Nat /\ m \in Nat /\ DOMAIN out = 1 .. n /\ DOMAIN inc = 1 .. m
  BY <1>1, LenProperties
<1>4. 1 \in DOMAIN p /\ p[1].kind = "FF"
  <2>1. First(p) = p[1]
    BY <1>1, RestFacts
  <2>2. DOMAIN p = 1 .. Len(p) /\ Len(p) \in Nat \ {0}
    BY <1>1, LenProperties, EmptySeq
  <2> QED BY <2>1, <2>2
<1> HIDE DEF out, inc, p
<1>5. /\ m = IF k < 0 THEN 0 - k ELSE 0
      /\ \A i \in DOMAIN inc : i \in DOMAIN out /\ inc[i] = out[i]
      /\ 1 <= k => p[1].kind \notin {"FB", "FF", "FQ"}
      /\ k < 1 /\ 1 <= k + n => p[1] = FB(out[1 - k])
  BY <1>2, <1>4 DEF LinedUp
<1> HIDE DEF n, m
<1>6. k < 1
  BY <1>4, <1>5
<1>7. k + n < 1
  <2>1. ASSUME 1 <= k + n PROVE FALSE
    <3>1. p[1] = FB(out[1 - k])
      BY <1>5, <1>6, <2>1
    <3>2. p[1].kind = "FB"
      BY <3>1 DEF FB
    <3> QED BY <1>4, <3>2
  <2> QED BY <1>3, <2>1
<1>8. m >= n
  BY <1>3, <1>5, <1>6, <1>7
<1>9. m <= n
  <2>1. m > 0 => m \in DOMAIN inc
    BY <1>3
  <2>2. \A i \in DOMAIN inc : i \in DOMAIN out
    BY <1>5
  <2>3. m > 0 => m \in 1 .. n
    BY <1>3, <2>1, <2>2
  <2> QED BY <1>3, <2>3
<1>10. m = n
  BY <1>3, <1>8, <1>9
<1>11. \A i \in 1 .. m : inc[i] = out[i]
  BY <1>3, <1>5
<1>12. inc = out
  BY <1>1, <1>10, <1>11, SeqEqual DEF n, m
<1> QED BY <1>12 DEF inc, out

LEMMA AskingOwn ==
  ASSUME NEW o, NEW f, Alone(o, f), Does(o), ~flawed',
         Asking(sess[o], sess[f], wire[o], wire[f])
  PROVE  FALSE
<1>1. TypeInv /\ o \in End /\ f \in End /\ f = Other(o) /\ ~Broken(o)
  BY Whole, Zenon DEF Alone
<1>2. sess[o].at = "answer" /\ sess[f].at = "proposals" /\ wire[f] = <<>> /\ Listed(wire[o], <<>>)
  BY DEF Asking
<1>3. wire[o] # <<>>
  BY <1>1, <1>2, Values, NoLines, ListRead
<1>4. ReadAnswer(o)
  BY <1>1, <1>2, Takes
<1>5. PICK r : Read(o, r, <<>>)
  BY <1>4 DEF ReadAnswer
<1>6. InTime(o, f)
  BY <1>1, <1>5, Listened
<1> QED BY <1>2, <1>3, <1>6 DEF InTime

\* The foreign end hears the proposals, and when it has heard them all, answers
\* and makes its own.
LEMMA AskingForeign ==
  ASSUME NEW o, NEW f, Alone(o, f), Does(f), ~flawed', Lined(o),
         Asking(sess[o], sess[f], wire[o], wire[f])
  PROVE  InPhase(o, f)'
<1> DEFINE s == sess[o]
           t == sess[f]
           p == wire[o]
           q == wire[f]
<1>1. /\ TypeInv /\ o \in End /\ f \in End /\ o = Other(f) /\ f = Other(o) /\ f \in foreign /\ ~cut /\ ~Broken(f)
  BY Whole, Zenon DEF Alone
<1>2. /\ s \in Session /\ t \in Session /\ p \in Seq(Line) /\ q \in Seq(Line) /\ Heard(f) = First(p)
      /\ t.inc \in Seq(Msg)
  BY <1>1, Values
<1>3. /\ s.at = "answer" /\ s.inc = <<>> /\ Rising(s.out) /\ Listed(p, <<>>)
      /\ t.at = "proposals" /\ t.ok = <<>> /\ q = <<>>
  BY DEF Asking
<1>4. /\ p # <<>>
      /\ \/ First(p).kind = "FF" /\ Rest(p) = <<>>
         \/ First(p).kind \in {"SID", ">", "FB"} /\ Listed(Rest(p), <<>>)
  BY <1>2, <1>3, NoLines, ListRead
<1>5. HearProposal(f) \/ HearOther(f) \/ Respond(f) \/ ForeignAnswer(f) \/ Leave(f)
  BY <1>1, <1>3, Takes
<1>6. ~Respond(f)
  BY <1>1, Zenon DEF Respond
<1>7. ~Leave(f)
  BY <1>1, <1>3, Zenon DEF Leave
<1>8. CASE HearProposal(f) \/ HearOther(f)
  <2>1. PICK r : Read(f, r, <<>>) /\ r.at = "proposals" /\ r.ok = <<>>
    <3>1. CASE HearProposal(f)
      <4> DEFINE inc == Append(t.inc, Heard(f).msg)
                 r == [t EXCEPT !.inc = inc]
      <4>1. Read(f, r, <<>>)
        BY <3>1 DEF HearProposal
      <4>2. r.at = "proposals" /\ r.ok = <<>>
        <5> HIDE DEF inc
        <5> QED BY <1>2, <1>3 DEF Session
      <4> QED BY <4>1, <4>2
    <3>2. CASE HearOther(f)
      BY <1>3, <3>2 DEF HearOther
    <3> QED BY <1>8, <3>1, <3>2
  <2>2. First(p).kind # "FF"
    BY <1>2, <1>8 DEF HearProposal, HearOther, EndsProposals
  <2>3. sess'[f] = r /\ sess'[o] = s /\ wire'[o] = Rest(p) /\ wire'[f] = Said(f, <<>>)
    BY <1>1, <2>1, Listened
  <2>4. wire'[f] = <<>>
    BY <1>1, <1>3, <2>3, SaidOn
  <2>5. Listed(Rest(p), <<>>)
    BY <1>4, <2>2
  <2> HIDE DEF s, t, p, q
  <2>6. Asking(s, r, Rest(p), <<>>)
    BY <1>3, <2>1, <2>5 DEF Asking
  <2> QED BY <2>3, <2>4, <2>6 DEF InPhase, Phase
<1>9. CASE ForeignAnswer(f)
  <2> DEFINE out == Ordered(Selected(f))
             a == IF out = <<>> THEN "send" ELSE "answer"
             w == Wanted(f)
             as == Responses(f)
             l == Proposals(out)
             r == [t EXCEPT !.at = a, !.out = out, !.inc = w]
             x == <<FS(as)>> \o l
  <2>1. Heard(f).kind = "FF" /\ Read(f, r, x) /\ store' = store
    BY <1>9 DEF ForeignAnswer
  <2>2. t.inc = s.out
    BY <1>1, <1>2, <1>3, <1>4, <2>1, AllHeard
  <2>3. Rest(p) = <<>>
    BY <1>2, <1>4, <2>1
  <2>4. out \in Seq(Msg) /\ Rising(out)
    BY <1>1, SelectedFacts, Listing
  <2>5. as \in Seq(Answers) /\ Carries(<<>>, Accepted(t.inc, as), t.inc, Len(w), Present(f))
    BY <1>1, <1>3, <2>2, ResponseFacts, AnswersMatch
  <2>6. l \in Seq(Line) /\ Listed(l, <<>>) /\ (out = <<>> => "FB" \notin Kinds(l))
    <3>1. l \in Seq(Line)
      BY <2>4, ProposalLines
    <3>2. Listed(<<>> \o l, <<>>)
      <4> HIDE DEF out
      <4> QED BY <2>4, NoLines, ListSaid
    <3>3. <<>> \o l = l
      <4> HIDE DEF l
      <4> QED BY <3>1, ConcatEmptySeq
    <3>4. ASSUME out = <<>> PROVE "FB" \notin Kinds(l)
      <4>1. /\ Len(l) = Len(out) + 1 /\ l[Len(out) + 1] = Text("FF") /\ Len(out) = 0
        <5> HIDE DEF out
        <5> QED BY <2>4, <3>4, ProposalLines, NoLines
      <4> HIDE DEF l
      <4>2. l[1] = Text("FF") /\ Len(l) = 1 /\ Text("FF").kind = "FF"
        <5>1. Len(out) + 1 = 1
          BY <4>1
        <5>2. Text("FF").kind = "FF"
          BY TextLines
        <5> QED BY <4>1, <5>1, <5>2
      <4>3. DOMAIN l = 1 .. 1
        BY <3>1, <4>2, LenProperties
      <4>4. \A i \in DOMAIN l : l[i].kind = "FF"
        BY <4>2, <4>3
      <4> QED BY <4>4 DEF Kinds, Range
    <3> QED BY <3>1, <3>2, <3>3, <3>4
  <2> HIDE DEF out
  <2>7. r.at = a /\ r.out = out /\ r.inc = w /\ r.ok = <<>> /\ a \in {"send", "answer"}
    <3>1. a \in {"send", "answer"}
      OBVIOUS
    <3> HIDE DEF a, w
    <3> QED BY <1>2, <1>3, <3>1 DEF Session
  <2>8. Replied(r) /\ Bye(r) = <<>>
    <3>1. a = (IF out = <<>> THEN "send" ELSE "answer")
      OBVIOUS
    <3> HIDE DEF r, a, w
    <3> QED BY <2>4, <2>7, <3>1 DEF Replied, Bye
  <2> HIDE DEF w, as, l, r, x
  <2>9. sess'[f] = r /\ sess'[o] = s /\ wire'[o] = Rest(p) /\ wire'[f] = Said(f, x)
    BY <1>1, <2>1, Listened
  <2>10. wire'[f] = x
    <3>1. wire'[f] = q \o x
      BY <1>1, <1>3, <2>9, SaidOn
    <3>2. x \in Seq(Line)
      BY <2>5, <2>6, AnswersRead DEF x
    <3> QED BY <1>3, <3>1, <3>2, ConcatEmptySeq
  <2>11. Settles(Accepted(s.out, as), s, r, Present(f))
    BY <2>2, <2>5, <2>7 DEF Settles
  <2>12. Present(f)' = Present(f) /\ Present(o)' = Present(o)
    BY <2>1 DEF Present
  <2> HIDE DEF s, t, p, q
  <2>13. Replying(s, r, <<>>, x, Present(f))
    BY <1>3, <2>5, <2>6, <2>7, <2>8, <2>11 DEF Replying, x
  <2> QED BY <2>3, <2>9, <2>10, <2>12, <2>13 DEF InPhase, Phase
<1> QED BY <1>5, <1>6, <1>7, <1>8, <1>9

\* Once it has answered, all a foreign end can do before it is heard is to say
\* goodbye, if it neither proposed nor wants anything.
LEMMA RepliedMoves ==
  ASSUME NEW o, NEW f, Alone(o, f), Does(f), ~flawed',
         Replied(sess[f]), wire[o] = <<>>, wire[f] # <<>>, sess[o].at # "idle"
  PROVE  /\ sess[f].at = "send" /\ sess[f].inc = <<>> /\ Replied(sess'[f])
         /\ sess'[f].out = sess[f].out /\ sess'[f].inc = sess[f].inc
         /\ Bye(sess[f]) = <<>> /\ Bye(sess'[f]) = <<Text("FQ")>>
         /\ sess'[o] = sess[o] /\ wire'[o] = wire[o] /\ wire'[f] = wire[f] \o <<Text("FQ")>>
         /\ Present(o)' = Present(o) /\ Present(f)' = Present(f)
<1>1. TypeInv /\ o \in End /\ f \in End /\ o = Other(f) /\ ~cut /\ ~Broken(f) /\ sess[f] \in Session
  BY Whole, Values, Zenon DEF Alone
<1>2. sess[f].ok = <<>> /\ sess[f].at \in {"answer", "send", "idle"} /\ Rising(sess[f].out)
  BY DEF Replied
<1>3. ReadAnswer(f) \/ Receive(f) \/ (sess[f].at = "send" /\ sess[f].inc = <<>> /\ Finish(f))
  BY <1>1, <1>2, Takes
<1>4. ~InTime(f, o)
  BY DEF InTime
<1>5. ~ReadAnswer(f)
  <2> SUFFICES ASSUME ReadAnswer(f) PROVE FALSE
    OBVIOUS
  <2>1. PICK r : Read(f, r, <<>>)
    BY DEF ReadAnswer
  <2> QED BY <1>1, <1>4, <2>1, Listened
<1>6. ~Receive(f)
  <2> SUFFICES ASSUME Receive(f) PROVE FALSE
    OBVIOUS
  <2> QED BY <1>1, <1>4, Received
<1> DEFINE r == [sess[f] EXCEPT !.at = "idle"]
           x == <<Text("FQ")>>
<1>7. sess[f].at = "send" /\ sess[f].inc = <<>> /\ Write(f, r, x) /\ store' = store
  BY <1>3, <1>5, <1>6 DEF Finish, records
<1>8. r.at = "idle" /\ r.out = sess[f].out /\ r.inc = sess[f].inc /\ r.ok = sess[f].ok
  BY <1>1, Moved DEF Stages
<1>9. sess[f].out = <<>>
  BY <1>7 DEF Replied
<1> HIDE DEF r
<1>10. Replied(r) /\ Bye(r) = x /\ Bye(sess[f]) = <<>>
  BY <1>2, <1>7, <1>8, <1>9 DEF Replied, Bye
<1> HIDE DEF x
<1>11. sess'[f] = r /\ sess'[o] = sess[o] /\ wire'[o] = wire[o] /\ wire'[f] = Said(f, x)
  BY <1>1, <1>7, Written
<1>12. wire'[f] = wire[f] \o x
  BY <1>1, <1>11, SaidOn
<1>13. Present(o)' = Present(o) /\ Present(f)' = Present(f)
  BY <1>7 DEF Present
<1> QED BY <1>7, <1>8, <1>10, <1>11, <1>12, <1>13 DEF x

LEMMA GoodbyeLine == <<Text("FQ")>> \in Seq(Line) /\ Kinds(<<Text("FQ")>>) = {"FQ"}
<1> DEFINE l == Text("FQ")
<1>1. l \in Line /\ l.kind = "FQ"
  BY TextLines
<1> HIDE DEF l
<1>2. <<l>> \in Seq(Line) /\ Range(<<l>>) = {l}
  BY <1>1, OneLine
<1>3. Kinds(<<l>>) = {"FQ"}
  BY <1>1, <1>2 DEF Kinds
<1> QED BY <1>2, <1>3 DEF l

LEMMA ReplyingForeign ==
  ASSUME NEW o, NEW f, Alone(o, f), Does(f), ~flawed',
         Replying(sess[o], sess[f], wire[o], wire[f], Present(f))
  PROVE  InPhase(o, f)'
<1> DEFINE s == sess[o]
           t == sess[f]
           q == wire[f]
           x == <<Text("FQ")>>
<1>1. s.at = "answer" /\ s.inc = <<>> /\ Replied(t) /\ wire[o] = <<>>
  BY DEF Replying
<1>2. PICK as \in Seq(Answers), l \in Seq(Line) :
        /\ q = <<FS(as)>> \o l /\ Listed(l, Bye(t)) /\ (t.out = <<>> => "FB" \notin Kinds(l))
        /\ Settles(Accepted(s.out, as), s, t, Present(f))
  BY DEF Replying
<1>3. q # <<>> /\ <<FS(as)>> \in Seq(Line)
  <2>1. FS(as) \in Line
    BY TextLines
  <2>2. <<FS(as)>> \in Seq(Line)
    BY <2>1, OneLine
  <2>3. <<FS(as)>> \o l # <<>>
    BY <1>2, AnswersRead
  <2> QED BY <1>2, <2>2, <2>3
<1> DEFINE r == sess'[f]
<1>4. /\ t.inc = <<>> /\ Replied(r) /\ r.out = t.out /\ r.inc = t.inc
      /\ Bye(t) = <<>> /\ Bye(r) = x
      /\ sess'[o] = s /\ wire'[o] = <<>> /\ wire'[f] = q \o x
      /\ Present(o)' = Present(o) /\ Present(f)' = Present(f)
  BY <1>1, <1>3, RepliedMoves
<1>5. x \in Seq(Line) /\ Kinds(x) = {"FQ"}
  BY GoodbyeLine
<1> HIDE DEF x
<1>6. q \o x = <<FS(as)>> \o (l \o x)
  BY <1>2, <1>3, <1>5, ConcatAssociative
<1>7. l \o x \in Seq(Line) /\ Kinds(l \o x) = Kinds(l) \cup {"FQ"}
  BY <1>5, KindsFacts
<1>8. Listed(l \o x, x)
  BY <1>2, <1>4, <1>5, ListGoesOn
<1>9. Settles(Accepted(s.out, as), s, r, Present(f))
  BY <1>2, <1>4 DEF Settles
<1> HIDE DEF s, t, q, r
<1> DEFINE k == l \o x
<1>10. k \in Seq(Line) /\ q \o x = <<FS(as)>> \o k /\ Listed(k, Bye(r)) /\ (r.out = <<>> => "FB" \notin Kinds(k))
  BY <1>2, <1>4, <1>6, <1>7, <1>8
<1> HIDE DEF k
<1>11. Replying(s, r, <<>>, q \o x, Present(f))
  BY <1>1, <1>4, <1>9, <1>10 DEF Replying
<1> QED BY <1>4, <1>11 DEF InPhase, Phase, s, t, q, r

LEMMA ReplyingOwn ==
  ASSUME NEW o, NEW f, Alone(o, f), Does(o), ~flawed',
         Replying(sess[o], sess[f], wire[o], wire[f], Present(f))
  PROVE  InPhase(o, f)'
<1> DEFINE s == sess[o]
           t == sess[f]
           q == wire[f]
<1>1. TypeInv /\ o \in End /\ f \in End /\ f = Other(o) /\ o \notin foreign /\ ~cut /\ ~Broken(o)
  BY Whole, Zenon DEF Alone
<1>2. s.at = "answer" /\ s.inc = <<>> /\ Replied(t) /\ wire[o] = <<>>
  BY DEF Replying
<1>3. PICK as \in Seq(Answers), l \in Seq(Line) :
        /\ q = <<FS(as)>> \o l /\ Listed(l, Bye(t)) /\ (t.out = <<>> => "FB" \notin Kinds(l))
        /\ Settles(Accepted(s.out, as), s, t, Present(f))
  BY DEF Replying
<1>4. s \in Session /\ Heard(o) = First(q)
  BY <1>1, Values
<1>5. Heard(o).answers = as /\ Rest(q) = l
  BY <1>3, <1>4, AnswersRead
<1> DEFINE ok == Accepted(s.out, as)
           r == [s EXCEPT !.at = "proposals", !.ok = ok]
<1>6. Read(o, r, <<>>) /\ store' = store
  <2>1. ReadAnswer(o)
    BY <1>1, <1>2, Takes
  <2> QED BY <1>1, <1>5, <2>1 DEF ReadAnswer, records
<1> HIDE DEF ok
<1>7. r.at = "proposals" /\ r.ok = ok /\ r.out = s.out /\ r.inc = <<>>
  BY <1>2, <1>4 DEF Session
<1> HIDE DEF r
<1>8. sess'[o] = r /\ sess'[f] = t /\ wire'[f] = l /\ wire'[o] = Said(o, <<>>)
  BY <1>1, <1>5, <1>6, Listened
<1>9. wire'[o] = <<>>
  BY <1>1, <1>2, <1>8, SaidOn
<1>10. Present(f)' = Present(f)
  BY <1>6 DEF Present
<1>11. Settles(ok, r, t, Present(f))
  BY <1>3, <1>7 DEF Settles, ok
<1> HIDE DEF s, t, q
<1>12. Hearing(r, t, <<>>, l, Present(f))
  BY <1>2, <1>3, <1>7, <1>11 DEF Hearing
<1> QED BY <1>8, <1>9, <1>10, <1>12 DEF InPhase, Phase, t

LEMMA HearingForeign ==
  ASSUME NEW o, NEW f, Alone(o, f), Does(f), ~flawed',
         Hearing(sess[o], sess[f], wire[o], wire[f], Present(f))
  PROVE  InPhase(o, f)'
<1> DEFINE s == sess[o]
           t == sess[f]
           q == wire[f]
           x == <<Text("FQ")>>
<1>1. /\ s.at = "proposals" /\ Replied(t) /\ wire[o] = <<>> /\ Listed(q, Bye(t))
      /\ t.out = <<>> => s.inc = <<>> /\ "FB" \notin Kinds(q)
      /\ Settles(s.ok, s, t, Present(f))
  BY DEF Hearing
<1>2. q \in Seq(Line) /\ x \in Seq(Line) /\ Kinds(x) = {"FQ"}
  BY Values, GoodbyeLine DEF Alone
<1>3. q # <<>>
  <2>1. Bye(t) \in Seq(Line)
    BY <1>2, NoLines DEF Bye
  <2> QED BY <1>1, <1>2, <2>1, ListRead
<1> DEFINE r == sess'[f]
<1>4. /\ t.inc = <<>> /\ Replied(r) /\ r.out = t.out /\ r.inc = t.inc
      /\ Bye(t) = <<>> /\ Bye(r) = x
      /\ sess'[o] = s /\ wire'[o] = <<>> /\ wire'[f] = q \o x
      /\ Present(o)' = Present(o) /\ Present(f)' = Present(f)
  BY <1>1, <1>3, RepliedMoves
<1> HIDE DEF x
<1>5. Kinds(q \o x) = Kinds(q) \cup {"FQ"}
  BY <1>2, KindsFacts
<1>6. Listed(q \o x, x)
  BY <1>1, <1>2, <1>4, ListGoesOn
<1>7. Settles(s.ok, s, r, Present(f))
  BY <1>1, <1>4 DEF Settles
<1> HIDE DEF s, t, q, r
<1>8. Hearing(s, r, <<>>, q \o x, Present(f))
  BY <1>1, <1>4, <1>5, <1>6, <1>7 DEF Hearing
<1> QED BY <1>4, <1>8 DEF InPhase, Phase, s, t, q, r

\* This program hears the proposals of the foreign end, and answers them.
LEMMA HearingOwn ==
  ASSUME NEW o, NEW f, Alone(o, f), Does(o), ~flawed', Lined(f),
         Hearing(sess[o], sess[f], wire[o], wire[f], Present(f))
  PROVE  InPhase(o, f)'
<1> DEFINE s == sess[o]
           t == sess[f]
           q == wire[f]
<1>1. /\ TypeInv /\ o \in End /\ f \in End /\ f = Other(o) /\ o = Other(f) /\ ~cut /\ ~Broken(o)
      /\ f \in foreign
  BY Whole, Zenon DEF Alone
<1>2. /\ s.at = "proposals" /\ Replied(t) /\ wire[o] = <<>> /\ Listed(q, Bye(t))
      /\ t.out = <<>> => s.inc = <<>> /\ "FB" \notin Kinds(q)
      /\ Settles(s.ok, s, t, Present(f))
  BY DEF Hearing
<1>3. s \in Session /\ q \in Seq(Line) /\ Heard(o) = First(q) /\ s.ok \in Seq(Msg)
  BY <1>1, Values
<1>4. Bye(t) \in Seq(Line)
  BY NoLines, GoodbyeLine DEF Bye
<1>5. /\ q # <<>>
      /\ \/ First(q).kind = "FF" /\ Rest(q) = Bye(t)
         \/ First(q).kind \in {"SID", ">", "FB"} /\ Listed(Rest(q), Bye(t))
  BY <1>2, <1>3, <1>4, ListRead
<1>6. First(q).kind \in Kinds(q) /\ Kinds(Rest(q)) \subseteq Kinds(q)
  BY <1>3, <1>5, JoinRead
<1>7. HearProposal(o) \/ HearOther(o) \/ Respond(o)
  <2>1. o \notin foreign
    BY DEF Alone
  <2>2. ~ForeignAnswer(o) /\ ~Leave(o)
    BY <2>1, Zenon DEF ForeignAnswer, Leave
  <2> QED BY <1>1, <1>2, <2>2, Takes
<1>8. CASE HearProposal(o) \/ HearOther(o)
  <2>1. PICK r : /\ Read(o, r, <<>>) /\ r.at = "proposals" /\ r.ok = s.ok /\ r.out = s.out
                 /\ r.inc = s.inc \/ First(q).kind = "FB"
    <3>1. CASE HearProposal(o)
      <4> DEFINE inc == Append(s.inc, Heard(o).msg)
                 r == [s EXCEPT !.inc = inc]
      <4>1. Read(o, r, <<>>) /\ Heard(o).kind = "FB"
        BY <3>1 DEF HearProposal
      <4>2. r.at = "proposals" /\ r.ok = s.ok /\ r.out = s.out
        <5> HIDE DEF inc
        <5> QED BY <1>2, <1>3 DEF Session
      <4> QED BY <1>3, <4>1, <4>2
    <3>2. CASE HearOther(o)
      BY <1>2, <3>2 DEF HearOther
    <3> QED BY <1>8, <3>1, <3>2
  <2>2. First(q).kind # "FF" /\ store' = store
    BY <1>3, <1>8 DEF HearProposal, HearOther, EndsProposals, records
  <2>3. sess'[o] = r /\ sess'[f] = t /\ wire'[f] = Rest(q) /\ wire'[o] = Said(o, <<>>)
    BY <1>1, <2>1, Listened
  <2>4. wire'[o] = <<>>
    BY <1>1, <1>2, <2>3, SaidOn
  <2>5. Listed(Rest(q), Bye(t))
    BY <1>5, <2>2
  <2>6. t.out = <<>> => r.inc = <<>> /\ "FB" \notin Kinds(Rest(q))
    BY <1>2, <1>6, <2>1
  <2>7. Settles(r.ok, r, t, Present(f))
    BY <1>2, <2>1 DEF Settles
  <2>8. Present(f)' = Present(f)
    BY <2>2 DEF Present
  <2> HIDE DEF s, t, q
  <2>9. Hearing(r, t, <<>>, Rest(q), Present(f))
    BY <1>2, <2>1, <2>5, <2>6, <2>7 DEF Hearing
  <2> QED BY <2>3, <2>4, <2>8, <2>9 DEF InPhase, Phase
<1>9. CASE Respond(o)
  <2> DEFINE as == Responses(o)
             w == Wanted(o)
             fs == <<FS(as)>>
             r == [s EXCEPT !.at = "send", !.inc = w]
             x == IF s.inc = <<>> THEN <<>> ELSE fs
  <2>1. Read(o, r, x) /\ store' = store /\ Heard(o).kind \in EndsProposals
    BY <1>9, Zenon DEF Respond
  <2>2. First(q).kind = "FF" /\ Rest(q) = Bye(t)
    BY <1>3, <1>5, <2>1 DEF EndsProposals
  <2>3. fs \in Seq(Line) /\ as \in Seq(Answers)
    BY <1>1, ResponseFacts
  <2> HIDE DEF w
  <2>4. r.at = "send" /\ r.out = s.out /\ r.ok = s.ok /\ r.inc = w
    BY <1>3 DEF Session
  <2> HIDE DEF r, x
  <2>5. sess'[o] = r /\ sess'[f] = t /\ wire'[f] = Rest(q) /\ wire'[o] = Said(o, x)
    BY <1>1, <2>1, Listened
  <2>6. Left(r) = s.ok /\ Over(r)
    BY <2>4 DEF Left, Over
  <2>7. Carries(<<>>, Left(r), r.out, Len(t.inc), Present(f))
    BY <1>2, <2>4, <2>6 DEF Settles
  <2>8. Present(f)' = Present(f) /\ Present(o)' = Present(o)
    BY <2>1 DEF Present
  <2>9. CASE t.at = "answer"
    <3>1. s.inc = t.out /\ t.out # <<>> /\ Rising(t.out) /\ Bye(t) = <<>>
      BY <1>1, <1>2, <1>5, <2>2, <2>9, AllHeard DEF Replied, Bye
    <3>2. wire'[o] = fs \o <<>>
      <4>1. x = fs
        BY <3>1 DEF x
      <4>2. wire'[o] = wire[o] \o fs
        BY <1>1, <2>5, <2>9, <4>1, SaidOn
      <4> HIDE DEF fs
      <4> QED BY <1>2, <2>3, <4>2, ConcatEmptySeq
    <3>3. Carries(<<>>, Accepted(s.inc, as), s.inc, Len(w), Present(o))
      BY <1>1, <3>1, AnswersMatch DEF w
    <3>4. Settles(Accepted(t.out, as), t, r, Present(o))
      BY <2>4, <3>1, <3>3 DEF Settles
    <3> HIDE DEF s, t, q, as
    <3>5. Deciding(r, t, fs \o <<>>, <<>>, Present(o), Present(f))
      BY <2>3, <2>4, <2>6, <2>7, <2>9, <3>4, NoLines DEF Deciding
    <3> HIDE DEF fs
    <3> QED BY <2>2, <2>5, <2>8, <3>1, <3>2, <3>5 DEF InPhase, Phase
  <2>10. CASE t.at # "answer"
    <3>1. /\ t.out = <<>> /\ t.at \in {"send", "idle"} /\ t.ok = <<>> /\ (t.at = "idle" => t.inc = <<>>)
          /\ s.inc = <<>>
      BY <1>2, <2>10 DEF Replied
    <3>2. wire'[o] = <<>>
      <4>1. x = <<>>
        BY <3>1 DEF x
      <4> QED BY <1>1, <1>2, <2>5, <4>1, SaidOn
    <3>3. w = <<>>
      <4>1. w \in Seq(Msg) /\ Range(w) = {m \in Range(s.inc) : AnswerTo(o, m) = "+"}
        BY <1>1, WantedFacts DEF w
      <4>2. Range(w) = {}
        BY <3>1, <4>1, NoLines DEF Range
      <4>3. w # <<>> => w[1] \in Range(w)
        BY <4>1, LenProperties, EmptySeq DEF Range
      <4> QED BY <4>2, <4>3
    <3>4. Carries(Bye(t), Left(t), t.out, Len(w), Present(o))
      <4> DEFINE there == Present(o)
      <4> HIDE DEF there
      <4>1. Carries(<<>>, <<>>, <<>>, 0, there)
        <5>1. <<>> \in Seq(Msg) /\ Len(<<>>) = 0 /\ Range(<<>>) = {}
          BY NoLines, EmptySeq DEF Range
        <5> QED BY <5>1, NoneOnTheWay
      <4>2. Carries(<<>> \o Bye(t), <<>>, <<>>, 0, there)
        BY <1>4, <4>1, NoLines, SaidAfter
      <4>3. <<>> \o Bye(t) = Bye(t)
        BY <1>4, ConcatEmptySeq
      <4>4. Left(t) = <<>> /\ Len(w) = 0
        BY <3>1, <3>3, NoLines DEF Left
      <4> QED BY <3>1, <4>2, <4>3, <4>4 DEF there
    <3>5. Over(t) /\ r.at \in Late /\ t.at \in Late
      BY <2>4, <3>1 DEF Over, Late
    <3> HIDE DEF s, t, q
    <3>6. Trading(r, t, <<>>, Bye(t), Present(o), Present(f))
      BY <2>4, <2>6, <2>7, <3>4, <3>5 DEF Trading
    <3> QED BY <2>2, <2>5, <2>8, <3>2, <3>6 DEF InPhase, Phase
  <2> QED BY <2>9, <2>10
<1> QED BY <1>7, <1>8, <1>9

LEMMA DecidingOwn ==
  ASSUME NEW o, NEW f, Alone(o, f), Does(o), ~flawed',
         Deciding(sess[o], sess[f], wire[o], wire[f], Present(o), Present(f))
  PROVE  InPhase(o, f)'
<1> DEFINE s == sess[o]
           t == sess[f]
           p == wire[o]
<1>1. TypeInv /\ o \in End /\ f \in End /\ f = Other(o) /\ ~cut /\ ~Broken(o)
  BY Whole, Zenon DEF Alone
<1>2. s.at \in {"send", "record", "idle"} /\ Over(s) /\ t.at = "answer" /\ wire[f] = <<>>
  BY DEF Deciding
<1>3. PICK as \in Seq(Answers), l \in Seq(Line) :
        /\ p = <<FS(as)>> \o l /\ Settles(Accepted(t.out, as), t, s, Present(o))
        /\ Carries(l, Left(s), s.out, Len(t.inc), Present(f))
  BY DEF Deciding
<1>4. s \in Session /\ p \in Seq(Line)
  BY <1>1, Values
<1>5. p # <<>> /\ <<FS(as)>> \in Seq(Line)
  <2>1. FS(as) \in Line
    BY TextLines
  <2>2. <<FS(as)>> \in Seq(Line)
    BY <2>1, OneLine
  <2>3. <<FS(as)>> \o l # <<>>
    BY <1>3, AnswersRead
  <2> QED BY <1>3, <2>2, <2>3
<1>6. ~Receive(o)
  <2> SUFFICES ASSUME Receive(o) PROVE FALSE
    OBVIOUS
  <2>1. InTime(o, f)
    BY <1>1, Received
  <2> QED BY <1>2, <1>5, <2>1 DEF InTime
<1>7. Send(o) \/ Record(o) \/ AppendPath(o) \/ Finish(o)
  BY <1>1, <1>2, <1>6, Takes
<1>8. /\ wire'[f] = wire[f] /\ sess'[f] = t /\ Present(o) \subseteq Present(o)' /\ Present(f)' = Present(f)
      /\ \E lines : Sends(s, sess'[o], lines) /\ wire'[o] = Said(o, lines)
  BY <1>1, <1>7, SendsDoes
<1>9. PICK lines : Sends(s, sess'[o], lines) /\ wire'[o] = Said(o, lines)
  BY <1>8
<1> DEFINE r == sess'[o]
           n == Len(t.inc)
           there == Present(f)
<1>10. Carries(l, Left(s), s.out, n, there)
  BY <1>3
<1>11. /\ r.at \in Late /\ Over(r) /\ r.at # "path" /\ r.out = s.out /\ r.inc = s.inc
       /\ lines \in Seq(Line) /\ Carries(l \o lines, Left(r), r.out, n, there)
  <2>1. l \in Seq(Line) /\ s \in Session /\ Sends(s, r, lines)
    BY <1>3, <1>4, <1>9
  <2> HIDE DEF s, t, r, n, there
  <2> QED BY <1>10, <2>1, SendsCarries
<1> HIDE DEF n, there
<1>12. wire'[o] = <<FS(as)>> \o (l \o lines) /\ l \o lines \in Seq(Line)
  <2>1. wire'[o] = p \o lines
    BY <1>1, <1>2, <1>9, SaidOn
  <2> QED BY <1>3, <1>5, <1>11, <2>1, ConcatAssociative, Joined
<1>13. Settles(Accepted(t.out, as), t, r, Present(o)')
  <2> DEFINE ok == Accepted(t.out, as)
  <2> HIDE DEF ok
  <2>1. Carries(<<>>, ok, t.out, Len(s.inc), Present(o))
    BY <1>3 DEF Settles, ok
  <2>2. Carries(<<>>, ok, t.out, Len(s.inc), Present(o)')
    BY <1>8, <2>1, CarriesMore
  <2>3. Settles(ok, t, r, Present(o)')
    BY <1>11, <2>2 DEF Settles
  <2> QED BY <2>3 DEF ok
<1> DEFINE k == l \o lines
<1> HIDE DEF s, t, p, r
<1>14. Deciding(r, t, <<FS(as)>> \o k, <<>>, Present(o)', there)
  <2>1. r.at \in {"send", "record", "idle"}
    BY <1>11 DEF Late
  <2>2. k \in Seq(Line) /\ Carries(k, Left(r), r.out, Len(t.inc), there)
    BY <1>11, <1>12 DEF n
  <2> HIDE DEF k
  <2> QED BY <1>2, <1>11, <1>13, <2>1, <2>2 DEF Deciding
<1> QED BY <1>2, <1>8, <1>12, <1>14 DEF InPhase, Phase, s, t, p, r, there

LEMMA DecidingForeign ==
  ASSUME NEW o, NEW f, Alone(o, f), Does(f), ~flawed',
         Deciding(sess[o], sess[f], wire[o], wire[f], Present(o), Present(f))
  PROVE  InPhase(o, f)'
<1> DEFINE s == sess[o]
           t == sess[f]
           p == wire[o]
<1>1. TypeInv /\ o \in End /\ f \in End /\ o = Other(f) /\ ~cut /\ ~Broken(f) /\ f \in foreign
  BY Whole, Zenon DEF Alone
<1>2. s.at \in {"send", "record", "idle"} /\ Over(s) /\ t.at = "answer" /\ wire[f] = <<>>
  BY DEF Deciding
<1>3. PICK as \in Seq(Answers), l \in Seq(Line) :
        /\ p = <<FS(as)>> \o l /\ Settles(Accepted(t.out, as), t, s, Present(o))
        /\ Carries(l, Left(s), s.out, Len(t.inc), Present(f))
  BY DEF Deciding
<1>4. t \in Session /\ Heard(f) = First(p)
  BY <1>1, Values
<1>5. Heard(f).answers = as /\ Rest(p) = l
  BY <1>3, <1>4, AnswersRead
<1> DEFINE ok == Accepted(t.out, as)
           r == [t EXCEPT !.at = "send", !.ok = ok]
<1>6. Read(f, r, <<>>) /\ store' = store
  <2>1. ReadAnswer(f)
    BY <1>1, <1>2, Takes
  <2> QED BY <1>1, <1>5, <2>1 DEF ReadAnswer, records
<1> HIDE DEF ok
<1>7. r.at = "send" /\ r.ok = ok /\ r.out = t.out /\ r.inc = t.inc
  BY <1>4 DEF Session
<1> HIDE DEF r
<1>8. sess'[f] = r /\ sess'[o] = s /\ wire'[o] = l /\ wire'[f] = Said(f, <<>>)
  BY <1>1, <1>5, <1>6, Listened
<1>9. wire'[f] = <<>>
  BY <1>1, <1>2, <1>8, SaidOn
<1>10. Present(f)' = Present(f) /\ Present(o)' = Present(o)
  BY <1>6 DEF Present
<1>11. Left(r) = ok /\ Over(r) /\ r.at \in Late /\ s.at \in Late
  BY <1>2, <1>7 DEF Left, Over, Late
<1>12. Carries(<<>>, Left(r), r.out, Len(s.inc), Present(o))
  BY <1>3, <1>7, <1>11 DEF Settles, ok
<1>13. Carries(l, Left(s), s.out, Len(r.inc), Present(f))
  BY <1>3, <1>7
<1> HIDE DEF s, t, p
<1>14. Trading(s, r, l, <<>>, Present(o), Present(f))
  BY <1>2, <1>11, <1>12, <1>13 DEF Trading
<1> QED BY <1>8, <1>9, <1>10, <1>14 DEF InPhase, Phase, s

\* From one phase to the next.
LEMMA TradingBoth ==
  ASSUME NEW o, NEW f, Alone(o, f), Does(o) \/ Does(f), ~flawed',
         Trading(sess[o], sess[f], wire[o], wire[f], Present(o), Present(f))
  PROVE  InPhase(o, f)'
<1>1. /\ TypeInv /\ o \in End /\ f \in End /\ f = Other(o) /\ o = Other(f) /\ ~cut
      /\ ~Broken(o) /\ ~Broken(f)
  BY Whole, Zenon DEF Alone
<1>2. CASE Does(o)
  <2>1. Trading(sess[o], sess[f], wire[o], wire[f], Present(o), Present(f))'
    BY <1>1, <1>2, TradingKept
  <2> QED BY <2>1 DEF InPhase, Phase
<1>3. CASE Does(f)
  <2>1. Trading(sess[f], sess[o], wire[f], wire[o], Present(f), Present(o))
    BY DEF Trading
  <2>2. Trading(sess[f], sess[o], wire[f], wire[o], Present(f), Present(o))'
    BY <1>1, <1>3, <2>1, TradingKept
  <2>3. Trading(sess[o], sess[f], wire[o], wire[f], Present(o), Present(f))'
    BY <2>2 DEF Trading
  <2> QED BY <2>3 DEF InPhase, Phase
<1> QED BY <1>2, <1>3

LEMMA PhaseKept ==
  ASSUME NEW o, NEW f, Alone(o, f), Lined(o), Lined(f), Does(o) \/ Does(f), ~flawed', InPhase(o, f)
  PROVE  InPhase(o, f)'
<1>1. CASE Opens(o, sess[o], sess[f], wire[o], wire[f])
  BY <1>1, OpensOwn, OpensForeign
<1>2. CASE Asking(sess[o], sess[f], wire[o], wire[f])
  BY <1>2, AskingOwn, AskingForeign
<1>3. CASE Replying(sess[o], sess[f], wire[o], wire[f], Present(f))
  BY <1>3, ReplyingOwn, ReplyingForeign
<1>4. CASE Hearing(sess[o], sess[f], wire[o], wire[f], Present(f))
  BY <1>4, HearingOwn, HearingForeign
<1>5. CASE Deciding(sess[o], sess[f], wire[o], wire[f], Present(o), Present(f))
  BY <1>5, DecidingOwn, DecidingForeign
<1>6. CASE Trading(sess[o], sess[f], wire[o], wire[f], Present(o), Present(f))
  BY <1>6, TradingBoth
<1> QED BY <1>1, <1>2, <1>3, <1>4, <1>5, <1>6 DEF InPhase, Phase

\* What has disturbed a session is not forgotten in it.
LEMMA FlawsStay ==
  ASSUME NEW e, Does(e), flawed
  PROVE  flawed'
<1>1. ASSUME NEW s, NEW lines, Read(e, s, lines) \/ Write(e, s, lines) PROVE flawed'
  BY <1>1 DEF Read, Write
<1>2. CASE ReadSID(e) \/ AwaitPrompt(e) \/ Propose(e) \/ ReadAnswer(e)
  BY <1>1, <1>2, Zenon DEF ReadSID, AwaitPrompt, Propose, ReadAnswer
<1>3. CASE HearProposal(e) \/ HearOther(e) \/ Respond(e) \/ ForeignAnswer(e) \/ Leave(e)
  BY <1>1, <1>3, Zenon DEF HearProposal, HearOther, Respond, ForeignAnswer, Leave
<1>4. CASE Send(e) \/ Record(e) \/ AppendPath(e) \/ Finish(e)
  BY <1>1, <1>4, Zenon DEF Send, Record, AppendPath, Finish
<1>5. CASE Receive(e)
  <2>1. New(e) => flawed'
    BY <1>1, <1>5, Zenon DEF Receive
  <2>2. ~New(e) => flawed'
    BY <1>1, <1>5, Zenon DEF Receive
  <2> QED BY <2>1, <2>2
<1>6. CASE Greet(e) \/ SendFails(e)
  BY <1>1, <1>6, Zenon DEF Greet, SendFails
<1>7. CASE Abort(e)
  BY <1>7, Zenon DEF Abort
<1> QED BY <1>2, <1>3, <1>4, <1>5, <1>6, <1>7 DEF Does, Step

LEMMA ConnectOpens ==
  ASSUME TypeInv, Connect, NEW f \in End, NEW o, o = Other(f), f \in foreign, o \notin foreign
  PROVE  InPhase(o, f)'
<1>1. o \in End /\ {o, f} = End /\ o # f
  BY DEF End, Other
<1>2. \A e \in End : /\ sess'[e].at = Opening(e) /\ Fresh(sess'[e])
                     /\ wire'[e] = IF e = "caller" THEN <<Text("SID")>> ELSE <<>>
  BY DEF Connect, Fresh
<1>3. Text("SID") \in Line /\ Text("SID").kind = "SID"
  BY TextLines
<1>4. \A e \in End : Kinds(wire'[e]) \subseteq {"SID", ">"}
  <2>1. Kinds(<<Text("SID")>>) = {"SID"}
    BY <1>3, KindsFacts
  <2> QED BY <1>2, <2>1, NoLines
<1>5. CASE f = "called"
  <2>1. o = "caller" /\ sess'[o].at = "sid" /\ sess'[f].at = "greet" /\ wire'[f] = <<>>
    BY <1>1, <1>2, <1>5 DEF Opening, Other
  <2>2. Opens(o, sess'[o], sess'[f], wire'[o], wire'[f])
    BY <1>1, <1>2, <1>4, <2>1 DEF Opens
  <2> QED BY <2>2 DEF InPhase, Phase
<1>6. CASE f = "caller"
  <2>1. o = "called" /\ sess'[o].at = "sid" /\ sess'[f].at = "proposals" /\ wire'[f] = <<Text("SID")>>
    BY <1>1, <1>2, <1>6 DEF Opening, Other
  <2>2. Opens(o, sess'[o], sess'[f], wire'[o], wire'[f])
    BY <1>1, <1>2, <1>4, <2>1 DEF Opens
  <2> QED BY <2>2 DEF InPhase, Phase
<1> QED BY <1>5, <1>6 DEF End

Undisturbed ==
  /\ cut => flawed
  /\ \A f \in foreign : Other(f) \notin foreign /\ ~flawed => InPhase(Other(f), f)

LEMMA InitUndisturbed ==
  ASSUME Init
  PROVE  Undisturbed
<1>1. \A e \in End : sess[e] = [at |-> "idle", out |-> <<>>, ok |-> <<>>, inc |-> <<>>] /\ wire[e] = <<>>
  BY DEF Init
<1>2. foreign \subseteq End /\ ~cut
  BY ForwardAssumption DEF Init, End
<1>3. ASSUME NEW f \in foreign PROVE InPhase(Other(f), f)
  <2> DEFINE o == Other(f)
  <2>1. o \in End /\ f \in End
    BY <1>2, Ends
  <2>2. \A e \in {o, f} : /\ sess[e].at = "idle" /\ sess[e].at \in Late /\ Over(sess[e]) /\ Left(sess[e]) = <<>>
                          /\ sess[e].out = <<>> /\ Len(sess[e].inc) = 0 /\ wire[e] = <<>>
    BY <1>1, <2>1, NoLines DEF Late, Over, Left
  <2>3. \A there : Carries(<<>>, <<>>, <<>>, 0, there)
    <3>1. <<>> \in Seq(Msg) /\ Len(<<>>) = 0 /\ Range(<<>>) = {}
      BY NoLines, EmptySeq DEF Range
    <3> QED BY <3>1, NoneOnTheWay
  <2>4. Trading(sess[o], sess[f], wire[o], wire[f], Present(o), Present(f))
    BY <2>2, <2>3 DEF Trading
  <2> QED BY <2>4 DEF InPhase, Phase
<1> QED BY <1>2, <1>3 DEF Undisturbed

LEMMA UndisturbedKept ==
  ASSUME ForwardInv, Undisturbed, [Next]_vars
  PROVE  Undisturbed'
<1>1. TypeInv /\ (\A e \in End : Lined(e)) /\ foreign \subseteq End
  BY ForwardAssumption DEF ForwardInv, Dealt, TypeInv, TypeOK, End
<1>2. CASE UNCHANGED vars
  BY <1>2, Zenon DEF vars, Undisturbed, InPhase, Present
<1>3. CASE Connect
  <2>1. foreign' = foreign /\ ~cut'
    BY <1>3 DEF Connect
  <2>2. ASSUME NEW f \in foreign, Other(f) \notin foreign PROVE InPhase(Other(f), f)'
    BY <1>1, <1>3, <2>2, ConnectOpens
  <2> QED BY <2>1, <2>2 DEF Undisturbed
<1>4. CASE Breaks
  <2>1. flawed' = TRUE
    BY <1>1, <1>4, BreaksFacts
  <2> QED BY <2>1 DEF Undisturbed
<1>5. ASSUME NEW e \in End, Does(e) PROVE Undisturbed'
  <2>1. \E lines : \E reads \in BOOLEAN : Frame(e, Other(e), lines, reads)
    BY <1>1, <1>5, Doing DEF Talks
  <2>2. cut' = cut /\ foreign' = foreign
    BY <2>1 DEF Frame
  <2>3. flawed => flawed'
    BY <1>5, FlawsStay
  <2>4. ASSUME NEW f \in foreign, Other(f) \notin foreign, ~flawed' PROVE InPhase(Other(f), f)'
    <3> DEFINE o == Other(f)
    <3>1. o \in End /\ f \in End /\ f = Other(o) /\ o # f /\ (e = o \/ e = f)
      BY <1>1, Ends DEF End, Other
    <3>2. ~flawed /\ ~cut /\ InPhase(o, f)
      BY <2>3, <2>4 DEF Undisturbed
    <3>3. Alone(o, f)
      BY <1>1, <2>4, <3>1, <3>2 DEF Alone
    <3>4. Lined(o) /\ Lined(f) /\ (Does(o) \/ Does(f))
      BY <1>1, <1>5, <3>1
    <3> HIDE DEF o
    <3>5. InPhase(o, f)'
      BY <2>4, <3>2, <3>3, <3>4, PhaseKept
    <3> QED BY <3>5 DEF o
  <2> QED BY <2>2, <2>3, <2>4 DEF Undisturbed
<1>6. CASE Next
  BY <1>3, <1>4, <1>5, <1>6 DEF Next, Does, End, Cut, Crash
<1> QED BY <1>2, <1>6

LEMMA Delivered ==
  ASSUME TypeInv, NEW f \in End, NEW o, o = Other(f), InPhase(o, f), sess[o].at = "idle", sess[f].at = "idle"
  PROVE  \A e \in End : Range(sess[e].out) \ TooBig \subseteq Present(Other(e))
<1>1. o \in End /\ f = Other(o) /\ o # f /\ \A e \in End : e = o \/ e = f
  BY Ends DEF End
<1>2. Trading(sess[o], sess[f], wire[o], wire[f], Present(o), Present(f))
  BY DEF InPhase, Phase, Opens, Asking, Replying, Hearing, Deciding
<1>3. ASSUME NEW x \in End, NEW y, sess[x].at = "idle", sess[y].at = "idle", Over(sess[y]), Over(sess[x]),
             Carries(wire[x], Left(sess[x]), sess[x].out, Len(sess[y].inc), Present(y))
      PROVE  Range(sess[x].out) \ TooBig \subseteq Present(y)
  <2>1. Left(sess[x]) = <<>> /\ Len(sess[y].inc) = 0
    BY <1>3, NoLines DEF Left, Over
  <2>2. <<>> \in Seq(Msg)
    BY EmptySeq
  <2> QED BY <1>3, <2>1, <2>2, NothingDue
<1>4. Range(sess[o].out) \ TooBig \subseteq Present(f) /\ Range(sess[f].out) \ TooBig \subseteq Present(o)
  BY <1>1, <1>2, <1>3 DEF Trading
<1> QED BY <1>1, <1>4

(***************************************************************************)
(* A session with a foreign end (run_outgoing, run_incoming) that was not  *)
(* cut, and in which no timeout came too soon, has done its work when both *)
(* ends are through: of what either board proposed, all that is not too    *)
(* big is on the other.  Such a session goes through six phases, and in    *)
(* each of them what is on the wires is what the ends are about to read:   *)
(* as many blocks as are waited for, and after them nothing but goodbyes.  *)
(***************************************************************************)
THEOREM UndisturbedDelivers == Spec => [](foreign \in {{"caller"}, {"called"}} => UnbrokenDelivers)
<1>1. Init => Undisturbed
  BY InitUndisturbed
<1>2. ForwardInv /\ Undisturbed /\ [Next]_vars => Undisturbed'
  BY UndisturbedKept
<1>3. ForwardInv /\ Undisturbed => (foreign \in {{"caller"}, {"called"}} => UnbrokenDelivers)
  <2> SUFFICES ASSUME ForwardInv, Undisturbed, foreign \in {{"caller"}, {"called"}},
                      \A e \in End : sess[e].at = "idle", ~flawed,
                      NEW e \in End, NEW m \in Range(sess[e].out) \ TooBig
               PROVE  store[Other(e)][m] # "absent"
    BY DEF UnbrokenDelivers
  <2>1. PICK f \in foreign : f \in End /\ Other(f) \notin foreign /\ Other(f) \in End
    BY DEF End, Other
  <2>2. InPhase(Other(f), f)
    BY <2>1 DEF Undisturbed
  <2>3. Range(sess[e].out) \ TooBig \subseteq Present(Other(e))
    BY <2>1, <2>2, Delivered DEF ForwardInv
  <2> QED BY <2>3 DEF Present
<1> QED BY <1>1, <1>2, <1>3, Invariance, PTL DEF Spec

=============================================================================
