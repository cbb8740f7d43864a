--------------------------- MODULE ServicesProofs ---------------------------
(***************************************************************************)
(* What holds of every behaviour of Services, for every number of frames,  *)
(* size of file, schedule and length of the clock.  Each part has an       *)
(* inductive invariant of its own, and no other part touches its state.    *)
(***************************************************************************)
EXTENDS Services, ConferenceProofs

(***************************************************************************)
(* The transmitter.  What keeps it released is where the thread that keys  *)
(* may be: while the task runs it awaits that thread, and once close() has *)
(* begun no thread keys but one that was keying before.                    *)
(***************************************************************************)
TxTyped ==
  /\ ptt \in [kind : Controls, open : BOOLEAN, on : BOOLEAN]
  /\ tx \in {"get", "key", "lead", "audio", "tail", "over"} /\ keyed \in BOOLEAN
  /\ keying \in {"none", "begun", "opened", "done", "failed"}
  /\ link \in {"up", "stopping", "closing", "released", "cleanup", "closed"}
  /\ unreleased \in BOOLEAN /\ outrun \in BOOLEAN

\* The task awaits the thread at "key" and nowhere else, and keyed tells
\* whether it has to release.
ThreadAwaited ==
  /\ tx # "over" => /\ link \in {"up", "stopping"}
                    /\ (keying # "none") <=> (tx = "key")
                    /\ keyed <=> (tx \in {"lead", "audio", "tail"})
  /\ tx = "over" => link # "up" /\ (keyed => keying = "none")

\* A thread still keying when close() has begun was keying when it began, and a
\* control that is on before that holds its port or pin.
ThreadOutruns ==
  /\ link \notin {"up", "stopping"} /\ keying \in {"begun", "opened"} => outrun
  /\ link \in {"up", "stopping"} => ~outrun /\ (ptt.on /\ T!Held => ptt.open)

\* Until the thread has keyed, only a release that failed leaves it on.
OnlyThreadKeys == ptt.on /\ keying \in {"begun", "opened", "failed"} /\ link \in {"up", "stopping"} => unreleased

TxInv == TxTyped /\ ThreadAwaited /\ ThreadOutruns /\ OnlyThreadKeys /\ TransmitterReleased

LEMMA TxInitial == ServicesInit => TxInv
  BY DEF ServicesInit, T!Init, TxInv, TxTyped, ThreadAwaited, ThreadOutruns, OnlyThreadKeys,
         TransmitterReleased, T!TransmitterReleased, T!Held, T!Sending

LEMMA TxStep == TxInv /\ [ServicesNext]_servicesVars => TxInv'
<1> SUFFICES ASSUME TxInv, [ServicesNext]_servicesVars PROVE TxInv'
  OBVIOUS
<1> USE DEF TxInv, TxTyped, ThreadAwaited, ThreadOutruns, OnlyThreadKeys,
            TransmitterReleased, T!TransmitterReleased, T!Held, T!Sending
<1>1. CASE UNCHANGED tx_vars
  BY <1>1 DEF tx_vars
<1>2. CASE T!Next
  <2>1. CASE T!SendFrame
    BY <2>1 DEF T!SendFrame
  <2>2. CASE T!Take
    <3>1. TxTyped'
      BY <2>2 DEF T!Take
    <3>2. ThreadAwaited'
      BY <2>2 DEF T!Take
    <3>3. ThreadOutruns'
      BY <2>2 DEF T!Take
    <3>4. OnlyThreadKeys'
      BY <2>2 DEF T!Take
    <3>5. TransmitterReleased'
      BY <2>2 DEF T!Take
    <3> QED BY <3>1, <3>2, <3>3, <3>4, <3>5
  <2>3. CASE T!ThreadOpens
    <3>1. TxTyped'
      <4>1. \A b \in BOOLEAN : [ptt EXCEPT !.open = b] \in [kind : Controls, open : BOOLEAN, on : BOOLEAN]
        BY Zenon
      <4>2. T!Held \in BOOLEAN
        OBVIOUS
      <4>3. ptt' = ptt \/ ptt' = [ptt EXCEPT !.open = T!Held]
        BY <2>3 DEF T!ThreadOpens
      <4>4. ptt' \in [kind : Controls, open : BOOLEAN, on : BOOLEAN]
        BY <4>1, <4>2, <4>3, Zenon
      <4> QED BY <2>3, <4>4 DEF T!ThreadOpens, T!Fails
    <3>2. ThreadAwaited'
      BY <2>3 DEF T!ThreadOpens, T!Fails
    <3>3. ThreadOutruns'
      BY <2>3 DEF T!ThreadOpens, T!Fails
    <3>4. OnlyThreadKeys'
      BY <2>3 DEF T!ThreadOpens, T!Fails
    <3>5. TransmitterReleased'
      BY <2>3 DEF T!ThreadOpens, T!Fails
    <3> QED BY <3>1, <3>2, <3>3, <3>4, <3>5
  <2>4. CASE T!ThreadKeys
    BY <2>4 DEF T!ThreadKeys, T!Fails
  <2>5. CASE T!Keyed
    BY <2>5 DEF T!Keyed
  <2>6. CASE T!Plays
    BY <2>6 DEF T!Plays
  <2>7. CASE T!Sent
    BY <2>7 DEF T!Sent, T!Release, T!Fails
  <2>8. CASE T!AudioFails
    BY <2>8 DEF T!AudioFails, T!Release, T!Fails
  <2>9. CASE T!Stop
    BY <2>9 DEF T!Stop
  <2>10. CASE T!Cancelled
    BY <2>10 DEF T!Cancelled, T!Release, T!Fails
  <2>11. CASE T!Close
    <3>1. TxTyped'
      <4>1. [ptt EXCEPT !.open = FALSE] \in [kind : Controls, open : BOOLEAN, on : BOOLEAN]
        BY Zenon
      <4> QED BY <2>11, <4>1 DEF T!Close
    <3>2. ThreadAwaited'
      BY <2>11 DEF T!Close
    <3>3. ThreadOutruns'
      BY <2>11 DEF T!Close
    <3>4. OnlyThreadKeys'
      BY <2>11 DEF T!Close
    <3>5. TransmitterReleased'
      BY <2>11 DEF T!Close
    <3> QED BY <3>1, <3>2, <3>3, <3>4, <3>5
  <2>12. CASE T!Closes
    BY <2>12 DEF T!Closes, T!Release, T!Fails
  <2>13. CASE T!LetGo
    BY <2>13 DEF T!LetGo
  <2>14. CASE T!CleansUp
    BY <2>14 DEF T!CleansUp
  <2> QED BY <1>2, <2>1, <2>2, <2>3, <2>4, <2>5, <2>6, <2>7, <2>8, <2>9, <2>10, <2>11, <2>12,
             <2>13, <2>14 DEF T!Next
<1> QED
  BY <1>1, <1>2 DEF ServicesNext, ConferenceStep, StreamsStep, YappStep, TransmitterStep,
                    ScheduleStep, servicesVars, tx_vars

\* The transmitter is released whenever no frame is sent, unless a release
\* failed or a thread outran the link (afsk.py, _tx_loop, _run and close).
THEOREM Released == ServicesSpec => []TransmitterReleased
<1>1. TxInv => TransmitterReleased
  BY DEF TxInv
<1> QED BY <1>1, TxInitial, TxStep, PTL DEF ServicesSpec

(***************************************************************************)
(* The file transfer.                                                      *)
(***************************************************************************)
TextLine == Y!Line("text")
AllText(q) == \A k \in 1 .. Len(q) : q[k].kind = "text"
Answered(a, q) == q # <<>> /\ q[1].kind = a /\ \A k \in 2 .. Len(q) : q[k].kind = "text"
Has(a, q) == \E k \in 1 .. Len(q) : q[k].kind = a

ToReceiver == Y!Things({"greeting", "announcement", "lf", "data", "eof", "rest", "text"})
ToSender == Y!Things({"greeting", "lf", "ok", "ack", "can", "text"})
YappTyped ==
  /\ size \in Nat /\ index \in 0 .. size + 1 /\ counted \in Nat
  /\ sender \in {"ok", "ack", "done", "failed"}
  /\ receiver \in {"announcement", "frame", "more", "done", "failed"}
  /\ board \in {"sender", "receiver"}
  /\ trouble \subseteq Y!Troubles
  /\ forth \in Seq(ToReceiver) /\ back \in Seq(ToSender)
  /\ data \in Seq(Nat)

\* The frames on the way to the receiver follow those it has, unless the line
\* end of the command comes first; only texts come after them.
IsFrame(f) == f.kind \in {"data", "eof"}
Placed(f, i) == f.block = i /\ f.kind = IF i <= size THEN "data" ELSE "eof"
Queued ==
  /\ \A k \in 1 .. Len(forth) : IsFrame(forth[k]) => Placed(forth[k], Len(data) + k)
  /\ sender \in {"ok", "ack"} => /\ Len(data) + Len(forth) = index
                                 /\ \A k \in 1 .. Len(forth) : IsFrame(forth[k])
StrayFirst == forth # <<>> /\ forth[1].kind = "lf" /\ "stray" \in trouble

\* Before the announcement is heard no frame is sent.
Announced ==
  /\ data = <<>> /\ index = 0 /\ sender \in {"ok", "failed"}
  /\ \A k \in 1 .. Len(forth) : forth[k].kind \in {"greeting", "announcement", "text"}
  /\ sender = "ok" => \A k \in 1 .. Len(forth) : forth[k].kind = "announcement" => k = Len(forth)
  /\ \A k \in 1 .. Len(back) : back[k].kind = "lf"

\* The blocks received are the first of the file, and all of them are stored
\* unless one was read as the last.
BlocksInOrder ==
  /\ Len(data) <= size /\ \A k \in 1 .. Len(data) : data[k] = k
  /\ stored = IF receiver = "done" THEN data ELSE Y!NoFile
  /\ receiver = "done" => "end" \in trouble \/ Len(data) = size
  /\ receiver = "frame" => StrayFirst \/ Queued
  /\ receiver = "announcement" => Announced
  /\ sender = "ok" => index = 0

\* Where the two halves may stand while no acknowledgement was mistaken.
WaitsForOk ==
  /\ receiver \in {"announcement", "frame", "failed"}
  /\ receiver = "announcement" => back = <<>>
  /\ receiver = "frame" => \A k \in 1 .. Len(back) : back[k].kind # "text"
  /\ \A k \in 1 .. Len(back) : back[k].kind \in {"greeting", "ok", "text"}
  /\ \A j, k \in 1 .. Len(back) : j < k /\ back[j].kind # "greeting" => back[k].kind = "text"
  /\ board = "sender" => \A k \in 1 .. Len(back) : back[k].kind # "greeting"
WaitsForAck ==
  \/ receiver = "frame" /\ back = <<>> /\ Len(data) + 1 = index
  \/ receiver = "frame" /\ Len(back) = 1 /\ back[1].kind = "ack" /\ index <= size /\ Len(data) = index
  \/ receiver = "more" /\ back = <<>> /\ forth = <<>>
  \/ receiver \in {"done", "failed"} /\ AllText(back)
  \/ receiver = "failed" /\ Answered("can", back)
  \/ receiver = "failed" /\ Answered("ack", back) /\ index <= size
  \/ receiver = "done" /\ Answered("ack", back) /\ (index <= size \/ Len(data) = size)
InStep ==
  /\ counted > 0 => sender = "done"
  /\ sender = "ok" => WaitsForOk
  /\ sender = "ack" => WaitsForAck
  /\ sender = "done" => receiver = "done" /\ Len(data) = size

\* And while nothing else disturbs the transfer.
Tidy ==
  /\ sender = "ok" => \/ receiver = "announcement" /\ Has("announcement", forth)
                      \/ receiver = "frame" /\ Has("ok", back)
  /\ sender = "ack" => \/ receiver = "frame"
                       \/ receiver = "failed" /\ Answered("can", back)
                       \/ receiver = "done" /\ Answered("ack", back) /\ index = size + 1 /\ Len(data) = size
  /\ sender = "failed" => receiver = "failed" /\ AllText(back)
  /\ sender = "done" => AllText(back)
  /\ receiver \in {"done", "failed"} /\ board = "receiver" =>
       \A k \in 1 .. Len(forth) : forth[k].kind = "text" \/ "cut" \in trouble

Mistaken == trouble \cap Y!Mistakes # {}
YappInv ==
  /\ YappTyped
  /\ "unseen" \notin trouble => BlocksInOrder
  /\ ~Mistaken => InStep
  /\ Y!Undisturbed => Tidy

LEMMA LinesTyped ==
  /\ TextLine.kind = "text" /\ TextLine \in ToReceiver /\ TextLine \in ToSender
  /\ Y!Rest \in ToReceiver /\ Y!Rest.kind = "rest"
  /\ \A l \in {"greeting", "announcement", "lf"} : Y!Line(l) \in ToReceiver
  /\ \A l \in {"greeting", "lf", "ok", "ack", "can"} : Y!Line(l) \in ToSender
BY DEF TextLine, Y!Line, Y!Rest, ToReceiver, ToSender, Y!Things

LEMMA FrameTyped ==
  ASSUME size \in Nat, NEW i \in Nat
  PROVE  Y!Frame(i) \in ToReceiver /\ IsFrame(Y!Frame(i)) /\ Placed(Y!Frame(i), i)
BY DEF Y!Frame, ToReceiver, Y!Things, IsFrame, Placed

LEMMA MoodsImply ==
  /\ Y!Undisturbed => ~Mistaken
  /\ ~Mistaken => "unseen" \notin trouble
  /\ "stray" \in trouble => Mistaken
BY DEF Y!Undisturbed, Mistaken, Y!Mistakes

\* The head of a queue is taken off it.
LEMMA Takes ==
  ASSUME NEW Vals, NEW q \in Seq(Vals), q # <<>>
  PROVE  /\ Head(q) \in Vals /\ Head(q) = q[1] /\ Tail(q) \in Seq(Vals)
         /\ Len(q) \in Nat \ {0} /\ Len(Tail(q)) = Len(q) - 1
         /\ \A k \in 1 .. Len(Tail(q)) : Tail(q)[k] = q[k + 1]
OBVIOUS

LEMMA Puts ==
  ASSUME NEW Vals, NEW q \in Seq(Vals), NEW x \in Vals
  PROVE  /\ Append(q, x) \in Seq(Vals) /\ Len(q) \in Nat /\ Len(Append(q, x)) = Len(q) + 1
         /\ \A k \in 1 .. Len(q) : Append(q, x)[k] = q[k]
         /\ Append(q, x)[Len(q) + 1] = x
OBVIOUS

\* What is told comes after what is on the way.
Longer(q, r, Vals) ==
  /\ r \in Seq(Vals) /\ Len(r) \in Nat /\ Len(q) \in Nat /\ Len(q) <= Len(r)
  /\ \A k \in 1 .. Len(q) : r[k] = q[k]
  /\ \A k \in 1 .. Len(r) : k > Len(q) => r[k].kind = "text"
LEMMA Tells ==
  ASSUME NEW Vals, NEW q \in Seq(Vals), TextLine \in Vals, NEW half
  PROVE  Longer(q, Y!Told(half, q), Vals) /\ Longer(q, Append(q, TextLine), Vals)
<1>1. Longer(q, q, Vals)
  BY DEF Longer
<1>2. Longer(q, Append(q, TextLine), Vals)
  BY Puts, LinesTyped DEF Longer
<1> QED BY <1>1, <1>2, Zenon DEF Y!Told, TextLine

\* After an answer there are only texts, and so there are once it is read.
LEMMA LongerTexts ==
  ASSUME NEW Vals, NEW q, NEW r, Longer(q, r, Vals)
  PROVE  /\ AllText(q) => AllText(r)
         /\ \A a : Answered(a, q) => Answered(a, r)
         /\ \A a : Has(a, q) => Has(a, r)
         /\ q # <<>> => r # <<>> /\ r[1] = q[1]
BY DEF Longer, AllText, Answered, Has

LEMMA YappInitial == ServicesInit => YappInv
<1> SUFFICES ASSUME ServicesInit PROVE YappInv
  OBVIOUS
<1>1. /\ size \in Nat /\ index = 0 /\ data = <<>> /\ stored = Y!NoFile /\ counted = 0 /\ sender = "ok"
      /\ trouble \in {{}, {"stray"}}
      /\ \/ /\ receiver = "announcement" /\ board = "sender"
            /\ forth = <<Y!Line("greeting"), Y!Line("announcement")>>
            /\ back = IF "stray" \in trouble THEN <<Y!Line("lf")>> ELSE <<>>
         \/ /\ receiver = "frame" /\ board = "receiver" /\ back = <<Y!Line("greeting"), Y!Line("ok")>>
            /\ forth = IF "stray" \in trouble THEN <<Y!Line("lf")>> ELSE <<>>
  BY SizesAssumption DEF ServicesInit, Y!Init
<1>2. YappTyped
  <2>1. /\ Y!Line("greeting") \in ToReceiver /\ Y!Line("announcement") \in ToReceiver
        /\ Y!Line("lf") \in ToReceiver /\ Y!Line("lf") \in ToSender
        /\ Y!Line("greeting") \in ToSender /\ Y!Line("ok") \in ToSender
    BY LinesTyped
  <2>2. /\ <<Y!Line("greeting"), Y!Line("announcement")>> \in Seq(ToReceiver)
        /\ <<Y!Line("lf")>> \in Seq(ToReceiver) /\ <<>> \in Seq(ToReceiver)
        /\ <<Y!Line("greeting"), Y!Line("ok")>> \in Seq(ToSender)
        /\ <<Y!Line("lf")>> \in Seq(ToSender) /\ <<>> \in Seq(ToSender)
    BY <2>1
  <2>3. forth \in Seq(ToReceiver) /\ back \in Seq(ToSender)
    BY <1>1, <2>2, Zenon
  <2> QED BY <1>1, <2>3 DEF YappTyped, Y!Troubles
<1>3. BlocksInOrder
  <2>1. receiver = "frame" => StrayFirst \/ Queued
    <3>1. CASE "stray" \in trouble
      BY <1>1, <3>1 DEF StrayFirst, Y!Line
    <3>2. CASE "stray" \notin trouble
      BY <1>1, <3>2 DEF Queued
    <3> QED BY <3>1, <3>2
  <2>2. receiver = "announcement" => Announced
    <3> SUFFICES ASSUME receiver = "announcement" PROVE Announced
      OBVIOUS
    <3>1. forth = <<Y!Line("greeting"), Y!Line("announcement")>>
      BY <1>1
    <3>2. back = <<>> \/ back = <<Y!Line("lf")>>
      BY <1>1
    <3>3. \A k \in 1 .. Len(back) : back[k].kind = "lf"
      BY <3>2 DEF Y!Line
    <3>4. Len(forth) = 2 /\ forth[1].kind = "greeting" /\ forth[2].kind = "announcement"
      BY <3>1 DEF Y!Line
    <3> QED BY <1>1, <3>3, <3>4 DEF Announced
  <2>3. receiver # "done" /\ Len(data) = 0
    BY <1>1
  <2> QED BY <1>1, <2>1, <2>2, <2>3 DEF BlocksInOrder
<1>4. ~Mistaken => InStep
  BY <1>1 DEF InStep, WaitsForOk, Mistaken, Y!Mistakes, Y!Line
<1>5. Y!Undisturbed => Tidy
  BY <1>1 DEF Tidy, Has, Y!Undisturbed, Y!Line
<1> QED BY <1>2, <1>3, <1>4, <1>5 DEF YappInv

\* The first frame, or the next, follows those under way.
LEMMA SendsFrame ==
  ASSUME YappTyped, NEW i \in Nat, i = index + 1,
         forth' = Append(forth, Y!Frame(i)), index' = i, sender' = "ack", UNCHANGED <<size, data>>
  PROVE  /\ forth' \in Seq(ToReceiver) /\ Len(forth') = Len(forth) + 1
         /\ forth # <<>> => forth' # <<>> /\ forth'[1] = forth[1]
         /\ sender \in {"ok", "ack"} /\ Queued => Queued'
<1>1. Y!Frame(i) \in ToReceiver /\ IsFrame(Y!Frame(i)) /\ Placed(Y!Frame(i), i)
  BY FrameTyped DEF YappTyped
<1>2. /\ forth' \in Seq(ToReceiver) /\ Len(forth) \in Nat /\ Len(forth') = Len(forth) + 1
      /\ \A k \in 1 .. Len(forth) : forth'[k] = forth[k]
      /\ forth'[Len(forth) + 1] = Y!Frame(i)
  BY <1>1, Puts DEF YappTyped
<1>3. ASSUME sender \in {"ok", "ack"}, Queued PROVE Queued'
  <2>1. Len(data) \in Nat /\ Len(data) + Len(forth) = index /\ index \in Nat
    BY <1>3 DEF YappTyped, Queued
  <2>2. Len(data) + (Len(forth) + 1) = i
    BY <1>2, <2>1
  <2>3. ASSUME NEW k \in 1 .. Len(forth') PROVE IsFrame(forth'[k]) /\ Placed(forth'[k], Len(data) + k)
    <3>1. CASE k \in 1 .. Len(forth)
      <4>1. IsFrame(forth[k]) /\ Placed(forth[k], Len(data) + k)
        BY <1>3, <3>1 DEF Queued
      <4> QED BY <1>2, <3>1, <4>1
    <3>2. CASE k = Len(forth) + 1
      BY <1>1, <1>2, <2>2, <3>2
    <3> QED BY <1>2, <3>1, <3>2
  <2>4. Len(data') + Len(forth') = index'
    BY <1>2, <2>2
  <2> QED BY <2>3, <2>4 DEF Queued, IsFrame, Placed
<1> QED BY <1>2, <1>3 DEF YappTyped

\* What the board tells when its half is over disturbs nothing.
LEMMA TellsForth ==
  ASSUME YappTyped, Longer(forth, forth', ToReceiver), sender' \notin {"ok", "ack"},
         UNCHANGED <<size, data>>, Queued
  PROVE  Queued'
<1>1. Len(data) \in Nat
  BY DEF YappTyped
<1>2. ASSUME NEW k \in 1 .. Len(forth'), IsFrame(forth'[k]) PROVE Placed(forth'[k], Len(data) + k)
  <2>1. k <= Len(forth)
    BY <1>2 DEF Longer, IsFrame
  <2>2. k \in 1 .. Len(forth) /\ forth'[k] = forth[k]
    BY <2>1 DEF Longer
  <2> QED BY <1>2, <2>2 DEF Queued
<1> QED BY <1>2 DEF Queued, IsFrame, Placed

LEMMA HearOkStep ==
  ASSUME YappInv, Y!HearOk
  PROVE  YappInv'
<1>0. YappTyped
  BY DEF YappInv
<1>1. /\ sender = "ok" /\ back # <<>>
      /\ UNCHANGED <<size, board, receiver, data, stored, counted>>
  BY DEF Y!HearOk
<1>2. /\ Head(back) \in ToSender /\ Head(back) = back[1] /\ Tail(back) \in Seq(ToSender)
      /\ Len(back) \in Nat \ {0} /\ Len(Tail(back)) = Len(back) - 1
      /\ \A k \in 1 .. Len(Tail(back)) : Tail(back)[k] = back[k + 1]
  BY <1>0, <1>1, Takes DEF YappTyped
<1> DEFINE ok == Head(back).kind = "ok" /\ Head(back).good
<1>3. /\ \/ ok /\ trouble' = trouble \cup {"stray"} /\ back' \in Seq(ToSender)
         \/ back' = Tail(back) /\ trouble' = trouble /\ (ok \/ Head(back).good)
         \/ back' = Tail(back) /\ trouble' = trouble \cup {"unheard"} /\ ~ok
      /\ \/ ok /\ sender' = "ack" /\ index' = 1 /\ forth' = Append(forth, Y!Frame(1))
         \/ ~ok /\ board = "sender" /\ sender' = "failed" /\ forth' = Y!Told("sender", forth) /\ index' = index
         \/ ~ok /\ board = "receiver" /\ UNCHANGED <<sender, forth, index>>
  <2>1. PICK beaten \in IF ok /\ board = "sender" THEN BOOLEAN ELSE {FALSE} :
          /\ back' = (IF beaten THEN <<Y!Line("lf")>> ELSE <<>>) \o Tail(back)
          /\ trouble' = trouble \cup (IF beaten THEN {"stray"} ELSE IF Head(back).good THEN {} ELSE {"unheard"})
          /\ \/ ok /\ Y!SendFrame(1)
             \/ /\ ~ok /\ board = "sender" /\ sender' = "failed"
                /\ forth' = Y!Told("sender", forth) /\ index' = index
             \/ ~ok /\ board = "receiver" /\ UNCHANGED <<sender, forth, index>>
    BY Zenon DEF Y!HearOk, Y!Troubled
  <2>2. <<>> \o Tail(back) = Tail(back) /\ <<Y!Line("lf")>> \o Tail(back) \in Seq(ToSender)
    BY <1>2, LinesTyped
  <2>3. beaten \in BOOLEAN /\ (beaten => ok)
    BY <2>1
  <2> HIDE DEF ok
  <2>4. CASE beaten
    BY <2>1, <2>2, <2>3, <2>4 DEF Y!SendFrame
  <2>5. CASE ~beaten
    <3>1. back' = Tail(back)
      BY <2>1, <2>2, <2>5
    <3>2. trouble' = trouble \cup (IF Head(back).good THEN {} ELSE {"unheard"})
      BY <2>1, <2>5
    <3>3. \/ trouble' = trouble /\ (ok \/ Head(back).good)
          \/ trouble' = trouble \cup {"unheard"} /\ ~ok
      BY <3>2 DEF ok
    <3> QED BY <2>1, <3>1, <3>3 DEF Y!SendFrame
  <2> QED BY <2>3, <2>4, <2>5
<1>4. ok => Head(back).kind = "ok"
  OBVIOUS
<1>x. ~ok /\ Head(back).good => Head(back).kind # "ok"
  OBVIOUS
<1> HIDE DEF ok
<1>5. "unseen" \notin trouble' => index = 0 /\ BlocksInOrder
  BY <1>1, <1>3 DEF YappInv, BlocksInOrder
<1>6. forth' \in Seq(ToReceiver) /\ (forth # <<>> => forth' # <<>> /\ forth'[1] = forth[1])
  <2>1. Y!Frame(1) \in ToReceiver
    BY <1>0, FrameTyped DEF YappTyped
  <2>2. Append(forth, Y!Frame(1)) \in Seq(ToReceiver)
        /\ (forth # <<>> => Append(forth, Y!Frame(1)) # <<>> /\ Append(forth, Y!Frame(1))[1] = forth[1])
    BY <1>0, <2>1 DEF YappTyped
  <2>3. Longer(forth, Y!Told("sender", forth), ToReceiver)
    BY <1>0, Tells, LinesTyped DEF YappTyped
  <2>4. Y!Told("sender", forth) \in Seq(ToReceiver)
        /\ (forth # <<>> => Y!Told("sender", forth) # <<>> /\ Y!Told("sender", forth)[1] = forth[1])
    BY <2>3, LongerTexts DEF Longer
  <2> QED BY <1>0, <1>3, <2>2, <2>4 DEF YappTyped
<1>7. YappTyped'
  <2>1. index' \in 0 .. size + 1 /\ sender' \in {"ok", "ack", "failed"}
    BY <1>0, <1>1, <1>3 DEF YappTyped
  <2>2. trouble' \subseteq Y!Troubles
    BY <1>0, <1>3 DEF YappTyped, Y!Troubles
  <2> QED BY <1>0, <1>1, <1>2, <1>3, <1>6, <2>1, <2>2 DEF YappTyped
<1>8. ASSUME "unseen" \notin trouble' PROVE BlocksInOrder'
  <2>0. index = 0 /\ BlocksInOrder
    BY <1>5, <1>8
  <2>1. receiver = "frame" => StrayFirst' \/ Queued'
    <3>1. CASE receiver = "frame" /\ StrayFirst
      BY <1>3, <1>6, <3>1 DEF StrayFirst
    <3>2. CASE receiver = "frame" /\ Queued
      <4>1. CASE ok
        <5>1. sender' = "ack" /\ index' = 1 /\ forth' = Append(forth, Y!Frame(1))
          BY <1>3, <4>1
        <5> QED BY <1>0, <1>1, <2>0, <3>2, <5>1, SendsFrame
      <4>2. CASE ~ok /\ board = "sender"
        <5>1. sender' = "failed" /\ forth' = Y!Told("sender", forth)
          BY <1>0, <1>3, <4>2 DEF YappTyped
        <5>2. Longer(forth, forth', ToReceiver)
          BY <1>0, <5>1, Tells, LinesTyped DEF YappTyped
        <5> QED BY <1>0, <1>1, <3>2, <5>1, <5>2, TellsForth
      <4>3. CASE ~ok /\ board # "sender"
        BY <1>1, <1>3, <3>2, <4>3 DEF Queued, IsFrame, Placed
      <4> QED BY <4>1, <4>2, <4>3
    <3> QED BY <2>0, <3>1, <3>2 DEF BlocksInOrder
  <2>2. receiver = "announcement" => Announced'
    <3> SUFFICES ASSUME receiver = "announcement" PROVE Announced'
      OBVIOUS
    <3>1. Announced
      BY <2>0 DEF BlocksInOrder
    <3>2. ~ok /\ back' = Tail(back)
      BY <1>2, <1>3, <1>4, <3>1 DEF Announced
    <3>3. \A k \in 1 .. Len(back') : back'[k].kind = "lf"
      BY <1>2, <3>1, <3>2 DEF Announced
    <3>4. CASE board = "sender"
      <4>1. sender' = "failed" /\ forth' = Y!Told("sender", forth) /\ index' = index
        BY <1>0, <1>3, <3>2, <3>4 DEF YappTyped
      <4>2. Longer(forth, forth', ToReceiver)
        BY <1>0, <4>1, Tells, LinesTyped DEF YappTyped
      <4>3. \A k \in 1 .. Len(forth') : forth'[k].kind \in {"greeting", "announcement", "text"}
        BY <3>1, <4>2 DEF Longer, Announced
      <4> QED BY <1>1, <3>1, <3>3, <4>1, <4>3 DEF Announced
    <3>5. CASE board # "sender"
      BY <1>1, <1>3, <3>1, <3>2, <3>3, <3>5 DEF Announced
    <3> QED BY <3>4, <3>5
  <2>3. sender' = "ok" => index' = 0
    BY <1>3, <2>0
  <2>4. receiver = "done" => "end" \in trouble' \/ Len(data) = size
    BY <1>3, <2>0 DEF BlocksInOrder
  <2> QED BY <1>1, <2>0, <2>1, <2>2, <2>3, <2>4 DEF BlocksInOrder, Y!NoFile
<1>9. ASSUME ~Mistaken' PROVE InStep' /\ (sender' = "ack" => AllText(back'))
  <2>1. back' = Tail(back) /\ ~Mistaken /\ "unseen" \notin trouble /\ "stray" \notin trouble'
    BY <1>3, <1>9 DEF Mistaken, Y!Mistakes
  <2>2. InStep /\ BlocksInOrder /\ WaitsForOk /\ counted = 0
    BY <1>0, <1>1, <2>1 DEF YappInv, InStep, YappTyped
  <2>3. ASSUME sender' = "ack" PROVE AllText(back')
    <3>1. Head(back).kind = "ok" /\ back[1].kind = "ok"
      BY <1>1, <1>2, <1>3, <1>4, <2>3
    <3>2. ASSUME NEW k \in 1 .. Len(back') PROVE back'[k].kind = "text"
      <4>1. k + 1 \in 1 .. Len(back) /\ 1 \in 1 .. Len(back) /\ 1 < k + 1 /\ back'[k] = back[k + 1]
        BY <1>2, <2>1
      <4> QED BY <2>2, <3>1, <4>1 DEF WaitsForOk
    <3> QED BY <3>2 DEF AllText
  <2>4. sender' = "ok" => WaitsForOk'
    <3> SUFFICES ASSUME sender' = "ok" PROVE WaitsForOk'
      OBVIOUS
    <3>1. \A k \in 1 .. Len(back') : k + 1 \in 1 .. Len(back) /\ back'[k] = back[k + 1]
      BY <1>2, <2>1
    <3>2. receiver # "announcement"
      BY <1>1, <2>2 DEF WaitsForOk
    <3>3. /\ \A k \in 1 .. Len(back') : back'[k].kind \in {"greeting", "ok", "text"}
          /\ receiver = "frame" => \A k \in 1 .. Len(back') : back'[k].kind # "text"
          /\ board = "sender" => \A k \in 1 .. Len(back') : back'[k].kind # "greeting"
      BY <2>2, <3>1 DEF WaitsForOk
    <3>4. \A j, k \in 1 .. Len(back') : j < k /\ back'[j].kind # "greeting" => back'[k].kind = "text"
      BY <1>2, <2>1, <2>2, <3>1 DEF WaitsForOk
    <3> QED BY <1>1, <2>2, <3>2, <3>3, <3>4 DEF WaitsForOk
  <2>5. sender' = "ack" => WaitsForAck'
    <3> SUFFICES ASSUME sender' = "ack" PROVE WaitsForAck'
      OBVIOUS
    <3>1. AllText(back')
      BY <2>3
    <3>2. CASE receiver = "announcement"
      BY <1>1, <2>2, <3>2 DEF WaitsForOk
    <3>3. CASE receiver = "frame"
      <4>1. Len(back') = 0
        <5>1. \A k \in 1 .. Len(back') : back'[k].kind # "text"
          BY <1>2, <2>1, <2>2, <3>3 DEF WaitsForOk
        <5>2. Len(back') \in Nat
          BY <1>2, <2>1
        <5> QED BY <3>1, <5>1, <5>2 DEF AllText
      <4>2. back' = <<>>
        BY <1>2, <2>1, <4>1
      <4>3. ~StrayFirst /\ Queued
        BY <1>3, <2>1, <2>2, <3>3 DEF BlocksInOrder, StrayFirst
      <4>4. Len(data) + 1 = index'
        <5>1. Len(data) + Len(forth) = 0
          BY <1>1, <2>2, <4>3 DEF Queued, BlocksInOrder
        <5>2. Len(data) \in Nat /\ Len(forth) \in Nat
          BY <1>0 DEF YappTyped
        <5> QED BY <1>1, <1>3, <5>1, <5>2
      <4> QED BY <1>1, <3>3, <4>2, <4>4 DEF WaitsForAck
    <3>4. CASE receiver = "failed"
      BY <1>1, <3>1, <3>4 DEF WaitsForAck
    <3> QED BY <2>2, <3>2, <3>3, <3>4 DEF WaitsForOk
  <2>6. sender' # "done" /\ counted' = 0
    BY <1>1, <1>3, <2>2
  <2> QED BY <2>3, <2>4, <2>5, <2>6 DEF InStep
<1>10. ASSUME Y!Undisturbed' PROVE Tidy'
  <2>1. ~Mistaken' /\ ~Mistaken /\ back' = Tail(back) /\ trouble' = trouble /\ Y!Undisturbed
        /\ (ok \/ Head(back).good)
    <3>1. "stray" \notin trouble' /\ "unheard" \notin trouble'
      BY <1>10 DEF Y!Undisturbed
    <3>2. back' = Tail(back) /\ trouble' = trouble /\ (ok \/ Head(back).good)
      BY <1>3, <3>1, Zenon
    <3>3. Y!Undisturbed
      BY <1>10, <3>2 DEF Y!Undisturbed
    <3>4. ~Mistaken
      BY <3>3, MoodsImply
    <3> QED BY <3>2, <3>3, <3>4 DEF Mistaken
  <2>2. InStep /\ Tidy /\ BlocksInOrder /\ WaitsForOk
    BY <1>1, <2>1, MoodsImply DEF YappInv, InStep
  <2>3. receiver = "frame" /\ Has("ok", back)
    BY <1>1, <2>2 DEF Tidy, WaitsForOk
  <2>4. CASE ok
    BY <1>1, <1>3, <2>3, <2>4 DEF Tidy
  <2>5. CASE ~ok
    <3>1. Head(back).kind # "ok"
      BY <1>x, <2>1, <2>5
    <3>2. Head(back).kind = "greeting" /\ board = "receiver"
      <4>1. back[1].kind \in {"greeting", "ok", "text"} /\ back[1].kind # "text"
        BY <1>2, <2>2, <2>3 DEF WaitsForOk
      <4>2. back[1].kind = "greeting"
        BY <1>2, <3>1, <4>1
      <4>3. board = "receiver"
        BY <1>0, <1>2, <2>2, <4>2 DEF WaitsForOk, YappTyped
      <4> QED BY <1>2, <4>2, <4>3
    <3>3. Has("ok", back')
      <4>1. PICK k \in 1 .. Len(back) : back[k].kind = "ok"
        BY <2>3 DEF Has
      <4>2. k # 1
        BY <1>2, <3>1, <4>1
      <4>3. k - 1 \in 1 .. Len(back') /\ back'[k - 1] = back[k]
        BY <1>2, <2>1, <4>2
      <4> QED BY <4>1, <4>3 DEF Has
    <3>4. sender' = "ok" /\ forth' = forth
      BY <1>1, <1>3, <2>5, <3>2
    <3> QED BY <1>1, <2>3, <3>3, <3>4 DEF Tidy
  <2> QED BY <2>4, <2>5
<1> QED BY <1>7, <1>8, <1>9, <1>10 DEF YappInv

LEMMA HearAckStep ==
  ASSUME YappInv, Y!HearAck
  PROVE  YappInv'
<1>0. YappTyped
  BY DEF YappInv
<1>1. /\ sender = "ack" /\ back # <<>>
      /\ UNCHANGED <<size, board, receiver, data, stored>>
  BY DEF Y!HearAck
<1>2. /\ Head(back) = back[1] /\ Tail(back) \in Seq(ToSender)
      /\ Len(back) \in Nat \ {0} /\ Len(Tail(back)) = Len(back) - 1
      /\ \A k \in 1 .. Len(Tail(back)) : Tail(back)[k] = back[k + 1]
  BY <1>0, <1>1, Takes DEF YappTyped
<1>3. PICK can \in BOOLEAN, rest \in BOOLEAN :
        /\ rest => Head(back).kind = "text"
        /\ back' = IF rest THEN back ELSE Tail(back)
        /\ trouble' = trouble \cup ((IF can = (Head(back).kind = "can") THEN {} ELSE {"misheard"})
                                     \cup (IF Head(back).kind = "text" THEN {"words"} ELSE {}))
        /\ \/ can /\ sender' = "failed" /\ forth' = Y!Told("sender", forth) /\ UNCHANGED <<index, counted>>
           \/ ~can /\ index < size + 1 /\ Y!SendFrame(index + 1) /\ counted' = counted
           \/ /\ ~can /\ index = size + 1 /\ sender' = "done"
              /\ forth' = Y!Told("sender", forth) /\ Y!Counts /\ index' = index
  BY DEF Y!HearAck, Y!Troubled, Y!LastFrame
<1>4. \/ sender' = "failed" /\ forth' = Y!Told("sender", forth) /\ UNCHANGED <<index, counted>>
      \/ /\ index < size + 1 /\ sender' = "ack" /\ index' = index + 1 /\ counted' = counted
         /\ forth' = Append(forth, Y!Frame(index + 1))
      \/ /\ index = size + 1 /\ sender' = "done" /\ forth' = Y!Told("sender", forth)
         /\ counted' \in {counted, counted + 1} /\ index' = index
  BY <1>3 DEF Y!SendFrame, Y!Counts
<1>5. size \in Nat /\ index \in Nat /\ counted \in Nat /\ Len(data) \in Nat
  BY <1>0 DEF YappTyped
<1>6. ASSUME ~Mistaken'
      PROVE  /\ trouble' = trouble /\ back' = Tail(back) /\ Head(back).kind # "text"
             /\ (sender' = "failed") <=> (Head(back).kind = "can")
  <2>1. "words" \notin trouble' /\ "misheard" \notin trouble'
    BY <1>6 DEF Mistaken, Y!Mistakes
  <2>2. Head(back).kind # "text" /\ (can = (Head(back).kind = "can"))
    BY <1>3, <2>1, Zenon
  <2>3. trouble' = trouble /\ ~rest
    BY <1>3, <2>2
  <2>4. back' = Tail(back)
    BY <1>3, <2>3
  <2>5. (sender' = "failed") <=> can
    BY <1>3 DEF Y!SendFrame
  <2> QED BY <2>2, <2>3, <2>4, <2>5
<1>7. trouble \subseteq trouble' /\ trouble' \subseteq trouble \cup {"misheard", "words"}
  BY <1>3
<1>8. Longer(forth, Y!Told("sender", forth), ToReceiver)
  BY <1>0, Tells, LinesTyped DEF YappTyped
<1>9. forth' \in Seq(ToReceiver) /\ (forth # <<>> => forth' # <<>> /\ forth'[1] = forth[1])
  <2>1. Y!Frame(index + 1) \in ToReceiver
    BY <1>5, FrameTyped
  <2>2. Append(forth, Y!Frame(index + 1)) \in Seq(ToReceiver)
        /\ (forth # <<>> => /\ Append(forth, Y!Frame(index + 1)) # <<>>
                            /\ Append(forth, Y!Frame(index + 1))[1] = forth[1])
    BY <1>0, <2>1 DEF YappTyped
  <2>3. Y!Told("sender", forth) \in Seq(ToReceiver)
        /\ (forth # <<>> => Y!Told("sender", forth) # <<>> /\ Y!Told("sender", forth)[1] = forth[1])
    BY <1>8, LongerTexts DEF Longer
  <2> QED BY <1>4, <2>2, <2>3
<1>10. YappTyped'
  <2>1. index' \in 0 .. size + 1 /\ counted' \in Nat /\ sender' \in {"ok", "ack", "done", "failed"}
    BY <1>0, <1>4, <1>5 DEF YappTyped
  <2>2. back' \in Seq(ToSender)
    BY <1>0, <1>2, <1>3 DEF YappTyped
  <2>3. trouble' \subseteq Y!Troubles
    BY <1>0, <1>7 DEF YappTyped, Y!Troubles
  <2> QED BY <1>0, <1>1, <1>9, <2>1, <2>2, <2>3 DEF YappTyped
<1>11. ASSUME "unseen" \notin trouble' PROVE BlocksInOrder'
  <2>0. BlocksInOrder
    BY <1>7, <1>11 DEF YappInv
  <2>1. receiver = "frame" => StrayFirst' \/ Queued'
    <3>1. CASE receiver = "frame" /\ StrayFirst
      BY <1>7, <1>9, <3>1 DEF StrayFirst
    <3>2. CASE receiver = "frame" /\ Queued
      <4>1. CASE sender' = "ack"
        <5>1. index + 1 \in Nat /\ index' = index + 1 /\ forth' = Append(forth, Y!Frame(index + 1))
          BY <1>4, <1>5, <4>1
        <5>2. PICK i \in Nat : i = index + 1
          BY <5>1
        <5>3. forth' = Append(forth, Y!Frame(i)) /\ index' = i
          BY <5>1, <5>2
        <5> QED BY <1>0, <1>1, <3>2, <4>1, <5>2, <5>3, SendsFrame
      <4>2. CASE sender' # "ack"
        <5>1. sender' \notin {"ok", "ack"} /\ Longer(forth, forth', ToReceiver)
          BY <1>4, <1>8, <4>2
        <5> QED BY <1>0, <1>1, <3>2, <5>1, TellsForth
      <4> QED BY <4>1, <4>2
    <3> QED BY <2>0, <3>1, <3>2 DEF BlocksInOrder
  <2>2. receiver # "announcement"
    BY <1>1, <2>0 DEF BlocksInOrder, Announced
  <2>3. sender' # "ok"
    BY <1>4
  <2>4. receiver = "done" => "end" \in trouble' \/ Len(data) = size
    BY <1>7, <2>0 DEF BlocksInOrder
  <2> QED BY <1>1, <2>0, <2>1, <2>2, <2>3, <2>4 DEF BlocksInOrder, Y!NoFile
<1>12. ASSUME ~Mistaken'
       PROVE  /\ WaitsForAck /\ counted = 0 /\ AllText(back')
              /\ \/ receiver = "frame" /\ back' = <<>> /\ index <= size /\ Len(data) = index /\ sender' # "failed"
                 \/ receiver = "failed" /\ sender' = "failed"
                 \/ receiver = "failed" /\ index <= size /\ sender' # "failed"
                 \/ receiver = "done" /\ sender' # "failed" /\ (index <= size \/ Len(data) = size)
  <2>1. ~Mistaken
    BY <1>6, <1>12 DEF Mistaken
  <2>2. WaitsForAck /\ counted = 0
    BY <1>1, <1>5, <2>1 DEF YappInv, InStep
  <2>3. back[1].kind # "text" /\ back' = Tail(back) /\ (sender' = "failed" <=> back[1].kind = "can")
    BY <1>2, <1>6, <1>12
  <2>4. \A k \in 1 .. Len(back') : k + 1 \in 2 .. Len(back) /\ back'[k] = back[k + 1]
    BY <1>2, <2>3
  <2>5. ~AllText(back)
    BY <1>2, <2>3 DEF AllText
  <2>6. ASSUME NEW a, Answered(a, back) PROVE AllText(back')
    BY <2>4, <2>6 DEF Answered, AllText
  <2>7. Len(back) = 1 => back' = <<>> /\ AllText(back')
    BY <1>2, <2>3 DEF AllText
  <2>8. back # <<>>
    BY <1>1
  <2>9. /\ Answered("can", back) => AllText(back') /\ sender' = "failed"
        /\ Answered("ack", back) => AllText(back') /\ sender' # "failed"
    <3>1. Answered("can", back) => AllText(back')
      BY <2>6
    <3>2. Answered("ack", back) => AllText(back')
      BY <2>6
    <3> QED BY <2>3, <3>1, <3>2 DEF Answered
  <2>10. Len(back) = 1 /\ back[1].kind = "ack" => back' = <<>> /\ AllText(back') /\ sender' # "failed"
    BY <2>3, <2>7
  <2> QED BY <2>2, <2>5, <2>8, <2>9, <2>10, Zenon DEF WaitsForAck
<1>13. ASSUME ~Mistaken' PROVE InStep'
  <2>1. sender' # "ok"
    BY <1>4
  <2>2. sender' = "ack" => WaitsForAck'
    <3> SUFFICES ASSUME sender' = "ack" PROVE WaitsForAck'
      OBVIOUS
    <3>1. index' = index + 1
      BY <1>4
    <3>2. CASE receiver = "frame"
      BY <1>1, <1>5, <1>12, <1>13, <3>1, <3>2 DEF WaitsForAck
    <3>3. CASE receiver \in {"done", "failed"}
      BY <1>1, <1>12, <1>13, <3>3 DEF WaitsForAck
    <3> QED BY <1>12, <1>13, <3>2, <3>3
  <2>3. sender' = "done" => receiver = "done" /\ Len(data) = size
    BY <1>4, <1>5, <1>12, <1>13
  <2>4. counted' > 0 => sender' = "done"
    BY <1>4, <1>12, <1>13
  <2> QED BY <1>1, <2>1, <2>2, <2>3, <2>4 DEF InStep
<1>14. ASSUME Y!Undisturbed' PROVE Tidy'
  <2>1. ~Mistaken' /\ trouble' = trouble /\ Y!Undisturbed /\ Tidy
    <3>1. ~Mistaken'
      BY <1>14 DEF Y!Undisturbed, Mistaken, Y!Mistakes
    <3>2. trouble' = trouble
      BY <1>6, <3>1
    <3> QED BY <1>14, <3>1, <3>2 DEF Y!Undisturbed, YappInv
  <2>2. \/ receiver = "frame" /\ sender' # "failed" /\ index <= size
        \/ receiver = "failed" /\ Answered("can", back)
        \/ receiver = "done" /\ sender' # "failed" /\ index = size + 1
    <3>1. \/ receiver = "frame"
          \/ receiver = "failed" /\ Answered("can", back)
          \/ receiver = "done" /\ Answered("ack", back) /\ index = size + 1
      BY <1>1, <2>1 DEF Tidy
    <3> QED BY <1>12, <2>1, <3>1
  <2>3. CASE receiver = "frame"
    BY <1>1, <1>4, <1>5, <2>2, <2>3 DEF Tidy
  <2>4. CASE receiver # "frame"
    <3>1. sender' \in {"failed", "done"} /\ (sender' = "failed" => receiver = "failed")
      <4>1. CASE receiver = "failed"
        <5>1. Head(back).kind = "can"
          BY <1>2, <2>2, <4>1 DEF Answered
        <5> QED BY <1>6, <2>1, <4>1, <5>1
      <4>2. CASE receiver = "done"
        BY <1>4, <1>5, <2>2, <4>2
      <4> QED BY <2>2, <2>4, <4>1, <4>2
    <3>2. board = "receiver" => forth' = forth
      BY <1>4, <3>1 DEF Y!Told
    <3>3. AllText(back')
      BY <1>12, <2>1
    <3>4. receiver \in {"done", "failed"} /\ board = "receiver" =>
            \A k \in 1 .. Len(forth') : forth'[k].kind = "text" \/ "cut" \in trouble'
      BY <2>1, <3>2 DEF Tidy
    <3> QED BY <1>1, <3>1, <3>3, <3>4, Zenon DEF Tidy
  <2> QED BY <2>3, <2>4
<1> QED BY <1>10, <1>11, <1>13, <1>14 DEF YappInv

LEMMA TimeoutStep ==
  ASSUME YappInv, Y!SenderTimeout \/ Y!ReceiverTimeout
  PROVE  YappInv'
<1>0. YappTyped
  BY DEF YappInv
<1>1. /\ UNCHANGED <<size, board, index, data, stored, counted>>
      /\ trouble' = trouble \cup {"timeout"}
      /\ \/ /\ sender \in {"ok", "ack"} /\ sender' = "failed" /\ UNCHANGED <<receiver, back>>
            /\ forth' = Y!Told("sender", forth)
         \/ /\ receiver \in {"announcement", "frame", "more"} /\ receiver' = "failed"
            /\ UNCHANGED <<sender, forth>> /\ back' = Y!Told("receiver", back)
  BY <1>0 DEF Y!SenderTimeout, Y!ReceiverTimeout, Y!Over, Y!Troubled, YappTyped
<1>2. /\ Longer(forth, Y!Told("sender", forth), ToReceiver)
      /\ Longer(back, Y!Told("receiver", back), ToSender)
  BY <1>0, Tells, LinesTyped DEF YappTyped
<1>3. YappTyped'
  <2>1. forth' \in Seq(ToReceiver) /\ back' \in Seq(ToSender)
    BY <1>0, <1>1, <1>2 DEF YappTyped, Longer
  <2> QED BY <1>0, <1>1, <2>1 DEF YappTyped, Y!Troubles
<1>4. ASSUME "unseen" \notin trouble' PROVE BlocksInOrder'
  <2>0. BlocksInOrder
    BY <1>1, <1>4 DEF YappInv
  <2>1. CASE receiver' = "failed" /\ receiver \in {"announcement", "frame", "more"}
    BY <1>1, <2>0, <2>1 DEF BlocksInOrder, Y!NoFile
  <2>2. CASE receiver' = receiver /\ sender' = "failed" /\ Longer(forth, forth', ToReceiver)
             /\ UNCHANGED back
    <3>1. receiver = "frame" => StrayFirst' \/ Queued'
      <4>1. StrayFirst => StrayFirst'
        BY <1>1, <2>2, LongerTexts DEF StrayFirst
      <4>2. Queued => Queued'
        BY <1>0, <1>1, <2>2, TellsForth
      <4> QED BY <2>0, <4>1, <4>2 DEF BlocksInOrder
    <3>2. receiver = "announcement" => Announced'
      BY <1>1, <2>0, <2>2 DEF BlocksInOrder, Announced, Longer
    <3> QED BY <1>1, <2>0, <2>2, <3>1, <3>2 DEF BlocksInOrder, Y!NoFile
  <2> QED BY <1>0, <1>1, <1>2, <2>1, <2>2 DEF YappTyped
<1>5. ASSUME ~Mistaken' PROVE InStep'
  <2>0. InStep
    BY <1>1, <1>5 DEF YappInv, Mistaken, Y!Mistakes
  <2>1. CASE sender' = "failed" /\ sender \in {"ok", "ack"} /\ receiver' = receiver
    BY <1>1, <2>0, <2>1 DEF InStep
  <2>2. CASE /\ receiver \in {"announcement", "frame", "more"} /\ receiver' = "failed"
             /\ UNCHANGED <<sender, forth>> /\ Longer(back, back', ToSender)
    <3>1. sender = "ok" => WaitsForOk'
      <4> SUFFICES ASSUME sender = "ok" PROVE WaitsForOk'
        OBVIOUS
      <4>1. WaitsForOk
        BY <2>0 DEF InStep
      <4>2. \A k \in 1 .. Len(back') : back'[k].kind \in {"greeting", "ok", "text"}
        BY <2>2, <4>1 DEF WaitsForOk, Longer
      <4>3. \A j, k \in 1 .. Len(back') : j < k /\ back'[j].kind # "greeting" => back'[k].kind = "text"
        BY <2>2, <4>1 DEF WaitsForOk, Longer
      <4>4. board = "sender" => \A k \in 1 .. Len(back') : back'[k].kind # "greeting"
        BY <2>2, <4>1 DEF WaitsForOk, Longer
      <4> QED BY <1>1, <2>2, <4>2, <4>3, <4>4 DEF WaitsForOk
    <3>2. sender = "ack" => WaitsForAck'
      <4> SUFFICES ASSUME sender = "ack" PROVE WaitsForAck'
        OBVIOUS
      <4>1. \/ back = <<>>
            \/ Len(back) = 1 /\ back[1].kind = "ack" /\ index <= size
        BY <2>0, <2>2 DEF InStep, WaitsForAck
      <4>2. back = <<>> => AllText(back')
        <5>1. AllText(<<>>)
          BY DEF AllText
        <5> QED BY <2>2, <5>1, LongerTexts
      <4>3. Len(back) = 1 /\ back[1].kind = "ack" => Answered("ack", back')
        BY <2>2 DEF Longer, Answered
      <4> QED BY <1>1, <2>2, <4>1, <4>2, <4>3 DEF WaitsForAck
    <3>3. sender # "done"
      BY <2>0, <2>2 DEF InStep
    <3> QED BY <1>1, <2>0, <2>2, <3>1, <3>2, <3>3 DEF InStep
  <2> QED BY <1>1, <1>2, <2>1, <2>2
<1>6. ~Y!Undisturbed'
  BY <1>1 DEF Y!Undisturbed
<1> QED BY <1>3, <1>4, <1>5, <1>6 DEF YappInv

LEMMA HearAnnouncementStep ==
  ASSUME YappInv, Y!HearAnnouncement
  PROVE  YappInv'
<1>0. YappTyped
  BY DEF YappInv
<1> DEFINE known == Head(forth).kind = "announcement" /\ Head(forth).good
<1>1. /\ receiver = "announcement" /\ forth # <<>> /\ forth' = Tail(forth)
      /\ UNCHANGED <<size, board, sender, index, data, stored, counted>>
      /\ \/ known /\ receiver' = "frame" /\ back' = Append(back, Y!Line("ok"))
         \/ ~known /\ UNCHANGED <<receiver, back>>
      /\ trouble' = trouble \cup (IF Head(forth).good THEN {} ELSE {"unheard"})
  BY DEF Y!HearAnnouncement, Y!Troubled
<1>2. /\ Head(forth) = forth[1] /\ Tail(forth) \in Seq(ToReceiver)
      /\ Len(forth) \in Nat \ {0} /\ Len(Tail(forth)) = Len(forth) - 1
      /\ \A k \in 1 .. Len(Tail(forth)) : Tail(forth)[k] = forth[k + 1]
  BY <1>0, <1>1, Takes DEF YappTyped
<1>3. trouble \subseteq trouble' /\ trouble' \subseteq trouble \cup {"unheard"}
      /\ ("unheard" \notin trouble' => Head(forth).good)
  BY <1>1
<1>4. /\ Append(back, Y!Line("ok")) \in Seq(ToSender)
      /\ (back = <<>> => Len(Append(back, Y!Line("ok"))) = 1 /\ Append(back, Y!Line("ok"))[1].kind = "ok")
  <2>1. Y!Line("ok") \in ToSender /\ Y!Line("ok").kind = "ok"
    BY LinesTyped DEF Y!Line
  <2> QED BY <1>0, <2>1 DEF YappTyped
<1>5. known => Head(forth).kind = "announcement"
  OBVIOUS
<1>x. Head(forth).kind = "announcement" /\ Head(forth).good => known
  OBVIOUS
<1> HIDE DEF known
<1>6. YappTyped'
  BY <1>0, <1>1, <1>2, <1>3, <1>4 DEF YappTyped, Y!Troubles
<1>7. ASSUME "unseen" \notin trouble' PROVE BlocksInOrder' /\ BlocksInOrder /\ Announced
  <2>0. BlocksInOrder /\ Announced
    BY <1>1, <1>3, <1>7 DEF YappInv, BlocksInOrder
  <2>1. \A k \in 1 .. Len(forth') : k + 1 \in 1 .. Len(forth) /\ forth'[k] = forth[k + 1]
    BY <1>1, <1>2
  <2>2. CASE known
    <3>1. sender = "ok" => Len(forth') = 0
      <4> SUFFICES ASSUME sender = "ok" PROVE Len(forth') = 0
        OBVIOUS
      <4>1. 1 \in 1 .. Len(forth) /\ forth[1].kind = "announcement"
        BY <1>2, <1>5, <2>2
      <4>2. 1 = Len(forth)
        BY <2>0, <4>1 DEF Announced
      <4> QED BY <1>1, <1>2, <4>2
    <3>2. Queued'
      <4>1. \A k \in 1 .. Len(forth') : ~IsFrame(forth'[k])
        BY <2>0, <2>1 DEF Announced, IsFrame
      <4>2. Len(data) = 0 /\ index = 0 /\ sender # "ack"
        BY <2>0 DEF Announced
      <4> QED BY <1>1, <3>1, <4>1, <4>2 DEF Queued, IsFrame
    <3> QED BY <1>1, <2>0, <2>2, <3>2 DEF BlocksInOrder, Y!NoFile
  <2>3. CASE ~known
    <3>1. sender' = "ok" =>
            \A k \in 1 .. Len(forth') : forth'[k].kind = "announcement" => k = Len(forth')
      <4> SUFFICES ASSUME sender' = "ok", NEW k \in 1 .. Len(forth'), forth'[k].kind = "announcement"
                   PROVE  k = Len(forth')
        OBVIOUS
      <4>1. k + 1 \in 1 .. Len(forth) /\ forth[k + 1].kind = "announcement"
        BY <2>1
      <4>2. k + 1 = Len(forth)
        BY <1>1, <2>0, <4>1 DEF Announced
      <4>3. Len(forth') = Len(forth) - 1 /\ Len(forth) \in Nat
        BY <1>1, <1>2
      <4>4. k \in Nat
        BY <4>3
      <4> QED BY <4>2, <4>3, <4>4
    <3>2. \A k \in 1 .. Len(forth') : forth'[k].kind \in {"greeting", "announcement", "text"}
      BY <2>0, <2>1 DEF Announced
    <3>3. Announced'
      BY <1>1, <2>0, <2>3, <3>1, <3>2 DEF Announced
    <3> QED BY <1>1, <2>0, <2>3, <3>3 DEF BlocksInOrder, Y!NoFile
  <2> QED BY <2>0, <2>2, <2>3
<1>8. ASSUME ~Mistaken' PROVE InStep'
  <2>0. InStep /\ BlocksInOrder /\ Announced
    BY <1>3, <1>7, <1>8 DEF YappInv, Mistaken, Y!Mistakes
  <2>1. sender = "ok" => WaitsForOk'
    <3> SUFFICES ASSUME sender = "ok" PROVE WaitsForOk'
      OBVIOUS
    <3>1. WaitsForOk /\ back = <<>>
      BY <1>1, <2>0 DEF InStep, WaitsForOk
    <3>2. CASE known
      <4>1. back' = Append(back, Y!Line("ok")) /\ receiver' = "frame"
        BY <1>1, <3>2
      <4>2. Len(back') = 1 /\ back'[1].kind = "ok"
        BY <1>4, <3>1, <4>1
      <4> QED BY <4>1, <4>2 DEF WaitsForOk
    <3>3. CASE ~known
      BY <1>1, <3>1, <3>3 DEF WaitsForOk
    <3> QED BY <3>2, <3>3
  <2> QED BY <1>1, <2>0, <2>1 DEF InStep, Announced
<1>9. ASSUME Y!Undisturbed' PROVE Tidy'
  <2>0. Head(forth).good /\ Tidy /\ InStep /\ Announced /\ ~Mistaken
    <3>1. Head(forth).good /\ Y!Undisturbed
      BY <1>3, <1>9 DEF Y!Undisturbed
    <3>2. ~Mistaken /\ "unseen" \notin trouble
      BY <3>1, MoodsImply
    <3> QED BY <1>1, <3>1, <3>2 DEF YappInv, BlocksInOrder
  <2>1. sender = "ok"
    BY <1>1, <2>0 DEF Tidy, Announced
  <2>2. CASE known
    <3>1. back = <<>>
      BY <1>1, <2>0, <2>1 DEF InStep, WaitsForOk
    <3>2. back' = Append(back, Y!Line("ok")) /\ receiver' = "frame" /\ sender' = "ok"
      BY <1>1, <2>1, <2>2
    <3>3. Len(back') = 1 /\ back'[1].kind = "ok"
      BY <1>4, <3>1, <3>2
    <3>4. Has("ok", back')
      BY <3>3 DEF Has
    <3> QED BY <3>2, <3>4 DEF Tidy
  <2>3. CASE ~known
    <3>1. Head(forth).kind # "announcement"
      BY <1>x, <2>0, <2>3
    <3>2. PICK k \in 1 .. Len(forth) : forth[k].kind = "announcement"
      BY <1>1, <2>0, <2>1 DEF Tidy, Has
    <3>3. k - 1 \in 1 .. Len(forth') /\ forth'[k - 1] = forth[k]
      BY <1>1, <1>2, <3>1, <3>2
    <3>4. Has("announcement", forth')
      BY <3>2, <3>3 DEF Has
    <3> QED BY <1>1, <2>1, <2>3, <3>4 DEF Tidy
  <2> QED BY <2>2, <2>3
<1> QED BY <1>6, <1>7, <1>8, <1>9 DEF YappInv

LEMMA DamageStep ==
  ASSUME YappInv, Y!Damage
  PROVE  YappInv'
<1>0. YappTyped
  BY DEF YappInv
<1>1. /\ UNCHANGED <<size, board, sender, index, receiver, data, stored, counted, trouble>>
      /\ \/ \E i \in 1 .. Len(forth) : forth' = [forth EXCEPT ![i].good = FALSE] /\ back' = back
         \/ \E i \in 1 .. Len(back) : back' = [back EXCEPT ![i].good = FALSE] /\ forth' = forth
  BY DEF Y!Damage
<1> DEFINE Alike(q, r) == /\ Len(q) \in Nat /\ Len(r) = Len(q)
                          /\ \A k \in 1 .. Len(q) : r[k].kind = q[k].kind /\ r[k].block = q[k].block
<1>2. ASSUME NEW kinds, NEW q \in Seq(Y!Things(kinds)), NEW i \in 1 .. Len(q)
      PROVE  [q EXCEPT ![i].good = FALSE] \in Seq(Y!Things(kinds)) /\ Alike(q, [q EXCEPT ![i].good = FALSE])
  <2>1. [q[i] EXCEPT !.good = FALSE] \in Y!Things(kinds)
    <3>1. q[i] \in Y!Things(kinds)
      OBVIOUS
    <3> QED BY <3>1, Zenon DEF Y!Things
  <2>2. [q[i] EXCEPT !.good = FALSE].kind = q[i].kind /\ [q[i] EXCEPT !.good = FALSE].block = q[i].block
    <3>1. q[i] \in Y!Things(kinds)
      OBVIOUS
    <3>2. q[i] \in [kind : kinds, block : Nat, good : BOOLEAN]
      BY <3>1, Zenon DEF Y!Things
    <3> QED BY <3>2
  <2>3. [q EXCEPT ![i].good = FALSE] = [q EXCEPT ![i] = [q[i] EXCEPT !.good = FALSE]]
    OBVIOUS
  <2>4. PICK x \in Y!Things(kinds) : x = [q[i] EXCEPT !.good = FALSE]
    BY <2>1
  <2>5. [q EXCEPT ![i] = x] \in Seq(Y!Things(kinds)) /\ Len([q EXCEPT ![i] = x]) = Len(q) /\ Len(q) \in Nat
        /\ \A k \in 1 .. Len(q) : [q EXCEPT ![i] = x][k] = IF k = i THEN x ELSE q[k]
    BY <2>4
  <2> QED BY <2>2, <2>3, <2>4, <2>5
<1>3. Alike(forth, forth) /\ Alike(back, back)
  BY <1>0 DEF YappTyped
<1>4. /\ forth' \in Seq(ToReceiver) /\ back' \in Seq(ToSender)
      /\ Alike(forth, forth') /\ Alike(back, back')
  <2>1. ASSUME NEW i \in 1 .. Len(forth), forth' = [forth EXCEPT ![i].good = FALSE]
        PROVE  forth' \in Seq(ToReceiver) /\ Alike(forth, forth')
    BY <1>0, <1>2, <2>1 DEF YappTyped, ToReceiver
  <2>2. ASSUME NEW i \in 1 .. Len(back), back' = [back EXCEPT ![i].good = FALSE]
        PROVE  back' \in Seq(ToSender) /\ Alike(back, back')
    BY <1>0, <1>2, <2>2 DEF YappTyped, ToSender
  <2> QED BY <1>0, <1>1, <1>3, <2>1, <2>2 DEF YappTyped
<1>5. YappTyped'
  BY <1>0, <1>1, <1>4 DEF YappTyped
<1>6. forth # <<>> <=> forth' # <<>>
  <2>1. forth \in Seq(ToReceiver) /\ forth' \in Seq(ToReceiver) /\ Len(forth) = Len(forth')
    BY <1>0, <1>4 DEF YappTyped
  <2> QED BY <2>1
<1>7. back # <<>> <=> back' # <<>>
  <2>1. back \in Seq(ToSender) /\ back' \in Seq(ToSender) /\ Len(back) = Len(back')
    BY <1>0, <1>4 DEF YappTyped
  <2> QED BY <2>1
<1>8. ASSUME BlocksInOrder PROVE BlocksInOrder'
  <2>1. StrayFirst => StrayFirst'
    BY <1>1, <1>4, <1>6 DEF StrayFirst
  <2>2. Queued => Queued'
    BY <1>1, <1>4 DEF Queued, IsFrame, Placed
  <2>3. Announced => Announced'
    BY <1>1, <1>4 DEF Announced
  <2> QED BY <1>1, <1>8, <2>1, <2>2, <2>3 DEF BlocksInOrder, Y!NoFile
<1>9. /\ AllText(back) => AllText(back')
      /\ Answered("can", back) => Answered("can", back')
      /\ Answered("ack", back) => Answered("ack", back')
  BY <1>4, <1>7 DEF AllText, Answered
<1>10. ASSUME InStep PROVE InStep'
  <2>1. WaitsForOk => WaitsForOk'
    BY <1>1, <1>4, <1>7 DEF WaitsForOk
  <2>2. WaitsForAck => WaitsForAck'
    BY <1>1, <1>4, <1>6, <1>7, <1>9 DEF WaitsForAck
  <2> QED BY <1>1, <1>10, <2>1, <2>2 DEF InStep
<1>11. ASSUME Tidy PROVE Tidy'
  <2>1. Has("announcement", forth) => Has("announcement", forth')
    BY <1>4 DEF Has
  <2>2. Has("ok", back) => Has("ok", back')
    BY <1>4 DEF Has
  <2>3. (\A k \in 1 .. Len(forth) : forth[k].kind = "text" \/ "cut" \in trouble)
          => (\A k \in 1 .. Len(forth') : forth'[k].kind = "text" \/ "cut" \in trouble')
    BY <1>1, <1>4
  <2> QED BY <1>1, <1>9, <1>11, <2>1, <2>2, <2>3 DEF Tidy
<1> QED BY <1>1, <1>5, <1>8, <1>10, <1>11 DEF YappInv, Mistaken, Y!Undisturbed

LEMMA TypesStep ==
  ASSUME YappInv, Y!Types
  PROVE  YappInv'
<1>0. YappTyped
  BY DEF YappInv
<1>1. /\ UNCHANGED <<size, board, sender, index, receiver, data, stored, counted, trouble>>
      /\ \/ receiver \in {"done", "failed"} /\ forth' = forth /\ back' = Append(back, TextLine)
         \/ sender \in {"done", "failed"} /\ back' = back /\ forth' = Append(forth, TextLine)
  BY DEF Y!Types, Y!Over, TextLine
<1>2. Longer(forth, Append(forth, TextLine), ToReceiver) /\ Longer(back, Append(back, TextLine), ToSender)
  BY <1>0, Tells, LinesTyped DEF YappTyped
<1>3. YappTyped'
  <2>1. forth' \in Seq(ToReceiver) /\ back' \in Seq(ToSender)
    BY <1>0, <1>1, <1>2 DEF YappTyped, Longer
  <2> QED BY <1>0, <1>1, <2>1 DEF YappTyped
<1>4. CASE receiver \in {"done", "failed"} /\ forth' = forth /\ Longer(back, back', ToSender)
  <2>1. BlocksInOrder => BlocksInOrder'
    BY <1>1, <1>4 DEF BlocksInOrder, Y!NoFile
  <2>2. /\ AllText(back) => AllText(back')
        /\ Answered("can", back) => Answered("can", back')
        /\ Answered("ack", back) => Answered("ack", back')
    BY <1>4, LongerTexts
  <2>3. ASSUME InStep PROVE InStep'
    <3>1. sender = "ok" => WaitsForOk'
      <4> SUFFICES ASSUME sender = "ok" PROVE WaitsForOk'
        OBVIOUS
      <4>1. WaitsForOk
        BY <2>3 DEF InStep
      <4>2. \A k \in 1 .. Len(back') : back'[k].kind \in {"greeting", "ok", "text"}
        BY <1>4, <4>1 DEF WaitsForOk, Longer
      <4>3. \A j, k \in 1 .. Len(back') : j < k /\ back'[j].kind # "greeting" => back'[k].kind = "text"
        BY <1>4, <4>1 DEF WaitsForOk, Longer
      <4>4. board = "sender" => \A k \in 1 .. Len(back') : back'[k].kind # "greeting"
        BY <1>4, <4>1 DEF WaitsForOk, Longer
      <4> QED BY <1>1, <1>4, <4>1, <4>2, <4>3, <4>4 DEF WaitsForOk
    <3>2. sender = "ack" => WaitsForAck'
      BY <1>1, <1>4, <2>2, <2>3 DEF InStep, WaitsForAck
    <3> QED BY <1>1, <2>3, <3>1, <3>2 DEF InStep
  <2>4. ASSUME Tidy PROVE Tidy'
    BY <1>1, <1>4, <2>2, <2>4 DEF Tidy
  <2> QED BY <1>1, <1>3, <2>1, <2>3, <2>4 DEF YappInv, Mistaken, Y!Undisturbed
<1>5. CASE sender \in {"done", "failed"} /\ back' = back /\ Longer(forth, forth', ToReceiver)
  <2>1. ASSUME BlocksInOrder PROVE BlocksInOrder'
    <3>1. StrayFirst => StrayFirst'
      BY <1>1, <1>5, LongerTexts DEF StrayFirst
    <3>2. Queued => Queued'
      BY <1>0, <1>1, <1>5, TellsForth
    <3>3. Announced => Announced'
      BY <1>1, <1>5 DEF Announced, Longer
    <3> QED BY <1>1, <1>5, <2>1, <3>1, <3>2, <3>3 DEF BlocksInOrder, Y!NoFile
  <2>2. InStep => InStep'
    BY <1>1, <1>5 DEF InStep
  <2>3. ASSUME Tidy PROVE Tidy'
    <3>1. (\A k \in 1 .. Len(forth) : forth[k].kind = "text" \/ "cut" \in trouble)
            => (\A k \in 1 .. Len(forth') : forth'[k].kind = "text" \/ "cut" \in trouble')
      BY <1>1, <1>5 DEF Longer
    <3> QED BY <1>1, <1>5, <2>3, <3>1 DEF Tidy
  <2> QED BY <1>1, <1>3, <2>1, <2>2, <2>3 DEF YappInv, Mistaken, Y!Undisturbed
<1> QED BY <1>1, <1>2, <1>4, <1>5

LEMMA HearFrameStep ==
  ASSUME YappInv, Y!HearFrame
  PROVE  YappInv'
<1>0. YappTyped
  BY DEF YappInv
<1> DEFINE f == Head(forth)
           ack == Y!Line("ack")
           can == Y!Line("can")
<1>1. /\ receiver \in {"frame", "more"} /\ forth # <<>>
      /\ UNCHANGED <<size, board, sender, index, counted>>
  BY DEF Y!HearFrame
<1>2. /\ f \in ToReceiver /\ f = forth[1] /\ Tail(forth) \in Seq(ToReceiver)
      /\ Len(forth) \in Nat \ {0} /\ Len(Tail(forth)) = Len(forth) - 1
      /\ \A k \in 1 .. Len(Tail(forth)) : Tail(forth)[k] = forth[k + 1]
  BY <1>0, <1>1, Takes DEF YappTyped
<1>3. PICK r, left :
        /\ r \in Y!Readings(f) /\ left \in Y!Leaves(r, f)
        /\ forth' = (IF left THEN <<Y!Rest>> ELSE <<>>) \o Tail(forth)
        /\ Y!Takes(r, f)
        /\ trouble' = trouble \cup (IF Y!AsSent(r, f) THEN {} ELSE {r})
  BY DEF Y!HearFrame, Y!Troubled
<1>4. /\ Y!AsSent(r, f) => trouble' = trouble /\ left = FALSE
      /\ ~Y!AsSent(r, f) => trouble' = trouble \cup {r} /\ r \in Y!Misreadings
      /\ r \in {"more", "wrong"} => left = FALSE
      /\ left \in BOOLEAN
  <2>1. left \in BOOLEAN /\ (Y!AsSent(r, f) => left = FALSE) /\ (r \in {"more", "wrong"} => left = FALSE)
    BY <1>3 DEF Y!Leaves
  <2>2. ~Y!AsSent(r, f) => r \in Y!Misreadings
    BY <1>1, <1>3 DEF Y!Readings, Y!AsSent, Y!Misreadings
  <2> QED BY <1>3, <2>1, <2>2
<1>5. /\ r = "block" => Y!AsSent(r, f) /\ f.kind = "data"
      /\ r = "end" /\ Y!AsSent(r, f) => f.kind = "eof"
      /\ r \in {"unseen", "cut", "wrong", "more"} => ~Y!AsSent(r, f)
      /\ r = "noise" /\ Y!AsSent(r, f) => ~IsFrame(f)
      /\ r \in {"block", "end"} => receiver = "frame"
  BY <1>1, <1>3 DEF Y!Readings, Y!AsSent, Y!Misreadings, IsFrame
<1>6. \/ /\ r = "block" /\ data' = Append(data, f.block) /\ back' = Append(back, ack)
         /\ receiver' = "frame" /\ stored' = stored
      \/ r = "unseen" /\ data' = Append(data, size + 1) /\ back' = Append(back, ack) /\ receiver' = "frame"
      \/ /\ r = "end" /\ receiver' = "done" /\ stored' = data /\ data' = data
         /\ back' = Y!Told("receiver", Append(back, ack))
      \/ /\ r \in {"cut", "wrong"} /\ receiver' = "failed" /\ UNCHANGED <<data, stored>>
         /\ back' = Y!Told("receiver", back \o <<can>>)
      \/ r = "noise" /\ receiver' = "failed" /\ UNCHANGED <<data, stored>> /\ back' = Y!Told("receiver", back \o <<>>)
      \/ r = "more" /\ receiver' = "more" /\ UNCHANGED <<back, data, stored>>
  BY <1>3 DEF Y!Takes, Y!Receives, Y!Stores, Y!GivesUp, Y!WrongBlock
<1>7. /\ Append(back, ack) \in Seq(ToSender) /\ back \o <<can>> \in Seq(ToSender) /\ back \o <<>> = back
      /\ ack.kind = "ack" /\ can.kind = "can"
      /\ back = <<>> => /\ Len(Append(back, ack)) = 1 /\ Append(back, ack)[1].kind = "ack"
                        /\ Answered("ack", Append(back, ack)) /\ Answered("can", back \o <<can>>)
                        /\ AllText(back)
  <2>1. ack \in ToSender /\ can \in ToSender /\ ack.kind = "ack" /\ can.kind = "can"
    BY LinesTyped DEF Y!Line
  <2> HIDE DEF ack, can
  <2> QED BY <1>0, <2>1 DEF YappTyped, Answered, AllText
<1>8. forth' \in Seq(ToReceiver) /\ (left = FALSE => forth' = Tail(forth))
  <2>1. Y!Rest \in ToReceiver
    BY LinesTyped
  <2>2. <<Y!Rest>> \o Tail(forth) \in Seq(ToReceiver) /\ <<>> \o Tail(forth) = Tail(forth)
    BY <1>2, <2>1
  <2> QED BY <1>2, <1>3, <1>4, <2>2
<1> HIDE DEF ack, can
<1>9. /\ Longer(Append(back, ack), Y!Told("receiver", Append(back, ack)), ToSender)
      /\ Longer(back \o <<can>>, Y!Told("receiver", back \o <<can>>), ToSender)
      /\ Longer(back, Y!Told("receiver", back), ToSender)
  BY <1>0, <1>7, Tells, LinesTyped DEF YappTyped
<1>10. f.block \in Nat /\ size \in Nat /\ index \in Nat /\ data \in Seq(Nat) /\ Len(data) \in Nat
  BY <1>0, <1>2 DEF YappTyped, ToReceiver, Y!Things
<1>11. YappTyped'
  <2>1. Append(data, f.block) \in Seq(Nat) /\ Append(data, size + 1) \in Seq(Nat)
    BY <1>10, Puts
  <2>2. data' \in Seq(Nat) /\ back' \in Seq(ToSender) /\ receiver' \in {"frame", "more", "done", "failed"}
    BY <1>0, <1>6, <1>7, <1>9, <2>1 DEF YappTyped, Longer
  <2>3. trouble' \subseteq Y!Troubles
    BY <1>0, <1>4 DEF YappTyped, Y!Troubles
  <2> QED BY <1>0, <1>1, <1>8, <2>2, <2>3 DEF YappTyped
<1>12. trouble \subseteq trouble'
  BY <1>3
<1>a. ASSUME "unseen" \notin trouble' PROVE r # "unseen" /\ BlocksInOrder
  BY <1>a, <1>4, <1>5, <1>12 DEF YappInv
<1> HIDE DEF f
<1>13. ASSUME receiver = "frame", Queued
       PROVE  /\ IsFrame(f) => f.block = Len(data) + 1 /\ (f.kind = "data" <=> Len(data) + 1 <= size)
              /\ sender \in {"ok", "ack"} => IsFrame(f)
  <2>1. 1 \in 1 .. Len(forth) /\ f = forth[1]
    BY <1>2
  <2> QED BY <1>10, <1>13, <2>1 DEF Queued, IsFrame, Placed
<1>14. ASSUME "unseen" \notin trouble' PROVE BlocksInOrder'
  <2>0. BlocksInOrder /\ r # "unseen" /\ receiver # "done" /\ receiver # "announcement"
    BY <1>1, <1>a, <1>14
  <2>1. CASE r = "block"
    <3>1. Queued /\ f.block = Len(data) + 1 /\ Len(data) + 1 <= size
      BY <1>2, <1>5, <1>13, <2>0, <2>1 DEF BlocksInOrder, StrayFirst, IsFrame
    <3>2. /\ data' = Append(data, f.block) /\ receiver' = "frame" /\ stored' = stored /\ forth' = Tail(forth)
      BY <1>4, <1>5, <1>6, <1>8, <2>1
    <3>3. /\ Len(data') = Len(data) + 1 /\ data'[Len(data) + 1] = f.block
          /\ \A k \in 1 .. Len(data) : data'[k] = data[k]
      BY <1>10, <3>2, Puts
    <3>4. \A k \in 1 .. Len(data') : data'[k] = k
      BY <1>10, <2>0, <3>1, <3>3 DEF BlocksInOrder
    <3>5. Queued'
      <4>1. ASSUME NEW k \in 1 .. Len(forth')
            PROVE  /\ IsFrame(forth'[k]) => Placed(forth'[k], Len(data') + k)
                   /\ sender \in {"ok", "ack"} => IsFrame(forth'[k])
        <5>1. k + 1 \in 1 .. Len(forth) /\ forth'[k] = forth[k + 1]
          BY <1>2, <3>2
        <5>2. Len(data) + (k + 1) = Len(data') + k
          <6>1. k \in Nat
            BY <1>2, <3>2
          <6> QED BY <1>10, <3>3, <6>1
        <5> QED BY <3>1, <5>1, <5>2 DEF Queued
      <4>2. sender \in {"ok", "ack"} => Len(data') + Len(forth') = index
        <5>1. sender \in {"ok", "ack"} => Len(data) + Len(forth) = index
          BY <3>1 DEF Queued
        <5>2. Len(forth') = Len(forth) - 1 /\ Len(forth) \in Nat
          BY <1>2, <3>2
        <5> QED BY <1>10, <3>3, <5>1, <5>2
      <4> QED BY <1>1, <4>1, <4>2 DEF Queued, IsFrame, Placed
    <3>6. Len(data') <= size
      BY <3>1, <3>3
    <3> QED BY <1>1, <2>0, <3>2, <3>4, <3>5, <3>6 DEF BlocksInOrder, Y!NoFile
  <2>2. CASE r = "end"
    <3>1. "end" \in trouble' \/ Len(data) = size
      <4>1. CASE ~Y!AsSent(r, f)
        BY <1>4, <2>2, <4>1
      <4>2. CASE Y!AsSent(r, f)
        <5>1. f.kind = "eof" /\ receiver = "frame"
          BY <1>5, <2>2, <4>2
        <5>2. Queued
          BY <1>2, <2>0, <5>1 DEF BlocksInOrder, StrayFirst
        <5>3. ~(Len(data) + 1 <= size)
          BY <1>13, <5>1, <5>2 DEF IsFrame
        <5> QED BY <1>10, <2>0, <5>3 DEF BlocksInOrder
      <4> QED BY <4>1, <4>2
    <3> QED BY <1>1, <1>6, <2>0, <2>2, <3>1 DEF BlocksInOrder, Y!NoFile
  <2>3. CASE r \notin {"block", "end"}
    BY <1>1, <1>6, <2>0, <2>3 DEF BlocksInOrder, Y!NoFile
  <2> QED BY <2>1, <2>2, <2>3
<1>15. ASSUME ~Mistaken'
       PROVE  /\ InStep /\ BlocksInOrder /\ sender \notin {"ok", "done"}
              /\ sender = "ack" => /\ receiver = "frame" /\ back = <<>> /\ Len(data) + 1 = index
                                   /\ Tail(forth) = <<>> /\ IsFrame(f)
                                   /\ (f.kind = "data" <=> index <= size)
  <2>1. ~Mistaken /\ "unseen" \notin trouble' /\ "stray" \notin trouble
    BY <1>12, <1>15 DEF Mistaken, Y!Mistakes
  <2>2. InStep /\ BlocksInOrder
    BY <1>a, <2>1 DEF YappInv
  <2>3. receiver = "frame" => Queued
    BY <2>1, <2>2 DEF BlocksInOrder, StrayFirst
  <2>4. sender # "done"
    BY <1>1, <2>2 DEF InStep
  <2>5. sender # "ok"
    <3> SUFFICES ASSUME sender = "ok" PROVE FALSE
      OBVIOUS
    <3>1. receiver = "frame" /\ index = 0
      BY <1>1, <2>2 DEF InStep, WaitsForOk, BlocksInOrder
    <3>2. Len(data) + Len(forth) = 0
      BY <2>3, <3>1 DEF Queued
    <3> QED BY <1>2, <1>10, <3>2
  <2>6. ASSUME sender = "ack"
        PROVE  /\ receiver = "frame" /\ back = <<>> /\ Len(data) + 1 = index
               /\ Tail(forth) = <<>> /\ IsFrame(f) /\ (f.kind = "data" <=> index <= size)
    <3>1. receiver = "frame" /\ ((back = <<>> /\ Len(data) + 1 = index) \/ Len(data) = index)
      BY <1>1, <2>2, <2>6 DEF InStep, WaitsForAck
    <3>2. Len(data) + Len(forth) = index
      BY <2>3, <2>6, <3>1 DEF Queued
    <3>3. Len(data) + 1 = index /\ Len(forth) = 1 /\ back = <<>>
      BY <1>2, <1>10, <3>1, <3>2
    <3>4. Len(Tail(forth)) = 0
      BY <1>2, <3>3
    <3>5. Tail(forth) = <<>>
      <4>1. \A q \in Seq(ToReceiver) : Len(q) = 0 => q = <<>>
        OBVIOUS
      <4> QED BY <1>2, <3>4, <4>1, Zenon
    <3>6. IsFrame(f) /\ (f.kind = "data" <=> Len(data) + 1 <= size)
      BY <1>13, <2>3, <2>6, <3>1
    <3> QED BY <3>1, <3>3, <3>5, <3>6
  <2> QED BY <2>2, <2>4, <2>5, <2>6
<1>16. ASSUME ~Mistaken', sender = "ack"
       PROVE  \/ /\ r = "block" /\ receiver' = "frame" /\ Len(back') = 1 /\ back'[1].kind = "ack"
                 /\ index <= size /\ Len(data') = index
              \/ /\ r = "end" /\ receiver' = "done" /\ Answered("ack", back') /\ data' = data
                 /\ f.kind = "eof" => Len(data) = size /\ index = size + 1
                 /\ f.kind # "eof" => index <= size
              \/ r \in {"cut", "wrong"} /\ receiver' = "failed" /\ Answered("can", back')
              \/ r = "noise" /\ receiver' = "failed" /\ AllText(back')
              \/ r = "more" /\ receiver' = "more" /\ back' = <<>> /\ forth' = <<>>
  <2>0. /\ InStep /\ BlocksInOrder /\ r # "unseen" /\ receiver = "frame" /\ back = <<>> /\ Len(data) + 1 = index
        /\ Tail(forth) = <<>> /\ IsFrame(f) /\ (f.kind = "data" <=> index <= size)
    <3>1. "unseen" \notin trouble'
      BY <1>16 DEF Mistaken, Y!Mistakes
    <3> QED BY <1>15, <1>16, <1>a, <3>1
  <2>1. CASE r = "block"
    <3>1. back' = Append(back, ack) /\ data' = Append(data, f.block) /\ receiver' = "frame"
      BY <1>6, <2>1
    <3>2. Len(data') = Len(data) + 1
      BY <1>10, <3>1, Puts
    <3>3. Len(back') = 1 /\ back'[1].kind = "ack"
      BY <1>7, <2>0, <3>1
    <3>4. index <= size
      BY <1>5, <2>0, <2>1
    <3> QED BY <2>0, <2>1, <3>1, <3>2, <3>3, <3>4
  <2>2. CASE r = "end"
    <3>1. receiver' = "done" /\ data' = data /\ back' = Y!Told("receiver", Append(back, ack))
      BY <1>6, <2>2
    <3>2. Answered("ack", back')
      BY <1>7, <1>9, <2>0, <3>1, LongerTexts
    <3>3. f.kind = "eof" => Len(data) = size /\ index = size + 1
      <4>1. f.kind = "eof" => ~(index <= size)
        BY <2>0
      <4>2. Len(data) <= size
        BY <2>0 DEF BlocksInOrder
      <4> QED BY <1>10, <2>0, <4>1, <4>2
    <3> QED BY <2>0, <2>2, <3>1, <3>2, <3>3 DEF IsFrame
  <2>3. CASE r \in {"cut", "wrong"}
    <3>1. receiver' = "failed" /\ back' = Y!Told("receiver", back \o <<can>>)
      BY <1>6, <2>3
    <3>2. Answered("can", back')
      BY <1>7, <1>9, <2>0, <3>1, LongerTexts
    <3> QED BY <2>3, <3>1, <3>2
  <2>4. CASE r = "noise"
    <3>1. receiver' = "failed" /\ back' = Y!Told("receiver", back)
      BY <1>6, <1>7, <2>4
    <3>2. AllText(back')
      BY <1>7, <1>9, <2>0, <3>1, LongerTexts
    <3> QED BY <2>4, <3>1, <3>2
  <2>5. CASE r = "more"
    BY <1>4, <1>6, <1>8, <2>0, <2>5
  <2> QED BY <1>6, <2>0, <2>1, <2>2, <2>3, <2>4, <2>5
<1>17. ASSUME ~Mistaken' PROVE InStep'
  <2>1. InStep /\ sender \notin {"ok", "done"}
    BY <1>15, <1>17
  <2>2. sender = "ack" => WaitsForAck'
    BY <1>1, <1>16, <1>17, Zenon DEF WaitsForAck, IsFrame
  <2> QED BY <1>1, <2>1, <2>2 DEF InStep
<1>18. ASSUME Y!Undisturbed' PROVE Tidy'
  <2>1. ~Mistaken' /\ Y!Undisturbed /\ ~("more" \in trouble' \/ "noise" \in trouble' \/ "end" \in trouble')
    BY <1>12, <1>18 DEF Mistaken, Y!Mistakes, Y!Undisturbed
  <2>2. sender = "ack"
    <3>1. Tidy /\ sender \notin {"ok", "done"}
      BY <1>15, <2>1 DEF YappInv
    <3> QED BY <1>0, <1>1, <3>1 DEF Tidy, YappTyped
  <2>3. IsFrame(f) /\ Tail(forth) = <<>>
    BY <1>15, <2>1, <2>2
  <2>4. \/ receiver' = "frame"
        \/ /\ receiver' = "done" /\ Answered("ack", back') /\ Len(data') = size /\ index = size + 1
           /\ forth' = <<>>
        \/ receiver' = "failed" /\ Answered("can", back') /\ (forth' = <<>> \/ "cut" \in trouble')
    <3>1. CASE r = "end"
      <4>1. Y!AsSent(r, f)
        BY <1>4, <2>1, <3>1
      <4>2. f.kind = "eof" /\ forth' = <<>>
        BY <1>4, <1>5, <1>8, <2>3, <3>1, <4>1
      <4> QED BY <1>16, <2>1, <2>2, <3>1, <4>2
    <3>2. CASE r \in {"cut", "wrong"}
      <4>1. forth' = <<>> \/ "cut" \in trouble'
        BY <1>4, <1>5, <1>8, <2>3, <3>2
      <4> QED BY <1>16, <2>1, <2>2, <3>2, <4>1
    <3>3. r # "noise" /\ r # "more"
      BY <1>4, <1>5, <2>1, <2>3
    <3> QED BY <1>16, <2>1, <2>2, <3>1, <3>2, <3>3
  <2> QED BY <1>1, <2>2, <2>4 DEF Tidy
<1> QED BY <1>11, <1>14, <1>17, <1>18 DEF YappInv

LEMMA YappMoves == YappInv /\ [ServicesNext]_servicesVars => YappInv'
<1> SUFFICES ASSUME YappInv, [ServicesNext]_servicesVars PROVE YappInv'
  OBVIOUS
<1>1. CASE UNCHANGED yapp_vars
  BY <1>1 DEF yapp_vars, YappInv, YappTyped, BlocksInOrder, StrayFirst, Queued, IsFrame, Placed, Announced,
              InStep, WaitsForOk, WaitsForAck, Answered, AllText, Tidy, Has, Mistaken, Y!Undisturbed, Y!NoFile
<1>2. CASE Y!Next
  BY <1>2, HearOkStep, HearAckStep, HearAnnouncementStep, HearFrameStep, DamageStep, TypesStep, TimeoutStep
  DEF Y!Next
<1> QED
  BY <1>1, <1>2 DEF ServicesNext, ConferenceStep, StreamsStep, YappStep, TransmitterStep,
                    ScheduleStep, servicesVars, yapp_vars

LEMMA YappImplies == YappInv => StoredWholeAndAgreed /\ TransferMoves
<1> SUFFICES ASSUME YappInv PROVE StoredWholeAndAgreed /\ TransferMoves
  OBVIOUS
<1>1. YappTyped /\ size \in Nat /\ Len(data) \in Nat /\ Len(forth) \in Nat /\ Len(back) \in Nat
  BY DEF YappInv, YappTyped
<1>2. Y!File # Y!NoFile
  BY DEF Y!File, Y!NoFile
<1>3. ASSUME BlocksInOrder
      PROVE  /\ stored = data \/ stored = Y!NoFile
             /\ receiver = "done" => stored = data
             /\ receiver # "done" => stored = Y!NoFile
             /\ data = [i \in 1 .. Len(data) |-> i] /\ Len(data) <= size
             /\ receiver = "done" => "end" \in trouble \/ Len(data) = size
  <2>1. data \in Seq(Nat) /\ \A k \in 1 .. Len(data) : data[k] = k
    BY <1>1, <1>3 DEF BlocksInOrder, YappTyped
  <2>2. data = [i \in 1 .. Len(data) |-> i]
    BY <2>1
  <2> QED BY <1>3, <2>2 DEF BlocksInOrder
<1>4. Y!StoredIsWhole
  <2>1. CASE "unseen" \in trouble
    BY <2>1 DEF Y!StoredIsWhole
  <2>2. CASE "unseen" \notin trouble /\ receiver = "done" /\ Len(data) # size
    <3>1. "end" \in trouble /\ stored = [i \in 1 .. Len(data) |-> i] /\ Len(data) \in 0 .. size
      <4>1. BlocksInOrder
        BY <2>2 DEF YappInv
      <4>2. /\ "end" \in trouble /\ stored = data /\ Len(data) <= size
            /\ data = [i \in 1 .. Len(data) |-> i]
        BY <1>3, <2>2, <4>1, Zenon
      <4>3. Len(data) \in 0 .. size
        BY <1>1, <4>2
      <4> QED BY <4>2, <4>3, Zenon
    <3>2. [i \in 1 .. Len(data) |-> i] = SubSeq(Y!File, 1, Len(data))
      BY <1>1, <3>1 DEF Y!File
    <3> QED BY <3>1, <3>2 DEF Y!StoredIsWhole
  <2>3. CASE "unseen" \notin trouble /\ ~(receiver = "done" /\ Len(data) # size)
    BY <1>3, <2>3 DEF YappInv, Y!StoredIsWhole, Y!File
  <2> QED BY <2>1, <2>2, <2>3
<1>5. ASSUME ~Mistaken
      PROVE  /\ InStep /\ BlocksInOrder /\ (sender = "done" => stored = Y!File)
             /\ receiver # "done" => stored = Y!NoFile
  <2>1. InStep /\ BlocksInOrder
    BY <1>5, MoodsImply DEF YappInv
  <2> QED BY <1>3, <2>1 DEF InStep, Y!File
<1>6. Y!SuccessIsStored
  BY <1>5 DEF Y!SuccessIsStored, InStep, Mistaken
<1>7. ASSUME Y!Undisturbed PROVE InStep /\ Tidy /\ BlocksInOrder /\ ~Mistaken /\ "stray" \notin trouble
  BY <1>5, <1>7, MoodsImply DEF YappInv
<1>8. Y!BothAgree
  <2> SUFFICES ASSUME Y!Undisturbed, Y!Ended
               PROVE  /\ (sender = "done" <=> stored = Y!File) /\ sender = receiver
                      /\ \A i \in 1 .. Len(Y!ForPrompt) : Y!ForPrompt[i].kind = "text" \/ "cut" \in trouble
    BY DEF Y!BothAgree
  <2>1. sender \in {"done", "failed"} /\ receiver \in {"done", "failed"}
    BY DEF Y!Ended, Y!Over
  <2>2. (sender = "failed" => receiver = "failed") /\ AllText(back)
    BY <1>7, <2>1 DEF Tidy
  <2>3. (sender = "done" <=> stored = Y!File) /\ sender = receiver
    BY <1>2, <1>5, <1>7, <2>1, <2>2 DEF InStep
  <2>4. board = "receiver" => \A i \in 1 .. Len(forth) : forth[i].kind = "text" \/ "cut" \in trouble
    BY <1>7, <2>1 DEF Tidy
  <2>5. board = "sender" \/ board = "receiver"
    BY <1>1 DEF YappTyped
  <2>6. CASE board = "sender"
    BY <2>2, <2>3, <2>6 DEF Y!ForPrompt, AllText
  <2>7. CASE board = "receiver"
    BY <2>3, <2>4, <2>7 DEF Y!ForPrompt
  <2> QED BY <2>5, <2>6, <2>7
<1>9. Y!SomethingOnTheWay
  <2> SUFFICES ASSUME Y!Undisturbed, ~Y!Ended
               PROVE  \/ sender \notin Y!Over /\ back # <<>>
                      \/ receiver \notin Y!Over /\ forth # <<>>
    BY DEF Y!SomethingOnTheWay
  <2>1. CASE sender = "ok"
    <3>1. \/ receiver = "announcement" /\ Has("announcement", forth)
          \/ Has("ok", back)
      BY <1>7, <2>1 DEF Tidy
    <3> QED BY <2>1, <3>1 DEF Has, Y!Over
  <2>2. CASE sender = "ack" /\ back = <<>>
    <3>1. receiver = "frame" /\ Len(data) + 1 = index
      BY <1>7, <2>2 DEF Tidy, InStep, WaitsForAck, Answered
    <3>2. Len(data) + Len(forth) = index
      BY <1>7, <2>2, <3>1 DEF BlocksInOrder, StrayFirst, Queued
    <3>3. forth # <<>>
      BY <1>1, <3>1, <3>2
    <3> QED BY <3>1, <3>3 DEF Y!Over
  <2>3. CASE sender = "ack" /\ back # <<>>
    BY <2>3 DEF Y!Over
  <2>4. CASE sender \in {"done", "failed"}
    BY <1>7, <2>4 DEF Tidy, InStep, Y!Ended, Y!Over
  <2> QED BY <1>1, <2>1, <2>2, <2>3, <2>4 DEF YappTyped
<1> QED BY <1>4, <1>6, <1>8, <1>9 DEF StoredWholeAndAgreed, TransferMoves

\* A file is stored whole, success is reported only of one that was, and both
\* ends tell the same of the transfer, but for what the history names, for files
\* of any size (yapp.py, send_file and receive_file).
THEOREM StoredWhole == ServicesSpec => []StoredWholeAndAgreed
BY YappInitial, YappMoves, YappImplies, PTL DEF ServicesSpec

\* While nothing disturbs a transfer, what one of its ends waits for is on its
\* way (yapp.py, send_file and receive_file).
THEOREM NeverBothWait == ServicesSpec => []TransferMoves
BY YappInitial, YappMoves, YappImplies, PTL DEF ServicesSpec

(***************************************************************************)
(* The scheduler.  First its cron expressions: what matches is what the    *)
(* grammar means, for any parts a field may have.                          *)
(***************************************************************************)
VerdictOf(p, v, lo) == F!Verdict(p, v, lo)
FieldOf(spec, v, lo) == F!Field(spec, v, lo)
DecidesOf(verdicts, over) == F!Decides(verdicts, over)
Says(expr, m) == F!Matches(expr, m)
Means(spec, v, lo) == F!Meant(spec, v, lo)
IsSound(p) == F!Sound(p)
Readable(expr) == F!Valid(expr)
DueAt(n, m) == F!Due(n, m)
FieldAt(m, f) == F!Values(m)[f]
LowOf(f) == F!First[f]

\* The first verdict that counts is one of them.
LEMMA DecidesIsOne ==
  ASSUME NEW n \in Nat, NEW w \in [1 .. n -> {"yes", "no", "error"}], NEW over
  PROVE  \/ DecidesOf(w, over) = over /\ \A i \in 1 .. n : w[i] = over
         \/ DecidesOf(w, over) # over /\ \E i \in 1 .. n : w[i] # over /\ DecidesOf(w, over) = w[i]
<1> DEFINE open == {i \in DOMAIN w : w[i] # over}
<1>1. CASE open = {}
  BY <1>1 DEF DecidesOf, F!Decides
<1>2. CASE open # {}
  <2>1. \E x \in open : \A y \in open : x <= y
    <3>1. open \in SUBSET Nat
      OBVIOUS
    <3> QED BY <1>2, <3>1, MinNat
  <2> DEFINE x == CHOOSE x \in open : \A y \in open : x <= y
  <2>2. x \in open
    BY <2>1
  <2>3. DecidesOf(w, over) = w[x]
    BY <1>2 DEF DecidesOf, F!Decides, F!MinSet
  <2> QED BY <2>2, <2>3
<1> QED BY <1>1, <1>2

\* A remainder is zero for multiples and for nothing else.
LEMMA Multiples ==
  ASSUME NEW a \in Nat \ {0}, NEW d \in Nat
  PROVE  d % a = 0 <=> \E k \in 0 .. d : d = k * a
<1>1. ASSUME d % a = 0 PROVE \E k \in 0 .. d : d = k * a
  <2>1. d = (d \div a) * a
    BY <1>1
  <2>2. d \div a \in 0 .. d
    OBVIOUS
  <2> QED BY <2>1, <2>2
<1>2. ASSUME NEW k \in 0 .. d, d = k * a PROVE d % a = 0
  <2> DEFINE q == d \div a
             r == d % a
  <2>1. k \in Nat /\ q \in Nat /\ r \in 0 .. a - 1 /\ k * a = q * a + r
    BY <1>2
  <2> HIDE DEF q, r
  <2>2. ~(k >= q + 1)
    <3> SUFFICES ASSUME k >= q + 1 PROVE FALSE
      OBVIOUS
    <3>1. k * a >= (q + 1) * a
      BY <2>1
    <3> QED BY <2>1, <3>1
  <2>3. ~(k < q)
    <3> SUFFICES ASSUME k < q PROVE FALSE
      OBVIOUS
    <3>1. (k + 1) * a <= q * a
      BY <2>1
    <3> QED BY <2>1, <3>1
  <2>4. k = q => r = 0
    <3> SUFFICES ASSUME k = q PROVE r = 0
      OBVIOUS
    <3>1. k * a = k * a + r /\ k * a \in Nat
      BY <2>1
    <3> QED BY <2>1, <3>1
  <2>5. k = q
    BY <2>1, <2>2, <2>3
  <2> QED BY <2>4, <2>5 DEF r
<1> QED BY <1>1, <1>2

MeansPart(p, v, lo) ==
  \/ p.kind = "any"
  \/ p.kind = "step" /\ \E k \in 0 .. v : v = lo + k * p.a
  \/ p.kind \in {"range", "exact"} /\ v \in p.a .. p.b

LEMMA VerdictMeans ==
  ASSUME NEW p \in F!CronParts, IsSound(p), NEW lo \in Nat, NEW v \in Nat, lo <= v
  PROVE  VerdictOf(p, v, lo) = IF MeansPart(p, v, lo) THEN "yes" ELSE "no"
<1>1. /\ p.kind \in {"any", "step", "range", "exact", "bad"} /\ p.a \in Int /\ p.b \in Int
      /\ p.kind = "exact" => p.a = p.b
      /\ p.kind = "bad" => p = F!Bad
  BY DEF F!CronParts
<1>2. CASE p.kind = "step"
  <2>1. p.a \in Nat \ {0}
    BY <1>1, <1>2 DEF IsSound, F!Sound
  <2> DEFINE d == v - lo
  <2>2. d \in Nat /\ d <= v /\ v = lo + d
    OBVIOUS
  <2>3. VerdictOf(p, v, lo) = IF d % p.a = 0 THEN "yes" ELSE "no"
    BY <1>2, <2>1 DEF VerdictOf, F!Verdict
  <2> HIDE DEF d
  <2>4. d % p.a = 0 <=> \E k \in 0 .. d : d = k * p.a
    BY <2>1, <2>2, Multiples
  <2>5. ASSUME NEW k \in 0 .. d, d = k * p.a PROVE \E l \in 0 .. v : v = lo + l * p.a
    BY <2>1, <2>2, <2>5
  <2>6. ASSUME NEW k \in 0 .. v, v = lo + k * p.a PROVE \E l \in 0 .. d : d = l * p.a
    <3> DEFINE e == k * p.a
    <3>1. e \in Nat /\ k <= e
      BY <2>1
    <3> HIDE DEF e
    <3>2. v = lo + e
      BY <2>6 DEF e
    <3>3. d = e /\ k \in 0 .. d
      BY <2>2, <3>1, <3>2
    <3> QED BY <3>3 DEF e
  <2>7. MeansPart(p, v, lo) <=> d % p.a = 0
    BY <1>2, <2>4, <2>5, <2>6 DEF MeansPart
  <2> QED BY <2>3, <2>7
<1>3. CASE p.kind # "step"
  <2>1. p.kind # "bad"
    BY <1>1 DEF IsSound, F!Sound
  <2> QED BY <1>1, <1>3, <2>1 DEF MeansPart, VerdictOf, F!Verdict
<1> QED BY <1>2, <1>3

\* _field: one part that matches is enough.
LEMMA FieldMeans ==
  ASSUME NEW spec \in Seq(F!CronParts), \A i \in DOMAIN spec : IsSound(spec[i]),
         NEW lo \in Nat, NEW v \in Nat, lo <= v
  PROVE  FieldOf(spec, v, lo) = IF Means(spec, v, lo) THEN "yes" ELSE "no"
<1> DEFINE w == [i \in DOMAIN spec |-> VerdictOf(spec[i], v, lo)]
<1>1. Len(spec) \in Nat /\ DOMAIN spec = 1 .. Len(spec) /\ \A i \in 1 .. Len(spec) : spec[i] \in F!CronParts
  OBVIOUS
<1>2. \A i \in 1 .. Len(spec) : w[i] = IF MeansPart(spec[i], v, lo) THEN "yes" ELSE "no"
  <2> HIDE DEF VerdictOf
  <2> TAKE i \in 1 .. Len(spec)
  <2>1. spec[i] \in F!CronParts /\ IsSound(spec[i]) /\ w[i] = VerdictOf(spec[i], v, lo)
    BY <1>1
  <2> HIDE DEF w
  <2> QED BY <2>1, VerdictMeans
<1>3. w \in [1 .. Len(spec) -> {"yes", "no", "error"}]
  <2> HIDE DEF VerdictOf
  <2> QED BY <1>1, <1>2
<1>4. FieldOf(spec, v, lo) = DecidesOf(w, "no")
  BY SMT DEF FieldOf, F!Field, DecidesOf, VerdictOf
<1>5. Means(spec, v, lo) <=> \E i \in 1 .. Len(spec) : w[i] = "yes"
  <2> HIDE DEF w
  <2>1. Means(spec, v, lo) <=> \E i \in 1 .. Len(spec) : MeansPart(spec[i], v, lo)
    BY <1>1 DEF Means, F!Meant, MeansPart
  <2> QED BY <1>2, <2>1
<1>6. \/ DecidesOf(w, "no") = "no" /\ \A i \in 1 .. Len(spec) : w[i] = "no"
      \/ /\ DecidesOf(w, "no") # "no"
         /\ \E i \in 1 .. Len(spec) : w[i] # "no" /\ DecidesOf(w, "no") = w[i]
  <2> HIDE DEF w
  <2> QED BY <1>1, <1>3, DecidesIsOne
<1> HIDE DEF w
<1> QED BY <1>2, <1>4, <1>5, <1>6

\* The fields of a minute are numbers, none below what its field counts from.
LEMMA ValuesAre ==
  ASSUME NEW m \in Nat, NEW f \in 1 .. 3
  PROVE  FieldAt(m, f) \in Nat /\ LowOf(f) \in Nat /\ LowOf(f) <= FieldAt(m, f)
<1>1. /\ m % MinutesPerHour \in Nat /\ m \div MinutesPerHour \in Nat
      /\ (m \div MinutesPerHour) % HoursPerDay \in Nat /\ (m \div MinutesPerHour) \div HoursPerDay \in Nat
  <2> DEFINE h == m \div MinutesPerHour
  <2>1. m % MinutesPerHour \in Nat /\ h \in Nat
    BY ClockAssumption
  <2> HIDE DEF h
  <2>2. h % HoursPerDay \in Nat /\ h \div HoursPerDay \in Nat
    BY <2>1, ClockAssumption
  <2> QED BY <2>1, <2>2 DEF h
<1>2. f \in {1, 2, 3}
  OBVIOUS
<1> QED BY <1>1, <1>2 DEF FieldAt, LowOf, F!Values, F!First

LEMMA ThreeOf ==
  ASSUME NEW V, NEW q \in Seq(V), Len(q) = 3
  PROVE  DOMAIN q = 1 .. 3 /\ \A f \in 1 .. 3 : q[f] \in V
OBVIOUS

\* matches: all the fields must.
LEMMA MatchesMeans ==
  ASSUME NEW expr \in Seq(Seq(F!CronParts)), NEW m \in Nat
  PROVE  /\ Readable(expr) => (Says(expr, m) <=> \A f \in 1 .. 3 : Means(expr[f], FieldAt(m, f), LowOf(f)))
         /\ Len(expr) # 3 => Says(expr, m)
<1> DEFINE w == [i \in DOMAIN expr |-> FieldOf(expr[i], FieldAt(m, i), LowOf(i))]
<1>1. Len(F!First) = 3
  BY DEF F!First
<1>2. Len(expr) # 3 => Says(expr, m)
  BY <1>1 DEF Says, F!Matches
<1>3. ASSUME Readable(expr)
      PROVE  Says(expr, m) <=> \A f \in 1 .. 3 : Means(expr[f], FieldAt(m, f), LowOf(f))
  <2>1. /\ Len(expr) = 3 /\ DOMAIN expr = 1 .. 3
        /\ \A f \in 1 .. 3 : expr[f] \in Seq(F!CronParts) /\ \A i \in DOMAIN expr[f] : IsSound(expr[f][i])
    <3>1. Len(expr) = 3 /\ \A f \in 1 .. 3 : \A i \in DOMAIN expr[f] : IsSound(expr[f][i])
      BY <1>3, Zenon DEF Readable, F!Valid, IsSound
    <3>2. DOMAIN expr = 1 .. 3 /\ \A f \in 1 .. 3 : expr[f] \in Seq(F!CronParts)
      BY <3>1, ThreeOf
    <3> QED BY <3>1, <3>2
  <2>2. ASSUME NEW f \in 1 .. 3
        PROVE  FieldOf(expr[f], FieldAt(m, f), LowOf(f)) =
                 IF Means(expr[f], FieldAt(m, f), LowOf(f)) THEN "yes" ELSE "no"
    <3> HIDE DEF FieldAt, LowOf, FieldOf, Means
    <3>1. FieldAt(m, f) \in Nat /\ LowOf(f) \in Nat /\ LowOf(f) <= FieldAt(m, f)
      BY ValuesAre
    <3>2. expr[f] \in Seq(F!CronParts) /\ \A i \in DOMAIN expr[f] : IsSound(expr[f][i])
      BY <2>1
    <3> QED BY <3>1, <3>2, FieldMeans
  <2>3. /\ DOMAIN w = 1 .. 3
        /\ \A f \in 1 .. 3 : w[f] = IF Means(expr[f], FieldAt(m, f), LowOf(f)) THEN "yes" ELSE "no"
    <3> HIDE DEF FieldOf, FieldAt, LowOf, Means
    <3> QED BY <2>1, <2>2
  <2>4. w \in [1 .. 3 -> {"yes", "no", "error"}]
    <3> HIDE DEF FieldOf, FieldAt, LowOf, Means
    <3> QED BY <2>1, <2>3
  <2>5. Says(expr, m) <=> DecidesOf(w, "yes") # "no"
    BY <1>1, <2>1, SMT DEF Says, F!Matches, DecidesOf, FieldOf, FieldAt, LowOf
  <2> HIDE DEF w
  <2>6. \/ DecidesOf(w, "yes") = "yes" /\ \A i \in 1 .. 3 : w[i] = "yes"
        \/ /\ DecidesOf(w, "yes") # "yes"
           /\ \E i \in 1 .. 3 : w[i] # "yes" /\ DecidesOf(w, "yes") = w[i]
    <3> DEFINE three == 3
    <3>1. three \in Nat /\ w \in [1 .. three -> {"yes", "no", "error"}]
      BY <2>4
    <3>2. \/ DecidesOf(w, "yes") = "yes" /\ \A i \in 1 .. three : w[i] = "yes"
          \/ /\ DecidesOf(w, "yes") # "yes"
             /\ \E i \in 1 .. three : w[i] # "yes" /\ DecidesOf(w, "yes") = w[i]
      <4> HIDE DEF three
      <4> QED BY <3>1, DecidesIsOne
    <3> QED BY <3>2
  <2> HIDE DEF FieldAt, LowOf, Means, Says, DecidesOf
  <2> QED BY <2>3, <2>5, <2>6
<1> QED BY <1>2, <1>3

LEMMA DueIsSaid ==
  ASSUME NEW n \in Neighbours, schedule[n] \in Expressions, NEW m \in Nat
  PROVE  /\ DueAt(n, m) => Says(schedule[n], m)
         /\ Readable(schedule[n]) /\ Says(schedule[n], m) => DueAt(n, m)
<1>1. schedule[n] \in Seq(Seq(F!CronParts))
  BY ExpressionsAssumption
<1>2. DueAt(n, m) = IF Readable(schedule[n])
                    THEN \A f \in 1 .. 3 : Means(schedule[n][f], FieldAt(m, f), LowOf(f))
                    ELSE Len(schedule[n]) # 3
  BY Zenon DEF DueAt, F!Due, Readable, Means, F!Valid, F!Meant, F!Sound, FieldAt, LowOf
<1> HIDE DEF DueAt, Readable, Means, FieldAt, LowOf, Says
<1> QED BY <1>1, <1>2, MatchesMeans

(***************************************************************************)
(* Then its clock and its loop.                                            *)
(***************************************************************************)
LEMMA Quotient ==
  ASSUME NEW b \in Nat \ {0}, NEW t \in Nat, NEW q \in Nat, q * b <= t, t < (q + 1) * b
  PROVE  t \div b = q
<1> DEFINE k == t \div b
           r == t % b
<1>1. k \in Nat /\ r \in 0 .. b - 1 /\ t = k * b + r
  OBVIOUS
<1> HIDE DEF k, r
<1>2. ~(k >= q + 1)
  <2> SUFFICES ASSUME k >= q + 1 PROVE FALSE
    OBVIOUS
  <2>1. k * b >= (q + 1) * b
    BY <1>1
  <2> QED BY <1>1, <2>1
<1>3. ~(k + 1 <= q)
  <2> SUFFICES ASSUME k + 1 <= q PROVE FALSE
    OBVIOUS
  <2>1. (k + 1) * b <= q * b
    BY <1>1
  <2> QED BY <1>1, <2>1
<1>4. k = q
  BY <1>1, <1>2, <1>3
<1> QED BY <1>4 DEF k

MinuteOf(t) == t \div Ticks

LEMMA Clock ==
  /\ \A t \in Nat : /\ MinuteOf(t) \in Nat
                    /\ MinuteOf(t + Ticks) = MinuteOf(t) + 1
                    /\ MinuteOf(t + 1) \in {MinuteOf(t), MinuteOf(t) + 1}
                    /\ t < Ticks => MinuteOf(t) = 0
  /\ MinuteOf(Ticks) = 1
  /\ \A s, t \in Nat : s <= t => MinuteOf(s) <= MinuteOf(t)
<1>1. Ticks \in Nat \ {0}
  BY ClockAssumption
<1>2. ASSUME NEW t \in Nat
      PROVE  MinuteOf(t) \in Nat /\ MinuteOf(t) * Ticks <= t /\ t < (MinuteOf(t) + 1) * Ticks
  BY <1>1 DEF MinuteOf
<1>3. ASSUME NEW t \in Nat, NEW q \in Nat, q * Ticks <= t, t < (q + 1) * Ticks
      PROVE  MinuteOf(t) = q
  BY <1>1, <1>3, Quotient DEF MinuteOf
<1> HIDE DEF MinuteOf
<1>4. ASSUME NEW t \in Nat
      PROVE  /\ MinuteOf(t + Ticks) = MinuteOf(t) + 1
             /\ MinuteOf(t + 1) \in {MinuteOf(t), MinuteOf(t) + 1}
             /\ t < Ticks => MinuteOf(t) = 0
  <2> DEFINE q == MinuteOf(t)
  <2>1. q \in Nat /\ q * Ticks <= t /\ t < (q + 1) * Ticks
    BY <1>2
  <2> HIDE DEF q
  <2>2. /\ (q + 1) * Ticks = q * Ticks + Ticks /\ (q + 2) * Ticks = q * Ticks + Ticks + Ticks
        /\ q * Ticks \in Nat /\ q + 1 + 1 = q + 2
    BY <1>1, <2>1
  <2>3. MinuteOf(t + Ticks) = q + 1
    <3>1. t + Ticks \in Nat /\ q + 1 \in Nat /\ (q + 1) * Ticks <= t + Ticks /\ t + Ticks < (q + 1 + 1) * Ticks
      BY <1>1, <2>1, <2>2
    <3> QED BY <1>3, <3>1
  <2>4. CASE t + 1 < (q + 1) * Ticks
    <3>1. t + 1 \in Nat /\ q * Ticks <= t + 1
      BY <2>1, <2>2
    <3>2. MinuteOf(t + 1) = q
      BY <1>3, <2>1, <2>4, <3>1
    <3> QED BY <2>1, <2>3, <3>2, <1>3, <1>1 DEF q
  <2>5. CASE t + 1 = (q + 1) * Ticks
    <3>1. t + 1 \in Nat /\ q + 1 \in Nat /\ (q + 1) * Ticks <= t + 1 /\ t + 1 < (q + 1 + 1) * Ticks
      BY <1>1, <2>1, <2>2, <2>5
    <3>2. MinuteOf(t + 1) = q + 1
      BY <1>3, <3>1
    <3> QED BY <2>1, <2>3, <3>2, <1>3, <1>1 DEF q
  <2> QED BY <1>1, <2>1, <2>2, <2>4, <2>5
<1>5. MinuteOf(Ticks) = 1
  BY <1>1, <1>3
<1>6. ASSUME NEW s \in Nat, NEW t \in Nat, s <= t PROVE MinuteOf(s) <= MinuteOf(t)
  <2> DEFINE k == MinuteOf(s)
             q == MinuteOf(t)
  <2>1. k \in Nat /\ k * Ticks <= s /\ q \in Nat /\ t < (q + 1) * Ticks
    BY <1>2
  <2> HIDE DEF k, q
  <2>2. ~(q + 1 <= k)
    <3> SUFFICES ASSUME q + 1 <= k PROVE FALSE
      OBVIOUS
    <3>1. (q + 1) * Ticks <= k * Ticks /\ k * Ticks \in Nat /\ (q + 1) * Ticks \in Nat
      BY <1>1, <2>1
    <3> QED BY <1>6, <2>1, <3>1
  <2>3. k <= q
    BY <2>1, <2>2
  <2> QED BY <2>3 DEF k, q
<1> QED BY <1>2, <1>4, <1>5, <1>6

SchedTyped ==
  /\ now \in Nat /\ wake \in Nat /\ loop \in {"sleep", "pass", "session"}
  /\ enabled \subseteq Neighbours /\ todo \subseteq enabled
  /\ schedule \in [Neighbours -> Expressions]
  /\ called \subseteq Neighbours \X Nat

\* Sessions are begun with enabled neighbours, when they are due, and not again in
\* a minute in which one has been: a pass begins in a minute after the last one's.
CalledRightly ==
  /\ twice = {}
  /\ \A n \in Neighbours, m \in Nat : <<n, m>> \in called =>
       /\ n \in enabled /\ m <= MinuteOf(now)
       /\ Readable(schedule[n]) => DueAt(n, m)
       /\ loop = "sleep" => m < MinuteOf(wake)
       /\ loop # "sleep" /\ n \in todo => m < MinuteOf(now)

\* Every minute in which a neighbour was due has been looked at, up to the one in
\* which the loop woke last.
Covered(n, m) == <<n, m>> \in called \/ m \in spent \cup late
MinutesCovered ==
  \A n \in enabled, m \in Nat \ {0} : DueAt(n, m) =>
    /\ loop # "sleep" /\ m < MinuteOf(now) => Covered(n, m)
    /\ loop # "sleep" /\ m = MinuteOf(now) /\ n \notin todo => Covered(n, m)
    /\ loop = "sleep" /\ m < MinuteOf(wake) => Covered(n, m)

\* From the minute in which it was to wake the loop is late in every one.
LateIsKnown ==
  loop = "sleep" => \A m \in Nat : MinuteOf(wake) <= m /\ m < MinuteOf(now) => m \in late

SchedInv == SchedTyped /\ CalledRightly /\ MinutesCovered /\ LateIsKnown

LEMMA SchedInitial == ServicesInit => SchedInv
<1> SUFFICES ASSUME ServicesInit PROVE SchedInv
  OBVIOUS
<1>1. /\ enabled \subseteq Neighbours /\ schedule \in [Neighbours -> Expressions]
      /\ now \in 0 .. Ticks - 1 /\ wake = Ticks /\ loop = "sleep" /\ todo = {}
      /\ called = {} /\ twice = {}
  BY DEF ServicesInit, F!Init
<1>2. now \in Nat /\ wake \in Nat /\ MinuteOf(now) = 0 /\ MinuteOf(wake) = 1
  BY <1>1, Clock, ClockAssumption
<1>3. SchedTyped
  BY <1>1, <1>2 DEF SchedTyped
<1> HIDE DEF MinuteOf, DueAt, Readable
<1>4. CalledRightly
  BY <1>1 DEF CalledRightly
<1>5. MinutesCovered /\ LateIsKnown
  BY <1>1, <1>2 DEF MinutesCovered, LateIsKnown
<1> QED BY <1>3, <1>4, <1>5 DEF SchedInv

LEMMA SameSchedule ==
  ASSUME schedule' = schedule
  PROVE  \A n, m : DueAt(n, m)' = DueAt(n, m)
BY SMT DEF DueAt, F!Due, F!Valid, F!Sound, F!Meant

LEMMA WakeStep ==
  ASSUME SchedInv, F!Wake
  PROVE  SchedInv'
<1>1. /\ loop = "sleep" /\ now >= wake /\ loop' = "pass" /\ todo' = enabled
      /\ UNCHANGED <<schedule, enabled, now, wake, called, twice, spent, late>>
  BY DEF F!Wake
<1>2. now \in Nat /\ wake \in Nat /\ MinuteOf(now) \in Nat /\ MinuteOf(wake) \in Nat /\ MinuteOf(wake) <= MinuteOf(now)
  BY <1>1, Clock DEF SchedInv, SchedTyped
<1>3. (\A n, m : DueAt(n, m)' = DueAt(n, m)) /\ MinuteOf(now)' = MinuteOf(now) /\ MinuteOf(wake)' = MinuteOf(wake)
  BY <1>1, SameSchedule
<1> HIDE DEF MinuteOf, DueAt, Readable
<1>4. SchedTyped'
  BY <1>1 DEF SchedInv, SchedTyped
<1>5. CalledRightly'
  <2> SUFFICES ASSUME NEW n \in Neighbours, NEW m \in Nat, <<n, m>> \in called
               PROVE  /\ n \in enabled /\ m <= MinuteOf(now)
                      /\ Readable(schedule[n]) => DueAt(n, m)
                      /\ m < MinuteOf(now)
    BY <1>1, <1>3 DEF SchedInv, CalledRightly
  <2>1. m < MinuteOf(wake)
    BY <1>1 DEF SchedInv, CalledRightly
  <2>2. m < MinuteOf(now)
    BY <1>2, <2>1
  <2> QED BY <2>2 DEF SchedInv, CalledRightly
<1>6. MinutesCovered'
  <2> SUFFICES ASSUME NEW n \in enabled, NEW m \in Nat \ {0}, DueAt(n, m), m < MinuteOf(now)
               PROVE  Covered(n, m)
    BY <1>1, <1>3 DEF MinutesCovered, Covered
  <2>1. CASE m < MinuteOf(wake)
    BY <1>1, <2>1 DEF SchedInv, MinutesCovered
  <2>2. CASE MinuteOf(wake) <= m
    BY <1>1, <2>2 DEF SchedInv, LateIsKnown, Covered
  <2> QED BY <1>2, <2>1, <2>2
<1>7. LateIsKnown'
  BY <1>1 DEF LateIsKnown
<1> QED BY <1>4, <1>5, <1>6, <1>7 DEF SchedInv

LEMMA VisitStep ==
  ASSUME SchedInv, F!Visit
  PROVE  SchedInv'
<1> DEFINE v == F!MinSet(todo)
           M == MinuteOf(now)
<1>1. /\ loop = "pass" /\ todo # {} /\ todo' = todo \ {v}
      /\ UNCHANGED <<schedule, enabled, now, wake, spent, late>>
  BY DEF F!Visit, F!MinSet
<1>2. \/ /\ Says(schedule[v], M)
         /\ loop' = "session" /\ called' = called \cup {<<v, M>>}
         /\ twice' = twice \cup IF <<v, M>> \in called THEN {v} ELSE {}
      \/ ~Says(schedule[v], M) /\ UNCHANGED <<loop, called, twice>>
  BY SMT DEF F!Visit, F!Minute, Says, MinuteOf
<1>3. v \in todo
  <2>1. todo \in SUBSET Nat
    BY ClockAssumption DEF SchedInv, SchedTyped
  <2>2. \E x \in todo : \A y \in todo : x <= y
    BY <1>1, <2>1, MinNat
  <2> QED BY <2>2 DEF F!MinSet
<1> HIDE DEF v
<1>4. /\ v \in enabled /\ v \in Neighbours /\ now \in Nat /\ M \in Nat
      /\ schedule[v] \in Expressions /\ MinuteOf(wake) \in Nat
  BY <1>3, Clock DEF SchedInv, SchedTyped
<1>5. (DueAt(v, M) => Says(schedule[v], M)) /\ (Readable(schedule[v]) /\ Says(schedule[v], M) => DueAt(v, M))
  BY <1>4, DueIsSaid
<1>6. (\A n, m : DueAt(n, m)' = DueAt(n, m)) /\ MinuteOf(now)' = M /\ MinuteOf(wake)' = MinuteOf(wake)
  BY <1>1, SameSchedule
<1> HIDE DEF MinuteOf, DueAt, Readable, Says, M
<1>7. SchedTyped'
  BY <1>1, <1>2, <1>4 DEF SchedInv, SchedTyped
<1>8. <<v, M>> \notin called
  <2>1. ~(M < M)
    BY <1>4
  <2> QED BY <1>1, <1>3, <1>4, <2>1 DEF SchedInv, CalledRightly, M
<1>9. loop' # "sleep" /\ loop # "sleep"
  BY <1>1, <1>2
<1>10. CalledRightly'
  <2>1. twice' = {}
    BY <1>2, <1>8 DEF SchedInv, CalledRightly
  <2>2. ASSUME NEW n \in Neighbours, NEW m \in Nat, <<n, m>> \in called'
        PROVE  /\ n \in enabled /\ m <= M /\ (Readable(schedule[n]) => DueAt(n, m))
               /\ n \in todo' => m < M
    <3>1. CASE <<n, m>> \in called
      BY <1>1, <1>9, <3>1 DEF SchedInv, CalledRightly, M
    <3>2. CASE <<n, m>> \notin called
      <4>1. n = v /\ m = M /\ Says(schedule[v], M)
        BY <1>2, <2>2, <3>2
      <4> QED BY <1>1, <1>4, <1>5, <4>1
    <3> QED BY <3>1, <3>2
  <2> QED BY <1>1, <1>6, <1>9, <2>1, <2>2 DEF CalledRightly
<1>11. MinutesCovered'
  <2> SUFFICES ASSUME NEW n \in enabled, NEW m \in Nat \ {0}, DueAt(n, m),
                      m < M \/ (m = M /\ n \notin todo')
               PROVE  Covered(n, m)'
    BY <1>1, <1>6, <1>9 DEF MinutesCovered
  <2>1. Covered(n, m) => Covered(n, m)'
    BY <1>1, <1>2 DEF Covered
  <2>2. CASE m < M \/ n \notin todo
    BY <1>9, <2>1, <2>2 DEF SchedInv, MinutesCovered, M
  <2>3. CASE m = M /\ n = v
    BY <1>2, <1>5, <2>3 DEF Covered
  <2> QED BY <1>1, <2>2, <2>3
<1>12. LateIsKnown'
  BY <1>9 DEF LateIsKnown
<1> QED BY <1>7, <1>10, <1>11, <1>12 DEF SchedInv

LEMMA EndsStep ==
  ASSUME SchedInv, F!SessionEnds \/ F!PassEnds
  PROVE  SchedInv'
<1>1. /\ UNCHANGED <<schedule, enabled, now, todo, called, twice, spent, late>>
      /\ \/ loop = "session" /\ loop' = "pass" /\ wake' = wake
         \/ loop = "pass" /\ todo = {} /\ loop' = "sleep" /\ wake' = now + Ticks
  BY DEF F!SessionEnds, F!PassEnds
<1>2. now \in Nat /\ MinuteOf(now) \in Nat /\ MinuteOf(now + Ticks) = MinuteOf(now) + 1 /\ wake' \in Nat
  <2>1. now \in Nat /\ wake \in Nat /\ now + Ticks \in Nat
    BY ClockAssumption DEF SchedInv, SchedTyped
  <2>2. wake' \in Nat
    BY <1>1, <2>1
  <2> QED BY <2>1, <2>2, Clock
<1>3. /\ \A n, m : DueAt(n, m)' = DueAt(n, m)
      /\ MinuteOf(now)' = MinuteOf(now)
      /\ loop' = "sleep" => MinuteOf(wake)' = MinuteOf(now) + 1
  BY <1>1, <1>2, SameSchedule
<1> HIDE DEF MinuteOf, DueAt, Readable
<1>4. SchedTyped'
  BY <1>1, <1>2 DEF SchedInv, SchedTyped
<1>5. CalledRightly'
  BY <1>1, <1>2, <1>3 DEF SchedInv, CalledRightly
<1>6. MinutesCovered'
  <2> SUFFICES ASSUME NEW n \in enabled, NEW m \in Nat \ {0}, DueAt(n, m),
                      \/ m < MinuteOf(now)
                      \/ m = MinuteOf(now) /\ n \notin todo
               PROVE  Covered(n, m)
    <3>1. loop' = "sleep" => todo = {}
      BY <1>1
    <3> QED BY <1>1, <1>2, <1>3, <3>1 DEF MinutesCovered, Covered
  <2> QED BY <1>1 DEF SchedInv, MinutesCovered
<1>7. LateIsKnown'
  BY <1>1, <1>2, <1>3 DEF LateIsKnown
<1> QED BY <1>4, <1>5, <1>6, <1>7 DEF SchedInv

LEMMA AdvanceStep ==
  ASSUME SchedInv, F!Advance
  PROVE  SchedInv'
<1> DEFINE M == MinuteOf(now)
           W == MinuteOf(wake)
           N == MinuteOf(now + 1)
<1>1. /\ loop \in {"sleep", "session"} /\ now' = now + 1
      /\ UNCHANGED <<schedule, enabled, loop, wake, todo, called, twice>>
      /\ spent' = spent \cup IF loop = "session" THEN {M, N} ELSE {}
      /\ late' = late \cup IF loop = "sleep" /\ now >= wake THEN {M} ELSE {}
  BY DEF F!Advance, F!Minute, MinuteOf
<1>2. now \in Nat /\ wake \in Nat /\ M \in Nat /\ W \in Nat /\ N \in {M, M + 1}
      /\ (now < wake => N <= W)
  BY Clock DEF SchedInv, SchedTyped
<1>3. (\A n, m : DueAt(n, m)' = DueAt(n, m)) /\ MinuteOf(now)' = N /\ MinuteOf(wake)' = W
  BY <1>1, SameSchedule
<1>4. SchedTyped'
  BY <1>1, <1>2 DEF SchedInv, SchedTyped
<1> HIDE DEF MinuteOf, DueAt, Readable
<1>5. CalledRightly'
  BY <1>1, <1>2, <1>3 DEF SchedInv, CalledRightly
<1>6. MinutesCovered'
  <2> SUFFICES ASSUME NEW n \in enabled, NEW m \in Nat \ {0}, DueAt(n, m),
                      \/ loop = "session" /\ m <= N
                      \/ loop = "sleep" /\ m < W
               PROVE  Covered(n, m)'
    BY <1>1, <1>2, <1>3 DEF MinutesCovered
  <2>1. Covered(n, m) => Covered(n, m)'
    BY <1>1 DEF Covered
  <2>2. CASE loop = "sleep"
    BY <2>1, <2>2 DEF SchedInv, MinutesCovered
  <2>3. CASE loop = "session" /\ m < M
    BY <2>1, <2>3 DEF SchedInv, MinutesCovered
  <2>4. CASE loop = "session" /\ m \in {M, N}
    BY <1>1, <2>4 DEF Covered
  <2> QED BY <1>1, <1>2, <2>2, <2>3, <2>4
<1>7. LateIsKnown'
  <2> SUFFICES ASSUME loop = "sleep", NEW m \in Nat, W <= m, m < N PROVE m \in late'
    BY <1>1, <1>3 DEF LateIsKnown
  <2>1. CASE m < M
    BY <1>1, <2>1 DEF SchedInv, LateIsKnown
  <2>2. CASE m = M
    <3>1. now >= wake
      BY <1>2
    <3> QED BY <1>1, <2>2, <3>1
  <2> QED BY <1>2, <2>1, <2>2
<1> QED BY <1>4, <1>5, <1>6, <1>7 DEF SchedInv

LEMMA SchedStays ==
  ASSUME SchedInv, UNCHANGED sched_vars
  PROVE  SchedInv'
<1>1. UNCHANGED <<schedule, enabled, now, loop, wake, todo, called, twice, spent, late>>
  BY DEF sched_vars
<1>2. (\A n, m : DueAt(n, m)' = DueAt(n, m)) /\ MinuteOf(now)' = MinuteOf(now) /\ MinuteOf(wake)' = MinuteOf(wake)
  BY <1>1, SameSchedule
<1> HIDE DEF MinuteOf, DueAt, Readable
<1>3. SchedTyped' /\ CalledRightly'
  BY <1>1, <1>2 DEF SchedInv, SchedTyped, CalledRightly
<1>4. MinutesCovered' /\ LateIsKnown'
  BY <1>1, <1>2 DEF SchedInv, MinutesCovered, Covered, LateIsKnown
<1> QED BY <1>3, <1>4 DEF SchedInv

LEMMA SchedMoves == SchedInv /\ [ServicesNext]_servicesVars => SchedInv'
<1>1. SchedInv /\ F!Next => SchedInv'
  BY WakeStep, VisitStep, EndsStep, AdvanceStep DEF F!Next
<1>2. [ServicesNext]_servicesVars => F!Next \/ UNCHANGED sched_vars
  BY DEF ServicesNext, ConferenceStep, StreamsStep, YappStep, TransmitterStep,
         ScheduleStep, servicesVars, sched_vars
<1> QED BY <1>1, <1>2, SchedStays

\* An enabled neighbour is called in every minute its schedule names, once, and in no
\* other, but for the minutes in which a session is on or the loop is late
\* (cli.py, _fwd_loop; forward/scheduler.py, run_once; forward/cron.py, matches).
THEOREM Called == ServicesSpec => []CalledWhenDue
<1>1. ASSUME SchedInv PROVE CalledWhenDue
  <2>1. now \in Nat /\ MinuteOf(now) \in Nat /\ MinuteOf(wake) \in Nat
    BY <1>1, Clock DEF SchedInv, SchedTyped
  <2>2. twice = {}
    BY <1>1 DEF SchedInv, CalledRightly
  <2>3. ASSUME NEW n \in Neighbours, NEW m \in 0 .. MaxMinutes
        PROVE  /\ <<n, m>> \in called /\ Readable(schedule[n]) => n \in enabled /\ DueAt(n, m)
               /\ n \in enabled /\ DueAt(n, m) /\ 0 < m /\ m < MinuteOf(now) =>
                    <<n, m>> \in called \/ m \in spent \cup late
    <3> HIDE DEF MinuteOf, DueAt, Readable
    <3>1. m \in Nat
      BY ClockAssumption
    <3>2. <<n, m>> \in called /\ Readable(schedule[n]) => n \in enabled /\ DueAt(n, m)
      BY <1>1, <3>1 DEF SchedInv, CalledRightly
    <3>3. ASSUME n \in enabled, DueAt(n, m), 0 < m, m < MinuteOf(now) PROVE Covered(n, m)
      <4>1. m \in Nat \ {0}
        BY <3>1, <3>3
      <4>2. CASE loop # "sleep" \/ m < MinuteOf(wake)
        BY <1>1, <3>3, <4>1, <4>2 DEF SchedInv, MinutesCovered
      <4>3. CASE loop = "sleep" /\ MinuteOf(wake) <= m
        BY <1>1, <3>1, <3>3, <4>3 DEF SchedInv, LateIsKnown, Covered
      <4> QED BY <2>1, <3>1, <4>2, <4>3
    <3> QED BY <3>2, <3>3 DEF Covered
  <2> QED BY <2>2, <2>3, Zenon
      DEF CalledWhenDue, F!CalledWhenDue, F!Minute, MinuteOf, DueAt, F!Due, Readable, F!Valid, F!Sound, F!Meant
<1> QED BY <1>1, SchedInitial, SchedMoves, PTL DEF ServicesSpec

-----------------------------------------------------------------------------
(***************************************************************************)
(* The conference, whose invariant ConferenceProofs shows to be inductive. *)
(***************************************************************************)
LEMMA ConferenceMoves == ConfInv /\ [ServicesNext]_servicesVars => ConfInv'
<1>1. [ServicesNext]_servicesVars => [Next]_confVars
  BY DEF ServicesNext, ConferenceStep, StreamsStep, YappStep, TransmitterStep,
         ScheduleStep, servicesVars
<1> QED BY <1>1, ConfMoves

\* A room's participants are the clients whose tasks are in it, each under its own
\* key, and a room without any is gone once the last farewell is sent, but for what
\* a failure leaves; and events go to the sockets that are open (conference.py,
\* run_session, enter_room, leave_room_ws; web/app.py, handle_ws, broadcast).
THEOREM Listed == ServicesSpec => []ListsTellWhoIsThere
<1>1. ServicesInit => ConfInv
  BY ConfInitial DEF ServicesInit
<1>2. ConfInv => ListsTellWhoIsThere
  BY TheyArePresent DEF ConfInv, ListsTellWhoIsThere
<1> QED BY <1>1, <1>2, ConferenceMoves, PTL DEF ServicesSpec

\* Whoever is in a room is sent every line told there since it came, once and in
\* order, and none from another room, but for the lines that found its queue full
\* (conference.py, _broadcast, _run_loop; web/app.py, _drain).
THEOREM HeardWhole == ServicesSpec => []HeardInOrder
<1>1. ServicesInit => ConfInv
  BY ConfInitial DEF ServicesInit
<1> QED BY <1>1, ConferenceMoves, TheyHear, PTL DEF ServicesSpec

-----------------------------------------------------------------------------
(***************************************************************************)
(* What the decoders of Streams compute.  A function that is defined by    *)
(* recursion exists when its value at x rests on its values at places of a *)
(* smaller measure only.  Fn gives the value at x from the whole function.  *)
(***************************************************************************)
Below(Fn, D, V, m, n, g) == g \in [D -> V] /\ \A x \in D : m[x] < n => g[x] = Fn[x][g]

\* A set that holds x whenever it holds all places of a smaller measure holds
\* every place.
LEMMA ByMeasure ==
  ASSUME NEW D, NEW m \in [D -> Nat], NEW G,
         \A x \in D : (\A y \in D : m[y] < m[x] => y \in G) => x \in G
  PROVE  D \subseteq G
<1> DEFINE U == {n \in Nat : \E x \in D : m[x] = n /\ x \notin G}
<1>1. SUFFICES ASSUME U # {} PROVE FALSE
  OBVIOUS
<1>2. PICK n \in U : \A k \in U : n <= k
  <2>1. U \in SUBSET Nat
    OBVIOUS
  <2> HIDE DEF U
  <2> QED BY <1>1, <2>1, MinNat
<1>3. PICK x \in D : m[x] = n /\ x \notin G
  OBVIOUS
<1>4. ASSUME NEW y \in D, m[y] < m[x] PROVE y \in G
  <2>1. m[y] \in Nat /\ n \in Nat /\ ~(n <= m[y])
    BY <1>3, <1>4
  <2>2. m[y] \notin U
    <3> HIDE DEF U
    <3> QED BY <1>2, <2>1
  <2> QED BY <2>1, <2>2
<1> QED BY <1>3, <1>4

RestsBelow(Fn, D, m, W) ==
  \A x \in D : \A g, h \in W : (\A y \in D : m[y] < m[x] => g[y] = h[y]) => Fn[x][g] = Fn[x][h]
TypedIn(Fn, D, V) == \A x \in D : \A g \in [D -> V] : Fn[x][g] \in V
Solves(g, Fn, D) == \A x \in D : g[x] = Fn[x][g]
OnlyOne(g, Fn, D, W) == \A h \in W : Solves(h, Fn, D) => \A x \in D : h[x] = g[x]

\* A solution is built up measure by measure: were n the least with no function
\* right below it, the one below n - 1 could be extended.
LEMMA Solved ==
  ASSUME NEW D, NEW V, NEW v \in V, NEW m \in [D -> Nat], NEW Fn \in [D -> [[D -> V] -> V]],
         RestsBelow(Fn, D, m, [D -> V])
  PROVE  \E g \in [D -> V] : Solves(g, Fn, D)
<1>0. \A x \in D : \A g, h \in [D -> V] :
        (\A y \in D : m[y] < m[x] => g[y] = h[y]) => Fn[x][g] = Fn[x][h]
  BY DEF RestsBelow
<1> DEFINE P(n, g) == Below(Fn, D, V, m, n, g)
<1>1. \A n \in Nat : \E g : P(n, g)
  <2> DEFINE U == {n \in Nat : ~ \E g : P(n, g)}
  <2>1. SUFFICES ASSUME U # {} PROVE FALSE
    OBVIOUS
  <2>2. PICK n \in U : \A k \in U : n <= k
    <3>1. U \in SUBSET Nat
      OBVIOUS
    <3> HIDE DEF U
    <3> QED BY <2>1, <3>1, MinNat
  <2>3. n \in Nat /\ ~ \E g : P(n, g)
    OBVIOUS
  <2>4. n # 0
    <3> SUFFICES ASSUME n = 0 PROVE FALSE
      OBVIOUS
    <3>2. [x \in D |-> v] \in [D -> V]
      OBVIOUS
    <3>3. \A x \in D : ~(m[x] < 0)
      OBVIOUS
    <3>4. P(0, [x \in D |-> v])
      BY <3>2, <3>3 DEF Below
    <3> QED BY <2>3, <3>4
  <2>5. n - 1 \in Nat /\ n - 1 \notin U
    <3>1. n - 1 \in Nat /\ ~(n <= n - 1)
      BY <2>3, <2>4
    <3> HIDE DEF U
    <3> QED BY <2>2, <3>1
  <2>6. PICK g : P(n - 1, g)
    BY <2>5 DEF U
  <2>7. g \in [D -> V] /\ \A x \in D : m[x] < n - 1 => g[x] = Fn[x][g]
    BY <2>6 DEF Below
  <2> DEFINE h == [x \in D |-> IF m[x] < n - 1 THEN g[x] ELSE Fn[x][g]]
  <2>8. h \in [D -> V]
    BY <2>7
  <2>9. \A x \in D : h[x] = IF m[x] < n - 1 THEN g[x] ELSE Fn[x][g]
    OBVIOUS
  <2> HIDE DEF h
  <2>10. ASSUME NEW x \in D, m[x] < n PROVE h[x] = Fn[x][h]
    <3>1. \A y \in D : m[y] < m[x] => g[y] = h[y]
      BY <2>3, <2>9, <2>10
    <3>2. Fn[x][g] = Fn[x][h]
      BY <1>0, <2>7, <2>8, <3>1
    <3>3. h[x] = Fn[x][g]
      BY <2>7, <2>9
    <3> QED BY <3>2, <3>3
  <2>11. P(n, h)
    BY <2>8, <2>10 DEF Below
  <2> QED BY <2>3, <2>11
<1>2. ASSUME NEW n \in Nat, NEW g, NEW k \in Nat, NEW h, P(n, g), P(k, h), n <= k
      PROVE  \A x \in D : m[x] < n => g[x] = h[x]
  <2> DEFINE U == {i \in Nat : \E x \in D : m[x] = i /\ i < n /\ g[x] # h[x]}
  <2>1. SUFFICES ASSUME U # {} PROVE FALSE
    OBVIOUS
  <2>2. PICK i \in U : \A j \in U : i <= j
    <3>1. U \in SUBSET Nat
      OBVIOUS
    <3> HIDE DEF U
    <3> QED BY <2>1, <3>1, MinNat
  <2>3. PICK x \in D : m[x] = i /\ i < n /\ g[x] # h[x]
    OBVIOUS
  <2>4. /\ g \in [D -> V] /\ h \in [D -> V] /\ i \in Nat
        /\ g[x] = Fn[x][g] /\ h[x] = Fn[x][h]
    BY <1>2, <2>3 DEF Below
  <2>5. ASSUME NEW y \in D, m[y] < m[x] PROVE g[y] = h[y]
    <3>1. m[y] \in Nat /\ m[y] < n /\ ~(i <= m[y])
      BY <2>3, <2>4, <2>5
    <3>2. m[y] \notin U
      BY <2>2, <3>1
    <3> QED BY <3>1, <3>2
  <2>6. Fn[x][g] = Fn[x][h]
    BY <1>0, <2>4, <2>5
  <2> QED BY <2>3, <2>4, <2>6
<1> DEFINE a(n) == CHOOSE g : P(n, g)
           f == [x \in D |-> a(m[x] + 1)[x]]
<1>3. \A n \in Nat : P(n, a(n))
  BY <1>1
<1> HIDE DEF P
<1>4. \A x \in D : m[x] + 1 \in Nat /\ m[x] < m[x] + 1 /\ P(m[x] + 1, a(m[x] + 1))
  BY <1>3
<1> HIDE DEF a
<1>5. \A n \in Nat : a(n) \in [D -> V]
  BY <1>3 DEF P, Below
<1>6. f \in [D -> V] /\ \A x \in D : f[x] = a(m[x] + 1)[x]
  BY <1>4, <1>5
<1> HIDE DEF f
<1>7. ASSUME NEW x \in D PROVE f[x] = Fn[x][f]
  <2> DEFINE g == a(m[x] + 1)
  <2>1. g \in [D -> V] /\ g[x] = Fn[x][g] /\ P(m[x] + 1, g)
    BY <1>4, <1>5 DEF P, Below
  <2>2. ASSUME NEW y \in D, m[y] < m[x] PROVE f[y] = g[y]
    <3>1. m[y] \in Nat /\ m[x] \in Nat /\ m[y] + 1 <= m[x] + 1 /\ m[y] + 1 \in Nat /\ m[x] + 1 \in Nat
      BY <2>2
    <3>2. a(m[y] + 1)[y] = g[y]
      BY <1>2, <1>4, <2>1, <3>1
    <3> QED BY <1>6, <3>2
  <2> HIDE DEF g
  <2>3. Fn[x][f] = Fn[x][g]
    BY <1>0, <1>6, <2>1, <2>2
  <2> QED BY <1>6, <2>1, <2>3 DEF g
<1> QED BY <1>6, <1>7 DEF Solves

\* It is the only one: a solution among W, which holds more than the typed
\* functions, is that one.
LEMMA Recursive ==
  ASSUME NEW D, NEW V, NEW v \in V, NEW m \in [D -> Nat], NEW W, [D -> V] \subseteq W,
         NEW Fn, TypedIn(Fn, D, V), RestsBelow(Fn, D, m, W)
  PROVE  \E g \in [D -> V] : Solves(g, Fn, D) /\ OnlyOne(g, Fn, D, W)
<1> DEFINE E == [x \in D |-> [g \in [D -> V] |-> Fn[x][g]]]
<1>0. E \in [D -> [[D -> V] -> V]]
  BY DEF TypedIn
<1>1. \A x \in D : \A g \in [D -> V] : E[x][g] = Fn[x][g]
  OBVIOUS
<1>11. \A x \in D : \A g, h \in W :
        (\A y \in D : m[y] < m[x] => g[y] = h[y]) => Fn[x][g] = Fn[x][h]
  BY DEF RestsBelow
<1>2. \A x \in D : \A g, h \in [D -> V] :
        (\A y \in D : m[y] < m[x] => g[y] = h[y]) => E[x][g] = E[x][h]
  BY <1>1, <1>11
<1> HIDE DEF E
<1>21. RestsBelow(E, D, m, [D -> V])
  BY <1>2 DEF RestsBelow
<1>3. PICK g \in [D -> V] : Solves(g, E, D)
  BY <1>0, <1>21, Solved
<1>4. g \in W /\ \A x \in D : g[x] = Fn[x][g]
  BY <1>1, <1>3 DEF Solves
<1>5. ASSUME NEW h \in W, \A x \in D : h[x] = Fn[x][h] PROVE \A x \in D : h[x] = g[x]
  <2> DEFINE G == {x \in D : h[x] = g[x]}
  <2>1. ASSUME NEW x \in D, \A y \in D : m[y] < m[x] => y \in G PROVE x \in G
    <3>1. \A y \in D : m[y] < m[x] => h[y] = g[y]
      BY <2>1
    <3>2. Fn[x][h] = Fn[x][g]
      BY <1>4, <1>11, <3>1
    <3> QED BY <1>4, <1>5, <3>2
  <2>2. D \subseteq G
    <3> HIDE DEF G
    <3> QED BY <2>1, ByMeasure
  <2> QED BY <2>2
<1> QED BY <1>4, <1>5 DEF Solves, OnlyOne

ChosenFrom(Rec, Fn, D, V) == \A g \in [D -> V] : Solves(g, Fn, D) => Rec = [x \in D |-> Fn[x][Rec]]

\* So a function that a definition chooses as a solution is the typed one.
Chooses(Rec, Fn, D, V, m) ==
  /\ m \in [D -> Nat] /\ \E v : v \in V
  /\ TypedIn(Fn, D, V) /\ RestsBelow(Fn, D, m, [D -> V] \cup {Rec}) /\ ChosenFrom(Rec, Fn, D, V)
LEMMA Chosen ==
  ASSUME NEW D, NEW V, NEW m, NEW Rec, NEW Fn, Chooses(Rec, Fn, D, V, m)
  PROVE  Rec \in [D -> V] /\ \A x \in D : Rec[x] = Fn[x][Rec]
<1>0. PICK v : v \in V
  BY DEF Chooses
<1>9. m \in [D -> Nat] /\ TypedIn(Fn, D, V) /\ ChosenFrom(Rec, Fn, D, V)
  BY DEF Chooses
<1> DEFINE W == [D -> V] \cup {Rec}
<1>1. [D -> V] \subseteq W /\ Rec \in W
  OBVIOUS
<1>2. RestsBelow(Fn, D, m, W)
  BY DEF Chooses
<1> HIDE DEF W
<1>3. PICK g \in [D -> V] : Solves(g, Fn, D) /\ OnlyOne(g, Fn, D, W)
  <2>1. [D -> V] \subseteq W
    BY <1>1
  <2>2. TypedIn(Fn, D, V) /\ v \in V /\ m \in [D -> Nat]
    BY <1>0, <1>9
  <2>3. \E g \in [D -> V] : Solves(g, Fn, D) /\ OnlyOne(g, Fn, D, W)
    BY <1>2, <2>1, <2>2, Recursive
  <2> QED BY <2>3
<1>4. Rec = [x \in D |-> Fn[x][Rec]]
  BY <1>3, <1>9 DEF ChosenFrom
<1>5. \A x \in D : Rec[x] = Fn[x][Rec]
  BY <1>4
<1>6. \A x \in D : Rec[x] = g[x]
  BY <1>1, <1>3, <1>5 DEF Solves, OnlyOne
<1>7. Rec = [x \in D |-> Rec[x]]
  BY <1>4
<1> QED BY <1>3, <1>5, <1>6, <1>7

Bits == Seq({0, 1})
(***************************************************************************)
(* Bit stuffing.                                                           *)
(***************************************************************************)
AirAt(a, air) ==
  LET s == a[1]  ones == a[2]
  IN IF s = <<>> THEN <<>>
     ELSE IF s[1] = 0 THEN <<0>> \o air[<<Tail(s), 0>>]
     ELSE IF ones = 4 THEN <<1, 0>> \o air[<<Tail(s), 0>>]
     ELSE <<1>> \o air[<<Tail(s), ones + 1>>]
Air == CHOOSE air : air = [a \in S!Bytes \X (0 .. 4) |-> AirAt(a, air)]

\* Stuff is the recursive function Air, taken from the first bit on.
LEMMA AirIs == \A bits : S!Stuff(bits) = Air[<<bits, 0>>]
  BY Zenon DEF S!Stuff, Air, AirAt

\* The tail of a sequence that is not empty is one shorter.
LEMMA Tails ==
  ASSUME NEW X, NEW s \in Seq(X), s # <<>>
  PROVE  /\ Tail(s) \in Seq(X) /\ Len(Tail(s)) = Len(s) - 1 /\ Len(s) \in Nat \ {0} /\ s[1] \in X
         /\ s = <<s[1]>> \o Tail(s)
<1>1. Len(s) \in Nat \ {0} /\ Tail(s) \in Seq(X) /\ Len(Tail(s)) = Len(s) - 1 
  BY EmptySeq, HeadTailProperties
<1>2. s[1] \in X
  BY <1>1, ElementOfSeq
<1>3. s = <<s[1]>> \o Tail(s)
  <2>1. SubSeq(s, 1, Len(s)) = s
    BY SubSeqFull
  <2>2. SubSeq(s, 1, Len(s)) = <<s[1]>> \o SubSeq(s, 2, Len(s))
    <3>1. 1 \in 1 .. Len(s) /\ Len(s) \in 1 .. Len(s)
      BY <1>1
    <3>2. SubSeq(s, 1, Len(s)) = <<s[1]>> \o SubSeq(s, 1 + 1, Len(s))
      BY <3>1, SubSeqRecursiveFirst
    <3> QED BY <3>2
  <2> QED BY <2>1, <2>2, TailIsSubSeq
<1> QED BY <1>1, <1>2, <1>3

\* Putting something before a sequence, element by element.
LEMMA Puttings ==
  ASSUME NEW X, NEW x \in X, NEW y \in X, NEW s \in Seq(X)
  PROVE  /\ <<x>> \o s \in Seq(X) /\ <<x, y>> \o s \in Seq(X)
         /\ <<x>> \o s # <<>> /\ (<<x>> \o s)[1] = x /\ Tail(<<x>> \o s) = s
         /\ <<x, y>> \o s = <<x>> \o (<<y>> \o s)
<1>1. <<x>> \in Seq(X) /\ <<y>> \in Seq(X) /\ <<x, y>> \in Seq(X) /\ Len(<<x>>) = 1 /\ Len(s) \in Nat
  OBVIOUS
<1>2. <<x>> \o s \in Seq(X) /\ <<x, y>> \o s \in Seq(X)
  BY <1>1, ConcatProperties
<1>3. Len(<<x>> \o s) = 1 + Len(s) /\ \A i \in 1 .. 1 + Len(s) : (<<x>> \o s)[i] = IF i <= 1 THEN <<x>>[i] ELSE s[i - 1]
  BY <1>1, ConcatProperties
<1>4. <<x>> \o s # <<>>
  BY <1>1, <1>3
<1>5. Tail(<<x>> \o s) \in Seq(X) /\ Len(Tail(<<x>> \o s)) = Len(s)
      /\ \A i \in 1 .. Len(s) : Tail(<<x>> \o s)[i] = s[i]
  BY <1>1, <1>2, <1>3, <1>4, HeadTailProperties
<1>6. Tail(<<x>> \o s) = s
  BY <1>5, SeqEqual
<1>7. <<x, y>> \o s = <<x>> \o (<<y>> \o s)
  <2>1. <<x, y>> = <<x>> \o <<y>>
    <3>1. /\ <<x>> \o <<y>> \in Seq(X) /\ Len(<<x>> \o <<y>>) = 2
          /\ (<<x>> \o <<y>>)[1] = x /\ (<<x>> \o <<y>>)[2] = y
      <4>1. Len(<<y>>) = 1 /\ <<x>>[1] = x /\ <<y>>[1] = y
        OBVIOUS
      <4> QED BY <1>1, <4>1, ConcatProperties
    <3>2. Len(<<x, y>>) = 2 /\ <<x, y>>[1] = x /\ <<x, y>>[2] = y
      OBVIOUS
    <3>3. \A i \in 1 .. 2 : <<x, y>>[i] = (<<x>> \o <<y>>)[i]
      BY <3>1, <3>2
    <3> QED BY <1>1, <3>1, <3>2, <3>3, SeqEqual
  <2>2. (<<x>> \o <<y>>) \o s = <<x>> \o (<<y>> \o s)
    BY <1>1, ConcatAssociative
  <2> QED BY <2>1, <2>2
<1>8. (<<x>> \o s)[1] = x
  <2>1. <<x>>[1] = x /\ 1 \in 1 .. 1 + Len(s)
    BY <1>1
  <2> QED BY <1>3, <2>1
<1> QED BY <1>2, <1>4, <1>6, <1>7, <1>8

\* A bit taken off, what is left is shorter.
Ahead(K) == [a \in S!Bytes \X K |-> Len(a[1])]

\* What is left to stuff or unstuff after a bit is less.
LEMMA AheadIsLess ==
  ASSUME NEW K
  PROVE  /\ Ahead(K) \in [S!Bytes \X K -> Nat]
         /\ \A a \in S!Bytes \X K : a[1] # <<>> =>
              \A k \in K : <<Tail(a[1]), k>> \in S!Bytes \X K /\ Ahead(K)[<<Tail(a[1]), k>>] < Ahead(K)[a]
<1> DEFINE D == S!Bytes \X K
           m == Ahead(K)
<1>1. m \in [D -> Nat] /\ \A a \in D : m[a] = Len(a[1])
  BY DEF S!Bytes, Ahead
<1> HIDE DEF m
<1>2. ASSUME NEW a \in D, a[1] # <<>>, NEW k \in K
      PROVE  <<Tail(a[1]), k>> \in D /\ m[<<Tail(a[1]), k>>] < m[a]
  <2>1. a[1] \in Seq(0 .. 255)
    BY DEF S!Bytes
  <2>2. Tail(a[1]) \in Seq(0 .. 255) /\ Len(Tail(a[1])) = Len(a[1]) - 1 /\ Len(a[1]) \in Nat
    BY <1>2, <2>1, Tails
  <2>3. <<Tail(a[1]), k>> \in D /\ <<Tail(a[1]), k>>[1] = Tail(a[1])
    BY <2>2 DEF S!Bytes
  <2> HIDE DEF D
  <2>4. m[a] = Len(Tail(a[1])) + 1 /\ Len(Tail(a[1])) \in Nat
    BY <1>1, <2>2
  <2>5. m[<<Tail(a[1]), k>>] = Len(Tail(a[1]))
    BY <1>1, <2>3
  <2> QED BY <2>3, <2>4, <2>5
<1> QED BY <1>1, <1>2 DEF m

\* Air is defined on every sequence of bytes, and satisfies its equation.
LEMMA Airs ==
  /\ Air \in [S!Bytes \X (0 .. 4) -> S!Bytes]
  /\ \A a \in S!Bytes \X (0 .. 4) : Air[a] = AirAt(a, Air)
<1> DEFINE D == S!Bytes \X (0 .. 4)
           V == S!Bytes
           m == Ahead((0 .. 4))
           W == [D -> V] \cup {Air}
           Fn == [a \in D |-> [g \in W |-> AirAt(a, g)]]
<1>1. <<>> \in V /\ \A a \in D : \A g \in W : Fn[a][g] = AirAt(a, g)
  BY DEF S!Bytes
<1>2. /\ m \in [D -> Nat]
      /\ \A a \in D : a[1] # <<>> =>
           \A k \in (0 .. 4) : <<Tail(a[1]), k>> \in D /\ m[<<Tail(a[1]), k>>] < m[a]
  BY AheadIsLess
<1> HIDE DEF m, Fn
<1>3. ASSUME NEW a \in D PROVE a[2] \in 0 .. 4 /\ (a[2] # 4 => a[2] + 1 \in 0 .. 4) /\ 0 \in 0 .. 4
  OBVIOUS
<1>4. ASSUME NEW a \in D, NEW g \in [D -> V] PROVE Fn[a][g] \in V
  <2>1. a[1] # <<>> => \A k \in (0 .. 4) : g[<<Tail(a[1]), k>>] \in Seq(0 .. 255)
    BY <1>2 DEF S!Bytes
  <2>2. \A q \in Seq(0 .. 255) : <<0>> \o q \in Seq(0 .. 255) /\ <<1>> \o q \in Seq(0 .. 255) /\ <<1, 0>> \o q \in Seq(0 .. 255)
    BY Puttings
  <2>3. AirAt(a, g) \in V
    <3> DEFINE B == Seq(0 .. 255)
    <3>1. <<>> \in B /\ V = B
      BY DEF S!Bytes
    <3>2. a[1] # <<>> => /\ g[<<Tail(a[1]), 0>>] \in B
                         /\ a[2] # 4 => g[<<Tail(a[1]), a[2] + 1>>] \in B
      BY <1>3, <2>1
    <3>3. a[1] # <<>> => /\ <<0>> \o g[<<Tail(a[1]), 0>>] \in B /\ <<1, 0>> \o g[<<Tail(a[1]), 0>>] \in B
                         /\ a[2] # 4 => <<1>> \o g[<<Tail(a[1]), a[2] + 1>>] \in B
      BY <2>2, <3>2
    <3> HIDE DEF B, D, V
    <3> QED BY <3>1, <3>3 DEF AirAt
  <2> QED BY <1>1, <2>3
<1>5. ASSUME NEW a \in D, NEW g, NEW h, \A b \in D : m[b] < m[a] => g[b] = h[b]
      PROVE  AirAt(a, g) = AirAt(a, h)
  <2>1. a[1] # <<>> => \A k \in (0 .. 4) : g[<<Tail(a[1]), k>>] = h[<<Tail(a[1]), k>>]
    BY <1>2, <1>5
  <2> QED BY <1>3, <2>1 DEF AirAt
<1>6. RestsBelow(Fn, D, m, W)
  <2> HIDE DEF D, V, W
  <2> QED BY <1>1, <1>5 DEF RestsBelow
<1>7. ASSUME NEW g \in [D -> V], Solves(g, Fn, D) PROVE Air = [a \in D |-> Fn[a][Air]]
  <2>1. g = [a \in D |-> AirAt(a, g)]
    <3> HIDE DEF D
    <3> QED BY <1>1, <1>7 DEF Solves
  <2>2. Air = [a \in D |-> AirAt(a, Air)]
    BY <2>1, Zenon DEF Air
  <2> HIDE DEF D
  <2> QED BY <1>1, <2>2
<1>8. Air \in [D -> V] /\ \A a \in D : Air[a] = Fn[a][Air]
  <2>1. m \in [D -> Nat] /\ <<>> \in V
    BY <1>1, <1>2
  <2>2. RestsBelow(Fn, D, m, [D -> V] \cup {Air})
    BY <1>6
  <2>3. TypedIn(Fn, D, V) /\ ChosenFrom(Air, Fn, D, V)
    <3> HIDE DEF D, V
    <3> QED BY <1>4, <1>7 DEF TypedIn, ChosenFrom
  <2> HIDE DEF D, V, W
  <2>4. Chooses(Air, Fn, D, V, m)
    BY <2>1, <2>2, <2>3 DEF Chooses
  <2> QED BY <2>4, Chosen
<1> QED BY <1>1, <1>8

DataAt(a, data_) ==
  LET s == a[1]  ones == a[2]
  IN IF ones = 5
     THEN IF s = <<>> \/ s[1] # 0 THEN <<2>> ELSE data_[<<Tail(s), 0>>]
     ELSE IF s = <<>> THEN <<>>
     ELSE <<s[1]>> \o data_[<<Tail(s), IF s[1] = 1 THEN ones + 1 ELSE 0>>]
Data == CHOOSE d : d = [a \in S!Bytes \X (0 .. 5) |-> DataAt(a, d)]

\* Unstuff is the recursive function Data.
LEMMA DataIs == \A bits : S!Unstuff(bits) = Data[<<bits, 0>>]
  BY Zenon DEF S!Unstuff, Data, DataAt

\* Data is defined everywhere, and satisfies its equation.
LEMMA Datas ==
  /\ Data \in [S!Bytes \X (0 .. 5) -> S!Bytes]
  /\ \A a \in S!Bytes \X (0 .. 5) : Data[a] = DataAt(a, Data)
<1> DEFINE D == S!Bytes \X (0 .. 5)
           V == S!Bytes
           m == Ahead((0 .. 5))
           W == [D -> V] \cup {Data}
           Fn == [a \in D |-> [g \in W |-> DataAt(a, g)]]
<1>1. <<>> \in V /\ \A a \in D : \A g \in W : Fn[a][g] = DataAt(a, g)
  BY DEF S!Bytes
<1>2. /\ m \in [D -> Nat]
      /\ \A a \in D : a[1] # <<>> =>
           \A k \in (0 .. 5) : <<Tail(a[1]), k>> \in D /\ m[<<Tail(a[1]), k>>] < m[a]
  BY AheadIsLess
<1> HIDE DEF m, Fn
<1>3. ASSUME NEW a \in D PROVE a[2] \in 0 .. 5 /\ (a[2] # 5 => a[2] + 1 \in 0 .. 5) /\ 0 \in 0 .. 5
  OBVIOUS
<1>4. ASSUME NEW a \in D, NEW g \in [D -> V] PROVE Fn[a][g] \in V
  <2>1. a[1] # <<>> => \A k \in (0 .. 5) : g[<<Tail(a[1]), k>>] \in Seq(0 .. 255)
    BY <1>2 DEF S!Bytes
  <2>2. \A q \in Seq(0 .. 255) : a[1] # <<>> => <<a[1][1]>> \o q \in Seq(0 .. 255)
    <3>1. a[1] \in Seq(0 .. 255)
      BY DEF S!Bytes
    <3>2. a[1] # <<>> => a[1][1] \in 0 .. 255
      <4> DEFINE X == 0 .. 255
      <4>1. PICK s : s = a[1] /\ s \in Seq(X)
        BY <3>1
      <4> HIDE DEF X
      <4>2. s # <<>> => s[1] \in X
        BY <4>1, Tails
      <4> QED BY <4>1, <4>2 DEF X
    <3> QED BY <3>2, Puttings
  <2>3. DataAt(a, g) \in V
    <3>1. a[1] # <<>> => /\ g[<<Tail(a[1]), 0>>] \in Seq(0 .. 255)
                         /\ a[2] # 5 => g[<<Tail(a[1]), a[2] + 1>>] \in Seq(0 .. 255)
      BY <1>3, <2>1
    <3>2. <<2>> \in Seq(0 .. 255) /\ <<>> \in Seq(0 .. 255)
      OBVIOUS
    <3>3. CASE a[2] = 5
      BY <3>1, <3>2, <3>3 DEF DataAt, S!Bytes
    <3>4. CASE a[2] # 5
      BY <2>2, <3>1, <3>2, <3>4 DEF DataAt, S!Bytes
    <3> QED BY <3>3, <3>4
  <2> QED BY <1>1, <2>3
<1>5. ASSUME NEW a \in D, NEW g, NEW h, \A b \in D : m[b] < m[a] => g[b] = h[b]
      PROVE  DataAt(a, g) = DataAt(a, h)
  <2>1. a[1] # <<>> => \A k \in (0 .. 5) : g[<<Tail(a[1]), k>>] = h[<<Tail(a[1]), k>>]
    BY <1>2, <1>5
  <2> QED BY <1>3, <2>1 DEF DataAt
<1>6. RestsBelow(Fn, D, m, W)
  <2> HIDE DEF D, V, W
  <2> QED BY <1>1, <1>5 DEF RestsBelow
<1>7. ASSUME NEW g \in [D -> V], Solves(g, Fn, D) PROVE Data = [a \in D |-> Fn[a][Data]]
  <2>1. g = [a \in D |-> DataAt(a, g)]
    <3> HIDE DEF D
    <3> QED BY <1>1, <1>7 DEF Solves
  <2>2. Data = [a \in D |-> DataAt(a, Data)]
    BY <2>1, Zenon DEF Data
  <2> HIDE DEF D
  <2> QED BY <1>1, <2>2
<1>8. Data \in [D -> V] /\ \A a \in D : Data[a] = Fn[a][Data]
  <2>1. m \in [D -> Nat] /\ <<>> \in V
    BY <1>1, <1>2
  <2>2. RestsBelow(Fn, D, m, [D -> V] \cup {Data})
    BY <1>6
  <2>3. TypedIn(Fn, D, V) /\ ChosenFrom(Data, Fn, D, V)
    <3> HIDE DEF D, V
    <3> QED BY <1>4, <1>7 DEF TypedIn, ChosenFrom
  <2> HIDE DEF D, V, W
  <2>4. Chooses(Data, Fn, D, V, m)
    BY <2>1, <2>2, <2>3 DEF Chooses
  <2> QED BY <2>4, Chosen
<1> QED BY <1>1, <1>8

\* Unstuffing undoes stuffing from any number of ones on.
LEMMA DataOfAir ==
  \A a \in Bits \X (0 .. 4) : Air[a] \in S!Bytes /\ Data[<<Air[a], a[2]>>] = a[1]
<1> DEFINE D == Bits \X (0 .. 4)
           m == [a \in D |-> Len(a[1])]
           G == {a \in D : Data[<<Air[a], a[2]>>] = a[1]}
<1>1. D \subseteq S!Bytes \X (0 .. 4)
  <2>1. \A s \in Bits : s \in S!Bytes
    <3>1. {0, 1} \subseteq 0 .. 255
      OBVIOUS
    <3> QED BY <3>1, SeqMonotonic DEF Bits, S!Bytes
  <2> QED BY <2>1
<1>2. \A a \in D : Air[a] \in S!Bytes /\ Air[a] = AirAt(a, Air)
  BY <1>1, Airs
<1>3. \A q \in S!Bytes : \A k \in 0 .. 5 : Data[<<q, k>>] = DataAt(<<q, k>>, Data)
  BY Datas
<1>4. ASSUME NEW a \in D, \A b \in D : m[b] < m[a] => b \in G PROVE a \in G
  <2> DEFINE s == a[1]
             k == a[2]
  <2>1. s \in Bits /\ k \in 0 .. 4 /\ k \in 0 .. 5 /\ a = <<s, k>>
    OBVIOUS
  <2>2. Air[a] = AirAt(a, Air) /\ Air[a] \in S!Bytes
    BY <1>2
  <2>3. CASE s = <<>>
    <3>1. Air[a] = <<>>
      BY <2>2, <2>3 DEF AirAt
    <3>2. Data[<<Air[a], k>>] = DataAt(<<<<>>, k>>, Data)
      <4> HIDE DEF k, D
      <4>1. <<>> \in S!Bytes
        BY <2>2, <3>1
      <4> QED BY <1>3, <2>1, <3>1, <4>1
    <3>3. DataAt(<<<<>>, k>>, Data) = <<>>
      BY <2>1 DEF DataAt
    <3> QED BY <2>3, <3>2, <3>3
  <2>4. CASE s # <<>>
    <3>1. /\ Tail(s) \in Bits /\ Len(Tail(s)) = Len(s) - 1 /\ Len(s) \in Nat \ {0}
          /\ s[1] \in {0, 1} /\ s = <<s[1]>> \o Tail(s)
      BY <2>1, <2>4, Tails DEF Bits
    <3> DEFINE q(j) == Air[<<Tail(s), j>>]
    <3>2. ASSUME NEW j \in 0 .. 4 PROVE q(j) \in S!Bytes /\ Data[<<q(j), j>>] = Tail(s)
      <4>1. <<Tail(s), j>> \in D /\ <<Tail(s), j>>[1] = Tail(s) /\ <<Tail(s), j>>[2] = j
        BY <3>1
      <4>2. m[<<Tail(s), j>>] = Len(Tail(s)) /\ m[a] = Len(s)
        BY <4>1
      <4>3. m[<<Tail(s), j>>] < m[a]
        <5> HIDE DEF m, s
        <5> QED BY <3>1, <4>2
      <4>4. <<Tail(s), j>> \in G
        <5> HIDE DEF m, G, D
        <5> QED BY <1>4, <4>1, <4>3
      <4> QED BY <1>2, <4>1, <4>4
    <3> HIDE DEF q
    <3>3. ASSUME NEW x \in {0, 1}, NEW r \in S!Bytes
          PROVE  /\ <<x>> \o r \in S!Bytes /\ <<x>> \o r # <<>>
                 /\ (<<x>> \o r)[1] = x /\ Tail(<<x>> \o r) = r
      BY Puttings DEF S!Bytes
    <3>4. ASSUME NEW x \in {0, 1}, NEW r \in S!Bytes, NEW j \in 0 .. 5
          PROVE  Data[<<<<x>> \o r, j>>] =
                   IF j = 5 THEN IF x # 0 THEN <<2>> ELSE Data[<<r, 0>>]
                   ELSE <<x>> \o Data[<<r, IF x = 1 THEN j + 1 ELSE 0>>]
      <4> DEFINE p == <<x>> \o r
      <4>1. p \in S!Bytes /\ p # <<>> /\ p[1] = x /\ Tail(p) = r
        BY <3>3
      <4> HIDE DEF p, D
      <4>2. Data[<<p, j>>] = DataAt(<<p, j>>, Data)
        BY <1>3, <4>1
      <4>3. DataAt(<<p, j>>, Data) = IF j = 5 THEN IF p[1] # 0 THEN <<2>> ELSE Data[<<Tail(p), 0>>]
                                     ELSE <<p[1]>> \o Data[<<Tail(p), IF p[1] = 1 THEN j + 1 ELSE 0>>]
        BY <4>1 DEF DataAt
      <4> QED BY <4>1, <4>2, <4>3 DEF p
    <3>5. ASSUME NEW r \in S!Bytes
          PROVE  /\ \A j \in 0 .. 4 : /\ Data[<<<<0>> \o r, j>>] = <<0>> \o Data[<<r, 0>>]
                                      /\ Data[<<<<1>> \o r, j>>] = <<1>> \o Data[<<r, j + 1>>]
                 /\ Data[<<<<0>> \o r, 5>>] = Data[<<r, 0>>]
      <4>1. ASSUME NEW j \in 0 .. 4
            PROVE  /\ Data[<<<<0>> \o r, j>>] = <<0>> \o Data[<<r, 0>>]
                   /\ Data[<<<<1>> \o r, j>>] = <<1>> \o Data[<<r, j + 1>>]
        <5>1. j \in 0 .. 5 /\ j # 5 /\ 0 \in {0, 1} /\ 1 \in {0, 1}
          OBVIOUS
        <5>2. Data[<<<<0>> \o r, j>>] = <<0>> \o Data[<<r, IF 0 = 1 THEN j + 1 ELSE 0>>]
          BY <3>4, <5>1
        <5>3. Data[<<<<1>> \o r, j>>] = <<1>> \o Data[<<r, IF 1 = 1 THEN j + 1 ELSE 0>>]
          BY <3>4, <5>1
        <5> QED BY <5>2, <5>3
      <4>2. Data[<<<<0>> \o r, 5>>] = Data[<<r, 0>>]
        <5>1. 5 \in 0 .. 5 /\ 0 \in {0, 1}
          OBVIOUS
        <5>2. Data[<<<<0>> \o r, 5>>] = IF 5 = 5 THEN IF 0 # 0 THEN <<2>> ELSE Data[<<r, 0>>]
                                        ELSE <<0>> \o Data[<<r, IF 0 = 1 THEN 5 + 1 ELSE 0>>]
          BY <3>4, <5>1
        <5> QED BY <5>2
      <4> QED BY <4>1, <4>2
    <3> HIDE DEF s, k, D, m, G
    <3>23. 0 \in 0 .. 4 /\ 4 \in 0 .. 4
      OBVIOUS
    <3>20. q(0) \in S!Bytes
      BY <3>2, <3>23
    <3>21. Data[<<q(0), 0>>] = Tail(s)
      BY <3>2, <3>23
    <3>6. ASSUME s[1] = 0 PROVE Data[<<Air[a], k>>] = s
      <4>1. Air[a] = <<0>> \o q(0)
        BY <2>1, <2>2, <2>4, <3>6 DEF AirAt, q, s, k
      <4>2. Data[<<Air[a], k>>] = <<0>> \o Data[<<q(0), 0>>]
        BY <2>1, <3>20, <3>5, <4>1
      <4> QED BY <3>1, <3>6, <3>21, <4>2
    <3>7. ASSUME s[1] = 1, k = 4 PROVE Data[<<Air[a], k>>] = s
      <4>1. Air[a] = <<1, 0>> \o q(0)
        BY <2>1, <2>2, <2>4, <3>7 DEF AirAt, q, s, k
      <4>2. Air[a] = <<1>> \o (<<0>> \o q(0)) /\ <<0>> \o q(0) \in S!Bytes
        <5>1. q(0) \in Seq(0 .. 255) /\ 0 \in 0 .. 255 /\ 1 \in 0 .. 255
          BY <3>2 DEF S!Bytes
        <5>2. <<0>> \o q(0) \in Seq(0 .. 255) /\ <<1, 0>> \o q(0) = <<1>> \o (<<0>> \o q(0))
          BY <5>1, Puttings
        <5> QED BY <4>1, <5>2 DEF S!Bytes
      <4>3. Data[<<Air[a], k>>] = <<1>> \o Data[<<<<0>> \o q(0), 5>>]
        <5>1. Data[<<<<1>> \o (<<0>> \o q(0)), 4>>] = <<1>> \o Data[<<<<0>> \o q(0), 4 + 1>>]
          BY <3>5, <3>23, <4>2
        <5> QED BY <3>7, <4>2, <5>1
      <4>4. Data[<<<<0>> \o q(0), 5>>] = Tail(s)
        BY <3>5, <3>20, <3>21
      <4> QED BY <3>1, <3>7, <4>3, <4>4
    <3>8. ASSUME s[1] = 1, k # 4 PROVE Data[<<Air[a], k>>] = s
      <4>1. Air[a] = <<1>> \o q(k + 1) /\ k + 1 \in 0 .. 4
        BY <2>1, <2>2, <2>4, <3>8 DEF AirAt, q, s, k
      <4>2. Data[<<Air[a], k>>] = <<1>> \o Data[<<q(k + 1), k + 1>>]
        BY <2>1, <3>2, <3>5, <4>1
      <4> QED BY <3>1, <3>2, <3>8, <4>1, <4>2
    <3> QED BY <3>1, <3>6, <3>7, <3>8 DEF G, s, k
  <2> QED BY <2>3, <2>4
<1>5. m \in [D -> Nat]
  BY DEF Bits
<1>6. D \subseteq G
  <2> HIDE DEF D, m, G
  <2> QED BY <1>4, <1>5, ByMeasure
<1> QED BY <1>2, <1>6

\* Whatever bits are stuffed, unstuffing gives them back: a zero that was put in
\* is taken out, and no zero of the frame is (hdlc.py: bit_stuff, bit_unstuff).
THEOREM StuffingUndone == \A bits \in Bits : S!Unstuff(S!Stuff(bits)) = bits
<1>1. ASSUME NEW bits \in Bits PROVE S!Unstuff(S!Stuff(bits)) = bits
  <2>1. <<bits, 0>> \in Bits \X (0 .. 4) /\ <<bits, 0>>[1] = bits /\ <<bits, 0>>[2] = 0
    OBVIOUS
  <2>2. Data[<<Air[<<bits, 0>>], 0>>] = bits
    BY <2>1, DataOfAir
  <2> QED BY <2>2, AirIs, DataIs
<1> QED BY <1>1

\* Of a + 1 bits one is a zero: what follows k ones has no more than 5 - k at
\* its beginning, and no six ones in a row.
Broken(q, k) ==
  /\ Len(q) >= 6 - k => \E j \in 1 .. 6 - k : q[j] = 0
  /\ \A i \in 1 .. Len(q) - 5 : \E j \in i .. i + 5 : q[j] = 0

\* A zero begins the count of ones anew.
LEMMA BrokenByZero ==
  ASSUME NEW q \in S!Bytes, NEW k \in 0 .. 4, Broken(q, 0)
  PROVE  Broken(<<0>> \o q, k)
<1> DEFINE p == <<0>> \o q
<1>1. Len(p) = Len(q) + 1 /\ p[1] = 0 /\ Len(q) \in Nat /\ \A i \in 1 .. Len(q) : p[i + 1] = q[i]
  <2>1. <<0>> \in Seq(0 .. 255) /\ q \in Seq(0 .. 255) /\ Len(<<0>>) = 1 /\ <<0>>[1] = 0
    BY DEF S!Bytes
  <2>2. Len(q) \in Nat /\ Len(p) = Len(<<0>>) + Len(q)
        /\ \A i \in 1 .. Len(<<0>>) + Len(q) : p[i] = IF i <= Len(<<0>>) THEN <<0>>[i] ELSE q[i - Len(<<0>>)]
    BY <2>1, ConcatProperties, LenProperties
  <2> HIDE DEF p
  <2>3. Len(p) = Len(q) + 1 /\ \A i \in 1 .. 1 + Len(q) : p[i] = IF i <= 1 THEN <<0>>[i] ELSE q[i - 1]
    BY <2>1, <2>2
  <2>4. ASSUME NEW i \in 1 .. Len(q) PROVE p[i + 1] = q[i]
    <3>1. i + 1 \in 1 .. 1 + Len(q) /\ ~(i + 1 <= 1) /\ i + 1 - 1 = i
      BY <2>2
    <3> QED BY <2>3, <3>1
  <2>5. p[1] = 0
    BY <2>1, <2>2, <2>3
  <2> QED BY <2>2, <2>3, <2>4, <2>5
<1> HIDE DEF p
<1>2. ASSUME NEW i \in 1 .. Len(p) - 5 PROVE \E j \in i .. i + 5 : p[j] = 0
  <2>1. CASE i = 1
    BY <1>1, <2>1
  <2>2. CASE i # 1
    <3>1. i - 1 \in 1 .. Len(q) - 5
      BY <1>1, <2>2
    <3>2. PICK j \in i - 1 .. i - 1 + 5 : q[j] = 0
      BY <3>1 DEF Broken
    <3>3. j \in 1 .. Len(q) /\ j + 1 \in i .. i + 5
      BY <1>1, <3>1
    <3> QED BY <1>1, <3>2, <3>3
  <2> QED BY <2>1, <2>2
<1>3. 1 \in 1 .. 6 - k
  OBVIOUS
<1> QED BY <1>1, <1>2, <1>3 DEF Broken, p

\* A one adds to the count, which the zero put in keeps below five.
LEMMA BrokenByOne ==
  ASSUME NEW q \in S!Bytes, NEW k \in 0 .. 4, Broken(q, k + 1)
  PROVE  Broken(<<1>> \o q, k)
<1> DEFINE p == <<1>> \o q
<1>1. Len(p) = Len(q) + 1 /\ Len(q) \in Nat /\ \A i \in 1 .. Len(q) : p[i + 1] = q[i]
  <2>1. <<1>> \in Seq(0 .. 255) /\ q \in Seq(0 .. 255) /\ Len(<<1>>) = 1
    BY DEF S!Bytes
  <2>2. Len(q) \in Nat /\ Len(p) = Len(<<1>>) + Len(q)
        /\ \A i \in 1 .. Len(<<1>>) + Len(q) : p[i] = IF i <= Len(<<1>>) THEN <<1>>[i] ELSE q[i - Len(<<1>>)]
    BY <2>1, ConcatProperties, LenProperties
  <2> HIDE DEF p
  <2>3. Len(p) = Len(q) + 1 /\ \A i \in 1 .. 1 + Len(q) : p[i] = IF i <= 1 THEN <<1>>[i] ELSE q[i - 1]
    BY <2>1, <2>2
  <2>4. ASSUME NEW i \in 1 .. Len(q) PROVE p[i + 1] = q[i]
    <3>1. i + 1 \in 1 .. 1 + Len(q) /\ ~(i + 1 <= 1) /\ i + 1 - 1 = i
      BY <2>2
    <3> QED BY <2>3, <3>1
  <2> QED BY <2>2, <2>3, <2>4
<1> HIDE DEF p
<1>2. ASSUME Len(p) >= 6 - k PROVE \E j \in 1 .. 6 - k : j # 1 /\ p[j] = 0
  <2>1. Len(q) >= 6 - (k + 1)
    BY <1>1, <1>2
  <2>2. PICK j \in 1 .. 6 - (k + 1) : q[j] = 0
    BY <2>1 DEF Broken
  <2>3. j \in 1 .. Len(q) /\ j + 1 \in 1 .. 6 - k /\ j + 1 # 1
    BY <1>1, <2>1
  <2> QED BY <1>1, <2>2, <2>3
<1>3. ASSUME NEW i \in 1 .. Len(p) - 5 PROVE \E j \in i .. i + 5 : p[j] = 0
  <2>1. CASE i = 1
    <3>1. Len(p) >= 6 - k
      BY <1>1
    <3>2. PICK j \in 1 .. 6 - k : p[j] = 0
      BY <1>2, <3>1
    <3>3. j \in i .. i + 5
      BY <2>1
    <3> QED BY <3>2, <3>3
  <2>2. CASE i # 1
    <3>1. i - 1 \in 1 .. Len(q) - 5
      BY <1>1, <2>2
    <3>2. PICK j \in i - 1 .. i - 1 + 5 : q[j] = 0
      BY <3>1 DEF Broken
    <3>3. j \in 1 .. Len(q) /\ j + 1 \in i .. i + 5
      BY <1>1, <3>1
    <3> QED BY <1>1, <3>2, <3>3
  <2> QED BY <2>1, <2>2
<1> QED BY <1>2, <1>3 DEF Broken, p

\* The zero put in after five ones ends them.
LEMMA BrokenSoon ==
  ASSUME NEW q \in S!Bytes, Broken(q, 0)
  PROVE  Broken(<<0>> \o q, 5)
<1>1. Broken(<<0>> \o q, 4)
  BY BrokenByZero
<1>2. <<0>> \o q # <<>> /\ (<<0>> \o q)[1] = 0
  BY Puttings DEF S!Bytes
<1> DEFINE p == <<0>> \o q
<1> HIDE DEF p
<1>3. \E j \in 1 .. 6 - 5 : p[j] = 0
  BY <1>2 DEF p
<1>4. Broken(p, 5)
  BY <1>1, <1>3 DEF Broken, p
<1> QED BY <1>4 DEF p

\* Nothing that is stuffed has six ones in a row.
LEMMA AirBroken == \A a \in S!Bytes \X (0 .. 4) : Broken(Air[a], a[2])
<1> DEFINE D == S!Bytes \X (0 .. 4)
           m == Ahead(0 .. 4)
           G == {a \in D : Broken(Air[a], a[2])}
<1>1. /\ m \in [D -> Nat]
      /\ \A a \in D : a[1] # <<>> =>
           \A k \in 0 .. 4 : <<Tail(a[1]), k>> \in D /\ m[<<Tail(a[1]), k>>] < m[a]
  BY AheadIsLess
<1>2. \A a \in D : Air[a] \in S!Bytes /\ Air[a] = AirAt(a, Air)
  BY Airs
<1> HIDE DEF m
<1>3. ASSUME NEW a \in D, \A b \in D : m[b] < m[a] => b \in G PROVE a \in G
  <2> DEFINE s == a[1]
             k == a[2]
             q(j) == Air[<<Tail(s), j>>]
  <2>1. k \in 0 .. 4 /\ 0 \in 0 .. 4
    OBVIOUS
  <2>2. Air[a] = AirAt(a, Air)
    BY <1>2
  <2>3. ASSUME s # <<>>, NEW j \in 0 .. 4 PROVE q(j) \in S!Bytes /\ Broken(q(j), j)
    <3>1. <<Tail(s), j>> \in D /\ <<Tail(s), j>> \in G /\ <<Tail(s), j>>[2] = j
      <4> HIDE DEF D, G
      <4> QED BY <1>1, <1>3, <2>3
    <3> QED BY <1>2, <3>1
  <2>4. CASE s = <<>>
    <3>1. Air[a] = <<>> /\ Len(<<>>) = 0
      BY <2>2, <2>4 DEF AirAt
    <3> QED BY <2>1, <3>1 DEF Broken
  <2>5. ASSUME s # <<>> PROVE Broken(Air[a], k)
    <3>1. q(0) \in S!Bytes /\ Broken(q(0), 0)
      BY <2>1, <2>3, <2>5
    <3>2. k # 4 => k + 1 \in 0 .. 4 /\ q(k + 1) \in S!Bytes /\ Broken(q(k + 1), k + 1)
      <4>1. k # 4 => k + 1 \in 0 .. 4
        BY <2>1
      <4> HIDE DEF k, q
      <4> QED BY <2>3, <2>5, <4>1
    <3>3. Air[a] = IF s[1] = 0 THEN <<0>> \o q(0) ELSE IF k = 4 THEN <<1, 0>> \o q(0) ELSE <<1>> \o q(k + 1)
      BY <2>2, <2>5 DEF AirAt
    <3> HIDE DEF s, k, q
    <3>4. CASE s[1] = 0
      BY <2>1, <3>1, <3>3, <3>4, BrokenByZero
    <3>5. CASE s[1] # 0 /\ k = 4
      <4>1. Broken(<<0>> \o q(0), 5)
        BY <3>1, BrokenSoon
      <4>2. <<0>> \o q(0) \in S!Bytes /\ <<1, 0>> \o q(0) = <<1>> \o (<<0>> \o q(0))
        <5>1. q(0) \in Seq(0 .. 255) /\ 0 \in 0 .. 255 /\ 1 \in 0 .. 255
          BY <3>1 DEF S!Bytes
        <5>2. <<0>> \o q(0) \in Seq(0 .. 255) /\ <<1, 0>> \o q(0) = <<1>> \o (<<0>> \o q(0))
          BY <5>1, Puttings
        <5> QED BY <5>2 DEF S!Bytes
      <4>3. Broken(<<0>> \o q(0), 4 + 1) /\ 4 \in 0 .. 4
        BY <4>1
      <4>4. Broken(<<1>> \o (<<0>> \o q(0)), 4)
        BY <4>2, <4>3, BrokenByOne
      <4> QED BY <3>3, <3>5, <4>2, <4>4
    <3>6. CASE s[1] # 0 /\ k # 4
      BY <2>1, <3>2, <3>3, <3>6, BrokenByOne
    <3> QED BY <3>4, <3>5, <3>6
  <2> QED BY <2>4, <2>5
<1>4. D \subseteq G
  <2> HIDE DEF D, G
  <2> QED BY <1>1, <1>3, ByMeasure
<1> QED BY <1>4

\* Stuff gives bits without six ones in a row.
LEMMA StuffedIsBroken ==
  ASSUME NEW bits \in S!Bytes
  PROVE  S!Stuff(bits) \in S!Bytes /\ Broken(S!Stuff(bits), 0)
<1>1. <<bits, 0>> \in S!Bytes \X (0 .. 4) /\ <<bits, 0>>[2] = 0
  OBVIOUS
<1>2. Air[<<bits, 0>>] \in S!Bytes /\ Broken(Air[<<bits, 0>>], 0)
  BY <1>1, AirBroken, Airs
<1> QED BY <1>2, AirIs

FlagAt(bits, i, from) ==
  IF i + 7 > Len(bits) THEN <<>>
  ELSE IF SubSeq(bits, i, i + 7) = S!FLAG THEN <<i>> \o from[i + 8]
  ELSE from[i + 1]
Flagged(bits) == CHOOSE f : f = [i \in 1 .. Len(bits) + 8 |-> FlagAt(bits, i, f)]

\* FlagsOf is the recursive function Flagged.
LEMMA FlaggedIs == \A bits : S!FlagsOf(bits) = Flagged(bits)[1]
  BY Zenon DEF S!FlagsOf, Flagged, FlagAt

\* Flagged is defined at every place, and satisfies its equation.
LEMMA FlaggedSolves ==
  ASSUME NEW bits, Len(bits) \in Nat
  PROVE  /\ Flagged(bits) \in [1 .. Len(bits) + 8 -> Seq(1 .. Len(bits))]
         /\ \A i \in 1 .. Len(bits) + 8 : Flagged(bits)[i] = FlagAt(bits, i, Flagged(bits))
<1> DEFINE n == Len(bits)
           Rec == Flagged(bits)
           D == 1 .. n + 8
           V == Seq(1 .. n)
           m == [i \in D |-> n + 9 - i]
           W == [D -> V] \cup {Rec}
           Fn == [i \in D |-> [g \in W |-> FlagAt(bits, i, g)]]
<1>1. <<>> \in V /\ \A i \in D : \A g \in W : Fn[i][g] = FlagAt(bits, i, g)
  OBVIOUS
<1>2. m \in [D -> Nat] /\ \A i \in D : m[i] = n + 9 - i
  OBVIOUS
<1>3. ASSUME NEW i \in D, ~(i + 7 > n)
      PROVE  i \in 1 .. n /\ i + 8 \in D /\ i + 1 \in D /\ m[i + 8] < m[i] /\ m[i + 1] < m[i]
  <2>1. i \in 1 .. n /\ i + 8 \in D /\ i + 1 \in D
    BY <1>3
  <2>2. m[i] = n + 9 - i /\ m[i + 8] = n + 9 - (i + 8) /\ m[i + 1] = n + 9 - (i + 1)
    <3> HIDE DEF D, m
    <3> QED BY <1>2, <2>1
  <2>3. i \in Nat /\ n \in Nat
    OBVIOUS
  <2> HIDE DEF m, D, n
  <2> QED BY <2>1, <2>2, <2>3
<1> HIDE DEF m, Fn
<1>4. ASSUME NEW i \in D, NEW g \in [D -> V] PROVE Fn[i][g] \in V
  <2>1. ~(i + 7 > n) => /\ i \in 1 .. n /\ g[i + 8] \in V /\ g[i + 1] \in V
                        /\ <<i>> \o g[i + 8] \in V
    <3> SUFFICES ASSUME ~(i + 7 > n) PROVE i \in 1 .. n /\ g[i + 8] \in V /\ g[i + 1] \in V /\ <<i>> \o g[i + 8] \in V
      OBVIOUS
    <3>1. i \in 1 .. n /\ i + 8 \in D /\ i + 1 \in D
      BY <1>3
    <3>2. g[i + 8] \in V /\ g[i + 1] \in V
      <4> HIDE DEF D, V
      <4> QED BY <3>1
    <3>3. <<i>> \o g[i + 8] \in V
      BY <3>1, <3>2, Puttings
    <3> QED BY <3>1, <3>2, <3>3
  <2>2. FlagAt(bits, i, g) \in V
    <3>1. <<>> \in V
      BY <1>1
    <3> HIDE DEF D, V
    <3> QED BY <2>1, <3>1 DEF FlagAt
  <2> QED BY <1>1, <2>2
<1>5. ASSUME NEW i \in D, NEW g, NEW h, \A j \in D : m[j] < m[i] => g[j] = h[j]
      PROVE  FlagAt(bits, i, g) = FlagAt(bits, i, h)
  <2>1. ~(i + 7 > n) => g[i + 8] = h[i + 8] /\ g[i + 1] = h[i + 1]
    BY <1>3, <1>5
  <2> QED BY <2>1 DEF FlagAt
<1>6. RestsBelow(Fn, D, m, W)
  <2> HIDE DEF D, V, W
  <2> QED BY <1>1, <1>5 DEF RestsBelow
<1>7. ASSUME NEW g \in [D -> V], Solves(g, Fn, D) PROVE Rec = [i \in D |-> Fn[i][Rec]]
  <2>1. g = [i \in D |-> FlagAt(bits, i, g)]
    <3> HIDE DEF D
    <3> QED BY <1>1, <1>7 DEF Solves
  <2>2. Rec = [i \in D |-> FlagAt(bits, i, Rec)]
    BY <2>1, Zenon DEF Flagged
  <2> HIDE DEF D
  <2> QED BY <1>1, <2>2
<1>8. Rec \in [D -> V] /\ \A i \in D : Rec[i] = Fn[i][Rec]
  <2>1. m \in [D -> Nat] /\ <<>> \in V
    BY <1>1, <1>2
  <2>2. RestsBelow(Fn, D, m, [D -> V] \cup {Rec})
    BY <1>6
  <2>3. TypedIn(Fn, D, V) /\ ChosenFrom(Rec, Fn, D, V)
    <3> HIDE DEF D, V, Rec
    <3> QED BY <1>4, <1>7 DEF TypedIn, ChosenFrom
  <2> HIDE DEF D, V, W, Rec
  <2>4. Chooses(Rec, Fn, D, V, m)
    BY <2>1, <2>2, <2>3 DEF Chooses
  <2> QED BY <2>4, Chosen
<1> QED BY <1>1, <1>8

\* A part of a sequence, element by element.
LEMMA Part ==
  ASSUME NEW X, NEW s \in Seq(X), NEW a \in 1 .. Len(s) + 1, NEW b \in a - 1 .. Len(s)
  PROVE  /\ SubSeq(s, a, b) \in Seq(X) /\ Len(SubSeq(s, a, b)) = b - a + 1
         /\ \A i \in 1 .. b - a + 1 : SubSeq(s, a, b)[i] = s[a + i - 1]
<1>1. Len(s) \in Nat
  BY LenProperties
<1>2. a \in Int /\ b \in Int
  BY <1>1
<1>3. \A i \in a .. b : s[i] \in X
  <2>1. ASSUME NEW i \in a .. b PROVE s[i] \in X
    <3>1. i \in 1 .. Len(s)
      BY <1>1
    <3> QED BY <3>1, ElementOfSeq
  <2> QED BY <2>1
<1>4. /\ SubSeq(s, a, b) \in Seq(X)
      /\ Len(SubSeq(s, a, b)) = IF a <= b THEN b - a + 1 ELSE 0
      /\ \A i \in 1 .. b - a + 1 : SubSeq(s, a, b)[i] = s[a + i - 1]
  BY <1>2, <1>3, SubSeqProperties
<1>5. a <= b \/ b - a + 1 = 0
  BY <1>1
<1> QED BY <1>4, <1>5

\* A part that agrees with a sequence element by element is that sequence.
LEMMA Middle ==
  ASSUME NEW X, NEW s \in Seq(X), NEW q \in Seq(X), NEW a \in 1 .. Len(s) + 1, NEW b \in a - 1 .. Len(s),
         b - a + 1 = Len(q), \A i \in 1 .. Len(q) : s[a + i - 1] = q[i]
  PROVE  SubSeq(s, a, b) = q
<1> DEFINE p == SubSeq(s, a, b)
<1>1. /\ p \in Seq(X) /\ Len(p) = b - a + 1
      /\ \A i \in 1 .. b - a + 1 : p[i] = s[a + i - 1]
  BY Part
<1> HIDE DEF p
<1>2. Len(p) = Len(q) /\ \A i \in 1 .. Len(p) : p[i] = q[i]
  BY <1>1
<1>3. p = q
  BY <1>1, <1>2, SeqEqual
<1> QED BY <1>3 DEF p

BitByBit(air, q) ==
  /\ air \in S!Bytes /\ Len(air) = Len(q) + 16 /\ Len(q) \in Nat
  /\ \A i \in 1 .. 8 : air[i] = S!FLAG[i]
  /\ \A i \in 1 .. Len(q) : air[i + 8] = q[i]
  /\ \A i \in 1 .. 8 : air[i + 8 + Len(q)] = S!FLAG[i]

\* What is on the air, bit by bit.
LEMMA OnAir ==
  ASSUME NEW q \in S!Bytes PROVE BitByBit(S!FLAG \o q \o S!FLAG, q)
<1> DEFINE air == S!FLAG \o q \o S!FLAG
<1> HIDE DEF air
<1> DEFINE f == S!FLAG
           p == f \o q
<1>1. f \in Seq(0 .. 255) /\ q \in Seq(0 .. 255) /\ Len(f) = 8
  BY DEF S!FLAG, S!Bytes
<1>2. Len(q) \in Nat
  BY <1>1, LenProperties
<1> HIDE DEF f
<1>3. p \in Seq(0 .. 255) /\ Len(p) = 8 + Len(q) /\ \A i \in 1 .. 8 + Len(q) : p[i] = IF i <= 8 THEN f[i] ELSE q[i - 8]
  <2>1. /\ p \in Seq(0 .. 255) /\ Len(p) = Len(f) + Len(q)
        /\ \A i \in 1 .. Len(f) + Len(q) : p[i] = IF i <= Len(f) THEN f[i] ELSE q[i - Len(f)]
    <3> DEFINE X == 0 .. 255
    <3>1. f \in Seq(X) /\ q \in Seq(X)
      BY <1>1
    <3> HIDE DEF X
    <3>2. /\ p \in Seq(X) /\ Len(p) = Len(f) + Len(q)
          /\ \A i \in 1 .. Len(f) + Len(q) : p[i] = IF i <= Len(f) THEN f[i] ELSE q[i - Len(f)]
      BY <3>1, ConcatProperties
    <3> QED BY <3>2 DEF X
  <2> HIDE DEF p
  <2> QED BY <1>1, <2>1
<1> HIDE DEF p
<1>4. air = p \o f
  BY DEF f, p, air
<1>5. /\ air \in Seq(0 .. 255) /\ Len(air) = Len(q) + 16
      /\ \A i \in 1 .. Len(q) + 16 : air[i] = IF i <= 8 + Len(q) THEN p[i] ELSE f[i - (8 + Len(q))]
  <2>1. air \in Seq(0 .. 255) /\ Len(air) = Len(p) + Len(f) /\ \A i \in 1 .. Len(p) + Len(f) : air[i] = IF i <= Len(p) THEN p[i] ELSE f[i - Len(p)]
    <3>1. f \in Seq(0 .. 255)
      BY <1>1
    <3>2. p \in Seq(0 .. 255)
      BY <1>3
    <3> QED BY <1>4, <3>1, <3>2, ConcatProperties
  <2>2. Len(p) + Len(f) = Len(q) + 16 /\ Len(p) = 8 + Len(q)
    BY <1>1, <1>2, <1>3
  <2> QED BY <2>1, <2>2
<1>6. ASSUME NEW i \in 1 .. 8 PROVE air[i] = f[i] /\ air[i + 8 + Len(q)] = f[i]
  <2>1. i \in 1 .. Len(q) + 16 /\ i <= 8 + Len(q) /\ i \in 1 .. 8 + Len(q) /\ i <= 8
    BY <1>2
  <2>2. i + 8 + Len(q) \in 1 .. Len(q) + 16 /\ ~(i + 8 + Len(q) <= 8 + Len(q)) /\ i + 8 + Len(q) - (8 + Len(q)) = i
    BY <1>2
  <2>3. air[i] = f[i]
    BY <1>3, <1>5, <2>1
  <2>4. air[i + 8 + Len(q)] = f[i]
    <3>1. PICK k : k = i + 8 + Len(q)
      OBVIOUS
    <3>2. k \in 1 .. Len(q) + 16 /\ ~(k <= 8 + Len(q)) /\ k - (8 + Len(q)) = i
      BY <2>2, <3>1
    <3>3. air[k] = f[k - (8 + Len(q))]
      BY <1>5, <3>2, Zenon
    <3> QED BY <3>1, <3>2, <3>3, Zenon
  <2> QED BY <2>3, <2>4
<1>7. ASSUME NEW i \in 1 .. Len(q) PROVE air[i + 8] = q[i]
  <2>1. i + 8 \in 1 .. Len(q) + 16 /\ i + 8 <= 8 + Len(q) /\ i + 8 \in 1 .. 8 + Len(q) /\ ~(i + 8 <= 8) /\ i + 8 - 8 = i
    BY <1>2
  <2> QED BY <1>3, <1>5, <2>1
<1>8. BitByBit(air, q)
  BY <1>2, <1>5, <1>6, <1>7 DEF f, S!Bytes, BitByBit
<1> QED BY <1>8 DEF air

\* Between the flags that bound it a frame has none.
LEMMA FlagsBound ==
  ASSUME NEW q \in S!Bytes, Broken(q, 0), NEW air, BitByBit(air, q)
  PROVE  S!FlagsOf(air) = <<1, Len(q) + 9>> /\ SubSeq(air, 9, Len(q) + 8) = q
<1> DEFINE n == Len(q)
           Rec == Flagged(air)
           D == 9 .. n + 9
           m == [i \in D |-> n + 9 - i]
           G == {i \in D : Rec[i] = Rec[n + 9]}
<1>1. /\ air \in S!Bytes /\ Len(air) = n + 16 /\ n \in Nat
      /\ \A i \in 1 .. 8 : air[i] = S!FLAG[i]
      /\ \A i \in 1 .. n : air[i + 8] = q[i]
      /\ \A i \in 1 .. 8 : air[i + 8 + n] = S!FLAG[i]
  BY DEF BitByBit
<1>0. n \in Nat
  BY <1>1
<1> HIDE DEF n
<1>2. \A i \in 1 .. n + 24 : Rec[i] = FlagAt(air, i, Rec)
  <2>1. Len(air) \in Nat /\ Len(air) + 8 = n + 24
    BY <1>1
  <2>2. \A i \in 1 .. Len(air) + 8 : Rec[i] = FlagAt(air, i, Rec)
    BY <2>1, FlaggedSolves
  <2> QED BY <2>1, <2>2
<1>3. Len(S!FLAG) = 8 /\ S!FLAG \in Seq(0 .. 255) /\ S!FLAG[1] = 0 /\ \A j \in 2 .. 7 : S!FLAG[j] = 1
  BY DEF S!FLAG
<1>4. ASSUME NEW i \in 1 .. n + 9
      PROVE  /\ SubSeq(air, i, i + 7) \in Seq(0 .. 255) /\ Len(SubSeq(air, i, i + 7)) = 8
             /\ \A j \in 1 .. 8 : SubSeq(air, i, i + 7)[j] = air[i + j - 1]
  <2>1. i \in 1 .. Len(air) + 1 /\ i + 7 \in i - 1 .. Len(air) /\ air \in Seq(0 .. 255)
    BY <1>0, <1>1 DEF S!Bytes
  <2>2. /\ SubSeq(air, i, i + 7) \in Seq(0 .. 255) /\ Len(SubSeq(air, i, i + 7)) = i + 7 - i + 1
        /\ \A j \in 1 .. i + 7 - i + 1 : SubSeq(air, i, i + 7)[j] = air[i + j - 1]
    <3> DEFINE X == 0 .. 255
    <3>1. PICK k : k = i + 7
      OBVIOUS
    <3>2. i \in 1 .. Len(air) + 1 /\ k \in i - 1 .. Len(air) /\ air \in Seq(X)
      BY <2>1, <3>1
    <3> HIDE DEF X
    <3>3. /\ SubSeq(air, i, k) \in Seq(X) /\ Len(SubSeq(air, i, k)) = k - i + 1
          /\ \A j \in 1 .. k - i + 1 : SubSeq(air, i, k)[j] = air[i + j - 1]
      BY <3>2, Part
    <3>4. /\ SubSeq(air, i, i + 7) \in Seq(X) /\ Len(SubSeq(air, i, i + 7)) = i + 7 - i + 1
          /\ \A j \in 1 .. i + 7 - i + 1 : SubSeq(air, i, i + 7)[j] = air[i + j - 1]
      BY <3>1, <3>3
    <3> QED BY <3>4 DEF X
  <2>3. i + 7 - i + 1 = 8
    BY <1>0
  <2> QED BY <2>2, <2>3
<1>5. ASSUME NEW i \in 1 .. n + 9, \A j \in 1 .. 8 : air[i + j - 1] = S!FLAG[j]
      PROVE  SubSeq(air, i, i + 7) = S!FLAG
  <2> DEFINE p == SubSeq(air, i, i + 7)
  <2>1. p \in Seq(0 .. 255) /\ Len(p) = 8 /\ \A j \in 1 .. 8 : p[j] = S!FLAG[j]
    BY <1>4, <1>5
  <2> HIDE DEF p
  <2>2. Len(p) = Len(S!FLAG) /\ \A j \in 1 .. Len(p) : p[j] = S!FLAG[j]
    BY <1>3, <2>1
  <2>3. p = S!FLAG
    BY <1>3, <2>1, <2>2, SeqEqual
  <2> QED BY <2>3 DEF p
<1>6. Rec[1] = <<1>> \o Rec[9]
  <2>1. SubSeq(air, 1, 1 + 7) = S!FLAG
    <3>1. \A j \in 1 .. 8 : air[1 + j - 1] = S!FLAG[j]
      <4>1. \A j \in 1 .. 8 : 1 + j - 1 = j
        OBVIOUS
      <4> QED BY <1>1, <4>1
    <3>2. 1 \in 1 .. n + 9
      BY <1>0
    <3> QED BY <1>5, <3>1, <3>2
  <2>2. Rec[1] = FlagAt(air, 1, Rec) /\ ~(1 + 7 > Len(air))
    <3>1. 1 \in 1 .. n + 24 /\ ~(1 + 7 > n + 16)
      BY <1>0
    <3>2. Len(air) = n + 16
      BY <1>1
    <3> QED BY <1>2, <3>1, <3>2
  <2>3. FlagAt(air, 1, Rec) = <<1>> \o Rec[1 + 8]
    BY <2>1, <2>2, Zenon DEF FlagAt
  <2> QED BY <2>2, <2>3
<1>7. Rec[n + 9] = <<n + 9>>
  <2>1. SubSeq(air, n + 9, n + 9 + 7) = S!FLAG
    <3>1. \A j \in 1 .. 8 : air[n + 9 + j - 1] = S!FLAG[j]
      <4>1. \A j \in 1 .. 8 : n + 9 + j - 1 = j + 8 + n
        BY <1>0
      <4>2. \A j \in 1 .. 8 : air[j + 8 + n] = S!FLAG[j]
        BY <1>1
      <4> QED BY <4>1, <4>2
    <3>2. n + 9 \in 1 .. n + 9
      BY <1>0
    <3> QED BY <1>5, <3>1, <3>2
  <2>2. Rec[n + 9] = FlagAt(air, n + 9, Rec) /\ ~(n + 9 + 7 > Len(air))
    <3>1. n + 9 \in 1 .. n + 24 /\ ~(n + 9 + 7 > n + 16)
      BY <1>0
    <3>2. Len(air) = n + 16
      BY <1>1
    <3> QED BY <1>2, <3>1, <3>2
  <2>3. Rec[n + 9 + 8] = FlagAt(air, n + 9 + 8, Rec) /\ n + 9 + 8 + 7 > Len(air)
    <3>1. n + 9 + 8 \in 1 .. n + 24 /\ n + 9 + 8 + 7 > n + 16
      BY <1>0
    <3>2. Len(air) = n + 16
      BY <1>1
    <3> QED BY <1>2, <3>1, <3>2
  <2>4. Rec[n + 9 + 8] = <<>>
    BY <2>3 DEF FlagAt
  <2>5. Rec[n + 9] = <<n + 9>> \o Rec[n + 9 + 8]
    BY <2>1, <2>2 DEF FlagAt
  <2> HIDE DEF Rec
  <2>6. <<n + 9>> \in Seq(Nat)
    BY <1>1
  <2> QED BY <2>4, <2>5, <2>6, ConcatEmptySeq
<1>8. ASSUME NEW i \in 9 .. n + 8 PROVE Rec[i] = Rec[i + 1]
  <2>1. SubSeq(air, i, i + 7) # S!FLAG
    <3> SUFFICES ASSUME SubSeq(air, i, i + 7) = S!FLAG PROVE FALSE
      OBVIOUS
    <3>1. i \in 1 .. n + 9
      BY <1>1
    <3>2. ASSUME NEW j \in 2 .. 7 PROVE air[i + j - 1] = 1
      <4>1. j \in 1 .. 8
        OBVIOUS
      <4>2. SubSeq(air, i, i + 7)[j] = air[i + j - 1]
        BY <1>4, <3>1, <4>1
      <4> QED BY <1>3, <4>2
    <3>3. ASSUME NEW l \in i + 1 .. i + 6 PROVE air[l] = 1
      <4>1. l - i + 1 \in 2 .. 7 /\ i + (l - i + 1) - 1 = l
        BY <1>1
      <4> QED BY <3>2, <4>1
    <3>4. air[n + 9] = 0
      <4>1. 1 + 8 + n = n + 9 /\ 1 \in 1 .. 8
        BY <1>1
      <4> QED BY <1>1, <1>3, <4>1
    <3>5. i + 6 <= n + 8
      <4> SUFFICES ASSUME ~(i + 6 <= n + 8) PROVE FALSE
        OBVIOUS
      <4>1. n + 9 \in i + 1 .. i + 6
        BY <1>1
      <4> QED BY <3>3, <3>4, <4>1
    <3>6. i - 7 \in 1 .. n - 5 /\ i \in Int
      BY <1>1, <3>5
    <3>7. PICK j \in i - 7 .. i - 7 + 5 : q[j] = 0
      BY <3>6 DEF Broken, n
    <3>8. j \in 1 .. n /\ j + 8 \in i + 1 .. i + 6
      BY <1>1, <3>6
    <3>9. air[j + 8] = 0 /\ air[j + 8] = 1
      BY <1>1, <3>3, <3>7, <3>8
    <3> QED BY <3>9
  <2>2. i \in 1 .. n + 24 /\ ~(i + 7 > Len(air))
    <3>1. Len(air) = n + 16
      BY <1>1
    <3> QED BY <1>0, <3>1
  <2> QED BY <1>2, <2>1, <2>2 DEF FlagAt
<1>9. Rec[9] = Rec[n + 9]
  <2>1. m \in [D -> Nat] /\ \A i \in D : m[i] = n + 9 - i
    <3>1. \A i \in D : n + 9 - i \in Nat
      BY <1>0
    <3> HIDE DEF D
    <3> QED BY <3>1
  <2>2. ASSUME NEW i \in D, \A j \in D : m[j] < m[i] => j \in G PROVE i \in G
    <3>1. CASE i = n + 9
      BY <3>1
    <3>2. CASE i # n + 9
      <4>1. i \in 9 .. n + 8 /\ i + 1 \in D /\ n + 9 - (i + 1) < n + 9 - i
        <5>1. i \in 9 .. n + 9
          OBVIOUS
        <5> HIDE DEF G, m, Rec
        <5> QED BY <1>0, <3>2, <5>1
      <4>2. m[i + 1] < m[i]
        <5> HIDE DEF m, D
        <5> QED BY <2>1, <4>1
      <4>3. i + 1 \in G
        <5> HIDE DEF m, D, G
        <5> QED BY <2>2, <4>1, <4>2
      <4> QED BY <1>8, <4>1, <4>3
    <3> QED BY <3>1, <3>2
  <2>3. D \subseteq G
    <3> HIDE DEF m, D, G
    <3> QED BY <2>1, <2>2, ByMeasure
  <2>4. 9 \in D
    BY <1>1
  <2> QED BY <2>3, <2>4
<1>10. S!FlagsOf(air) = <<1, n + 9>>
  <2>1. S!FlagsOf(air) = <<1>> \o <<n + 9>>
    BY <1>6, <1>7, <1>9, FlaggedIs
  <2>2. 1 \in Nat /\ n + 9 \in Nat /\ <<>> \in Seq(Nat)
    BY <1>1
  <2>3. <<1, n + 9>> \o <<>> = <<1>> \o (<<n + 9>> \o <<>>)
    BY <2>2, Puttings
  <2>4. <<1, n + 9>> \o <<>> = <<1, n + 9>> /\ <<n + 9>> \o <<>> = <<n + 9>>
    <3>1. <<1, n + 9>> \in Seq(Nat) /\ <<n + 9>> \in Seq(Nat)
      BY <2>2
    <3> QED BY <3>1, ConcatEmptySeq
  <2> QED BY <2>1, <2>3, <2>4
<1>11. SubSeq(air, 9, n + 8) = q
  <2>1. PICK a, b : a = 9 /\ b = n + 8
    OBVIOUS
  <2>2. /\ air \in Seq(0 .. 255) /\ q \in Seq(0 .. 255) /\ Len(q) = n /\ Len(air) = n + 16
    BY <1>1 DEF S!Bytes, n
  <2>3. a \in 1 .. Len(air) + 1 /\ b \in a - 1 .. Len(air) /\ b - a + 1 = Len(q)
    BY <1>0, <2>1, <2>2
  <2>4. \A i \in 1 .. Len(q) : air[a + i - 1] = q[i]
    <3>1. \A i \in 1 .. n : a + i - 1 = i + 8
      BY <1>0, <2>1
    <3> QED BY <1>1, <2>2, <3>1
  <2>5. SubSeq(air, a, b) = q
    BY <2>2, <2>3, <2>4, Middle
  <2> QED BY <2>1, <2>5
<1> QED BY <1>10, <1>11 DEF n

\* The flags found in what is sent on the air for a frame are the two that
\* bound it, whatever its bits, and what lies between them is the frame again:
\* no bit of it is taken for a flag, none is lost and none added (bit_stuff,
\* bit_unstuff, extract_hdlc_frames).
THEOREM FrameOnAirComesBack ==
  \A bits \in Bits :
    LET air == S!HdlcOnAir(bits)
    IN /\ S!FlagsOf(air) = <<1, Len(air) - 7>>
       /\ S!Unstuff(SubSeq(air, 9, Len(air) - 8)) = bits
<1>1. ASSUME NEW bits \in Bits
      PROVE  /\ S!FlagsOf(S!HdlcOnAir(bits)) = <<1, Len(S!HdlcOnAir(bits)) - 7>>
             /\ S!Unstuff(SubSeq(S!HdlcOnAir(bits), 9, Len(S!HdlcOnAir(bits)) - 8)) = bits
  <2> DEFINE q == S!Stuff(bits)
             air == S!HdlcOnAir(bits)
  <2>1. bits \in S!Bytes
    <3>1. {0, 1} \subseteq 0 .. 255
      OBVIOUS
    <3> QED BY <3>1, SeqMonotonic DEF Bits, S!Bytes
  <2>2. q \in S!Bytes /\ Broken(q, 0)
    BY <2>1, StuffedIsBroken
  <2>3. air = S!FLAG \o q \o S!FLAG
    BY DEF S!HdlcOnAir
  <2>4. S!Unstuff(q) = bits
    BY <1>1, StuffingUndone
  <2> HIDE DEF q, air
  <2>5. S!FlagsOf(air) = <<1, Len(q) + 9>> /\ SubSeq(air, 9, Len(q) + 8) = q
    <3>1. BitByBit(air, q)
      BY <2>2, <2>3, OnAir
    <3> QED BY <2>2, <3>1, FlagsBound
  <2>6. Len(air) - 7 = Len(q) + 9 /\ Len(air) - 8 = Len(q) + 8
    <3>1. Len(air) = Len(q) + 16 /\ Len(q) \in Nat
      BY <2>2, <2>3, OnAir DEF BitByBit
    <3> QED BY <3>1
  <2>7. S!FlagsOf(air) = <<1, Len(air) - 7>> /\ S!Unstuff(SubSeq(air, 9, Len(air) - 8)) = bits
    BY <2>4, <2>5, <2>6
  <2> QED BY <2>7 DEF air
<1> QED BY <1>1

\* What is left after the first bytes, and what is put before it.
LEMMA Rest ==
  ASSUME NEW X, NEW s \in Seq(X), NEW i \in 1 .. Len(s) + 1
  PROVE  /\ S!From(s, i) \in Seq(X) /\ Len(S!From(s, i)) = Len(s) - i + 1 /\ Len(s) \in Nat
         /\ \A j \in 1 .. Len(s) - i + 1 : S!From(s, i)[j] = s[i + j - 1]
<1>1. Len(s) \in Nat
  BY LenProperties
<1>2. Len(s) \in i - 1 .. Len(s)
  BY <1>1
<1> QED BY <1>1, <1>2, Part DEF S!From

\* What follows the first of two sequences put together is the second.
LEMMA RestOf ==
  ASSUME NEW X, NEW p \in Seq(X), NEW r \in Seq(X)
  PROVE  S!From(p \o r, Len(p) + 1) = r
<1> DEFINE s == p \o r
<1>1. /\ s \in Seq(X) /\ Len(s) = Len(p) + Len(r)
      /\ \A i \in 1 .. Len(p) + Len(r) : s[i] = IF i <= Len(p) THEN p[i] ELSE r[i - Len(p)]
  BY ConcatProperties
<1>2. Len(p) \in Nat /\ Len(r) \in Nat
  BY LenProperties
<1> HIDE DEF s
<1>3. Len(p) + 1 \in 1 .. Len(s) + 1 /\ Len(s) \in Len(p) + 1 - 1 .. Len(s) /\ Len(s) - (Len(p) + 1) + 1 = Len(r)
  BY <1>1, <1>2
<1>4. ASSUME NEW i \in 1 .. Len(r) PROVE s[Len(p) + 1 + i - 1] = r[i]
  <2>1. /\ Len(p) + 1 + i - 1 \in 1 .. Len(p) + Len(r) /\ ~(Len(p) + 1 + i - 1 <= Len(p))
        /\ Len(p) + 1 + i - 1 - Len(p) = i
    BY <1>2
  <2> QED BY <1>1, <2>1
<1>5. SubSeq(s, Len(p) + 1, Len(s)) = r
  <2>1. PICK a, b : a = Len(p) + 1 /\ b = Len(s)
    OBVIOUS
  <2>2. a \in 1 .. Len(s) + 1 /\ b \in a - 1 .. Len(s) /\ b - a + 1 = Len(r)
    BY <1>3, <2>1
  <2>3. \A i \in 1 .. Len(r) : s[a + i - 1] = r[i]
    BY <1>4, <2>1
  <2>4. SubSeq(s, a, b) = r
    BY <1>1, <2>2, <2>3, Middle
  <2> QED BY <2>1, <2>4
<1> QED BY <1>5 DEF s, S!From

(***************************************************************************)
(* KISS escapes.                                                           *)
(***************************************************************************)
PlainAt(r, plain) ==
  IF r = <<>> THEN <<>>
  ELSE IF r[1] \notin {S!FEND, S!FESC} THEN <<r[1]>> \o plain[Tail(r)]
  ELSE IF r[1] = S!FEND \/ Len(r) = 1 \/ r[2] \notin {S!TFEND, S!TFESC} THEN <<S!BAD>>
  ELSE <<IF r[2] = S!TFEND THEN S!FEND ELSE S!FESC>> \o plain[S!From(r, 3)]
Plain == CHOOSE f : f = [r \in S!Bytes |-> PlainAt(r, f)]
Marked == Seq(0 .. 256)

\* Unescape is the recursive function Plain.
LEMMA PlainIs == \A raw : S!Unescape(raw) = Plain[raw]
  BY Zenon DEF S!Unescape, Plain, PlainAt

\* What is left to read after a byte or an escape is shorter.
LEMMA Shorter ==
  ASSUME NEW b \in S!Bytes, b # <<>>
  PROVE  /\ Tail(b) \in S!Bytes /\ Len(Tail(b)) < Len(b) /\ b[1] \in 0 .. 255 /\ Len(b) \in Nat \ {0}
         /\ Len(b) # 1 => S!From(b, 3) \in S!Bytes /\ Len(S!From(b, 3)) < Len(b) /\ b[2] \in 0 .. 255
<1>1. /\ b \in Seq(0 .. 255) /\ Tail(b) \in Seq(0 .. 255) /\ Len(Tail(b)) = Len(b) - 1
      /\ Len(b) \in Nat \ {0} /\ b[1] \in 0 .. 255
  BY Tails DEF S!Bytes
<1>2. ASSUME Len(b) # 1
      PROVE  S!From(b, 3) \in S!Bytes /\ Len(S!From(b, 3)) < Len(b) /\ b[2] \in 0 .. 255
  <2>1. 3 \in 1 .. Len(b) + 1 /\ 2 \in 1 .. Len(b)
    BY <1>1, <1>2
  <2>2. S!From(b, 3) \in Seq(0 .. 255) /\ Len(S!From(b, 3)) = Len(b) - 3 + 1
    <3> DEFINE X == 0 .. 255
    <3>1. PICK k : k = 3
      OBVIOUS
    <3>2. b \in Seq(X) /\ k \in 1 .. Len(b) + 1
      BY <1>1, <2>1, <3>1
    <3> HIDE DEF X
    <3>3. S!From(b, k) \in Seq(X) /\ Len(S!From(b, k)) = Len(b) - k + 1
      BY <3>2, Rest
    <3> QED BY <3>1, <3>3 DEF X
  <2>3. b[2] \in 0 .. 255
    BY <1>1, <2>1, ElementOfSeq
  <2> QED BY <1>1, <2>2, <2>3 DEF S!Bytes
<1> QED BY <1>1, <1>2 DEF S!Bytes

\* Plain is defined on every sequence of bytes, and satisfies its equation.
LEMMA Plains ==
  Plain \in [S!Bytes -> Marked] /\ \A b \in S!Bytes : Plain[b] = PlainAt(b, Plain)
<1> DEFINE D == S!Bytes
           V == Marked
           m == [b \in D |-> Len(b)]
           W == [D -> V] \cup {Plain}
           Fn == [b \in D |-> [g \in W |-> PlainAt(b, g)]]
<1>1. \A b \in D : \A g \in W : Fn[b][g] = PlainAt(b, g)
  OBVIOUS
<1>2. m \in [D -> Nat] /\ \A b \in D : m[b] = Len(b)
  BY DEF S!Bytes
<1>0. <<>> \in V
  BY DEF Marked
<1> HIDE DEF m, Fn
<1>4. ASSUME NEW b \in D, NEW g \in [D -> V] PROVE PlainAt(b, g) \in V
  <2>1. b # <<>> => /\ b[1] \in 0 .. 256 /\ g[Tail(b)] \in Seq(0 .. 256)
                    /\ Len(b) # 1 => g[S!From(b, 3)] \in Seq(0 .. 256)
    <3>1. b # <<>> => /\ Tail(b) \in D /\ b[1] \in 0 .. 255
                      /\ Len(b) # 1 => S!From(b, 3) \in D
      BY Shorter
    <3> HIDE DEF D
    <3> QED BY <3>1 DEF Marked
  <2>2. \A x \in 0 .. 256 : \A q \in Seq(0 .. 256) : <<x>> \o q \in Seq(0 .. 256)
    BY Puttings
  <2>3. <<>> \in Seq(0 .. 256) /\ <<S!BAD>> \in Seq(0 .. 256) /\ S!FEND \in 0 .. 256 /\ S!FESC \in 0 .. 256
    BY DEF S!BAD, S!FEND, S!FESC
  <2>4. b # <<>> => /\ <<b[1]>> \o g[Tail(b)] \in Marked
                    /\ Len(b) # 1 => /\ <<S!FEND>> \o g[S!From(b, 3)] \in Marked
                                     /\ <<S!FESC>> \o g[S!From(b, 3)] \in Marked
    <3> HIDE DEF D
    <3> QED BY <2>1, <2>2, <2>3 DEF Marked
  <2>5. <<>> \in Marked /\ <<S!BAD>> \in Marked
    BY <2>3 DEF Marked
  <2> HIDE DEF D
  <2> QED BY <2>4, <2>5 DEF PlainAt
<1>5. ASSUME NEW b \in D, NEW g, NEW h, \A c \in D : m[c] < m[b] => g[c] = h[c]
      PROVE  PlainAt(b, g) = PlainAt(b, h)
  <2>1. b # <<>> => /\ g[Tail(b)] = h[Tail(b)]
                    /\ Len(b) # 1 => g[S!From(b, 3)] = h[S!From(b, 3)]
    <3>1. b # <<>> => /\ Tail(b) \in D /\ Len(Tail(b)) < Len(b)
                      /\ Len(b) # 1 => S!From(b, 3) \in D /\ Len(S!From(b, 3)) < Len(b)
      BY Shorter
    <3> HIDE DEF D
    <3> QED BY <1>2, <1>5, <3>1
  <2> QED BY <2>1 DEF PlainAt
<1>6. RestsBelow(Fn, D, m, W)
  <2> HIDE DEF D, V, W
  <2> QED BY <1>1, <1>5 DEF RestsBelow
<1>7. ASSUME NEW g \in [D -> V], Solves(g, Fn, D) PROVE Plain = [b \in D |-> Fn[b][Plain]]
  <2>1. g = [b \in D |-> PlainAt(b, g)]
    <3> HIDE DEF D
    <3> QED BY <1>1, <1>7 DEF Solves
  <2>2. Plain = [b \in D |-> PlainAt(b, Plain)]
    BY <2>1, Zenon DEF Plain
  <2> HIDE DEF D
  <2> QED BY <1>1, <2>2
<1>8. Plain \in [D -> V] /\ \A b \in D : Plain[b] = Fn[b][Plain]
  <2>1. m \in [D -> Nat] /\ <<>> \in V
    BY <1>0, <1>2
  <2>2. RestsBelow(Fn, D, m, [D -> V] \cup {Plain})
    BY <1>6
  <2>3. TypedIn(Fn, D, V)
    <3>1. \A b \in D : \A g \in [D -> V] : Fn[b][g] = PlainAt(b, g)
      BY <1>1
    <3> HIDE DEF D, V
    <3> QED BY <1>4, <3>1 DEF TypedIn
  <2>4. ChosenFrom(Plain, Fn, D, V)
    <3> HIDE DEF D, V
    <3> QED BY <1>7 DEF ChosenFrom
  <2> HIDE DEF D, V, W
  <2>5. Chooses(Plain, Fn, D, V, m)
    BY <2>1, <2>2, <2>3, <2>4 DEF Chooses
  <2> QED BY <2>5, Chosen
<1> QED BY <1>1, <1>8

FlatAt(seqs, i, f) == IF i = 1 THEN seqs[i] ELSE f[i - 1] \o seqs[i]
Flat(seqs) == CHOOSE f : f = [i \in 1 .. Len(seqs) |-> FlatAt(seqs, i, f)]

\* FlattenSeq is the recursive function Flat.
LEMMA FlatIs == \A seqs : S!FlattenSeq(seqs) = IF Len(seqs) = 0 THEN seqs ELSE Flat(seqs)[Len(seqs)]
  BY Zenon DEF S!FlattenSeq, Flat, FlatAt

\* Flat is defined for every number of sequences, and satisfies its equation.
LEMMA FlatSolves ==
  ASSUME NEW X, NEW seqs \in Seq(Seq(X))
  PROVE  /\ Flat(seqs) \in [1 .. Len(seqs) -> Seq(X)]
         /\ \A i \in 1 .. Len(seqs) : Flat(seqs)[i] = FlatAt(seqs, i, Flat(seqs))
<1> DEFINE D == 1 .. Len(seqs)
           V == Seq(X)
           Rec == Flat(seqs)
           m == [i \in D |-> i]
           W == [D -> V] \cup {Rec}
           Fn == [i \in D |-> [g \in W |-> FlatAt(seqs, i, g)]]
<1>1. \A i \in D : \A g \in W : Fn[i][g] = FlatAt(seqs, i, g)
  OBVIOUS
<1>2. m \in [D -> Nat] /\ (\A i \in D : m[i] = i) /\ Len(seqs) \in Nat
  OBVIOUS
<1>0. <<>> \in V
  OBVIOUS
<1>3. \A i \in D : seqs[i] \in V /\ i \in Nat /\ (i # 1 => i - 1 \in D /\ i - 1 < i)
  BY ElementOfSeq
<1> HIDE DEF m, Fn
<1>4. ASSUME NEW i \in D, NEW g \in [D -> V] PROVE FlatAt(seqs, i, g) \in V
  <2>1. i # 1 => g[i - 1] \in V
    <3> HIDE DEF D, V
    <3> QED BY <1>3
  <2>2. i # 1 => g[i - 1] \o seqs[i] \in V
    BY <1>3, <2>1, ConcatProperties
  <2> HIDE DEF D, V
  <2> QED BY <1>3, <2>2 DEF FlatAt
<1>5. ASSUME NEW i \in D, NEW g, NEW h, \A c \in D : m[c] < m[i] => g[c] = h[c]
      PROVE  FlatAt(seqs, i, g) = FlatAt(seqs, i, h)
  <2>1. i # 1 => g[i - 1] = h[i - 1]
    <3> HIDE DEF D
    <3> QED BY <1>2, <1>3, <1>5
  <2> QED BY <2>1 DEF FlatAt
<1>6. RestsBelow(Fn, D, m, W)
  <2> HIDE DEF D, V, W
  <2> QED BY <1>1, <1>5 DEF RestsBelow
<1>7. ASSUME NEW g \in [D -> V], Solves(g, Fn, D) PROVE Rec = [i \in D |-> Fn[i][Rec]]
  <2>1. g = [i \in D |-> FlatAt(seqs, i, g)]
    <3> HIDE DEF D
    <3> QED BY <1>1, <1>7 DEF Solves
  <2>2. Rec = [i \in D |-> FlatAt(seqs, i, Rec)]
    BY <2>1, Zenon DEF Flat
  <2> HIDE DEF D
  <2> QED BY <1>1, <2>2
<1>8. Rec \in [D -> V] /\ \A i \in D : Rec[i] = Fn[i][Rec]
  <2>1. m \in [D -> Nat] /\ <<>> \in V
    BY <1>0, <1>2
  <2>2. RestsBelow(Fn, D, m, [D -> V] \cup {Rec})
    BY <1>6
  <2>3. TypedIn(Fn, D, V)
    <3>1. \A i \in D : \A g \in [D -> V] : Fn[i][g] = FlatAt(seqs, i, g)
      BY <1>1
    <3> HIDE DEF D, V
    <3> QED BY <1>4, <3>1 DEF TypedIn
  <2>4. ChosenFrom(Rec, Fn, D, V)
    <3> HIDE DEF D, V, Rec
    <3> QED BY <1>7 DEF ChosenFrom
  <2> HIDE DEF D, V, W, Rec
  <2>5. Chooses(Rec, Fn, D, V, m)
    BY <2>1, <2>2, <2>3, <2>4 DEF Chooses
  <2> QED BY <2>5, Chosen
<1> QED BY <1>1, <1>8

\* A byte is escaped by itself, or by two.
Escape(x) == CASE x = S!FEND -> <<S!FESC, S!TFEND>>
               [] x = S!FESC -> <<S!FESC, S!TFESC>>
               [] OTHER -> <<x>>
Escapes(data_) == [i \in 1 .. Len(data_) |-> Escape(data_[i])]

\* What each byte becomes.
LEMMA EscapeIs ==
  \A x : Escape(x) = IF x = S!FEND THEN <<S!FESC, S!TFEND>>
                     ELSE IF x = S!FESC THEN <<S!FESC, S!TFESC>> ELSE <<x>>
<1>1. ASSUME NEW x, x = S!FEND PROVE Escape(x) = <<S!FESC, S!TFEND>>
  <2>1. x # S!FESC
    BY <1>1 DEF S!FEND, S!FESC
  <2> QED BY <1>1, <2>1 DEF Escape
<1>2. ASSUME NEW x, x = S!FESC PROVE x # S!FEND /\ Escape(x) = <<S!FESC, S!TFESC>>
  <2>1. x # S!FEND
    BY <1>2 DEF S!FEND, S!FESC
  <2> QED BY <1>2, <2>1 DEF Escape
<1>3. ASSUME NEW x, x # S!FEND, x # S!FESC PROVE Escape(x) = <<x>>
  BY <1>3 DEF Escape
<1> QED BY <1>1, <1>2, <1>3

\* The escapes of a frame are sequences of bytes, one for each byte.
LEMMA EscapesTyped ==
  ASSUME NEW d \in S!Bytes
  PROVE  /\ Escapes(d) \in Seq(S!Bytes) /\ Len(Escapes(d)) = Len(d) /\ Len(d) \in Nat
         /\ \A i \in 1 .. Len(d) : Escapes(d)[i] = Escape(d[i]) /\ Escape(d[i]) \in S!Bytes /\ d[i] \in 0 .. 255
<1>1. Len(d) \in Nat /\ \A i \in 1 .. Len(d) : d[i] \in 0 .. 255
  BY LenProperties, ElementOfSeq DEF S!Bytes
<1>2. ASSUME NEW x \in 0 .. 255 PROVE Escape(x) \in S!Bytes
  <2>1. Escape(x) \in {<<S!FESC, S!TFEND>>, <<S!FESC, S!TFESC>>, <<x>>}
    BY EscapeIs
  <2>2. /\ <<S!FESC, S!TFEND>> \in Seq(0 .. 255) /\ <<S!FESC, S!TFESC>> \in Seq(0 .. 255)
        /\ <<x>> \in Seq(0 .. 255)
    BY DEF S!FESC, S!TFEND, S!TFESC
  <2> QED BY <2>1, <2>2 DEF S!Bytes
<1>3. \A i \in 1 .. Len(d) : Escape(d[i]) \in S!Bytes
  BY <1>1, <1>2
<1> QED BY <1>1, <1>3 DEF Escapes

\* One byte, its escape read.
LEMMA EscapeRead ==
  ASSUME NEW x \in 0 .. 255, NEW r \in S!Bytes
  PROVE  Escape(x) \o r \in S!Bytes /\ Plain[Escape(x) \o r] = <<x>> \o Plain[r]
<1>1. r \in Seq(0 .. 255)
  BY DEF S!Bytes
<1>2. \A p \in S!Bytes : Plain[p] = PlainAt(p, Plain)
  BY Plains
<1>3. CASE x \notin {S!FEND, S!FESC}
  <2>1. Escape(x) = <<x>>
    BY <1>3 DEF Escape
  <2> DEFINE p == <<x>> \o r
  <2>2. p \in S!Bytes /\ p # <<>> /\ p[1] = x /\ Tail(p) = r
    BY <1>1, Puttings DEF S!Bytes
  <2> HIDE DEF p
  <2>3. Plain[p] = <<x>> \o Plain[r]
    BY <1>2, <1>3, <2>2 DEF PlainAt
  <2> QED BY <2>1, <2>2, <2>3 DEF p
<1>4. CASE x \in {S!FEND, S!FESC}
  <2> DEFINE y == IF x = S!FEND THEN S!TFEND ELSE S!TFESC
             e == <<S!FESC, y>>
             p == e \o r
  <2>1. Escape(x) = e
    BY <1>4, EscapeIs
  <2>2. y \in {S!TFEND, S!TFESC} /\ e \in Seq(0 .. 255) /\ Len(e) = 2 /\ e[1] = S!FESC /\ e[2] = y
    BY DEF S!TFEND, S!TFESC, S!FESC
  <2> HIDE DEF e
  <2>3. /\ p \in Seq(0 .. 255) /\ Len(p) = Len(e) + Len(r)
        /\ \A i \in 1 .. Len(e) + Len(r) : p[i] = IF i <= Len(e) THEN e[i] ELSE r[i - Len(e)]
    <3> DEFINE X == 0 .. 255
    <3>1. e \in Seq(X) /\ r \in Seq(X)
      BY <1>1, <2>2
    <3> HIDE DEF X
    <3>2. /\ p \in Seq(X) /\ Len(p) = Len(e) + Len(r)
          /\ \A i \in 1 .. Len(e) + Len(r) : p[i] = IF i <= Len(e) THEN e[i] ELSE r[i - Len(e)]
      BY <3>1, ConcatProperties
    <3> QED BY <3>2 DEF X
  <2>4. S!From(p, Len(e) + 1) = r
    BY <1>1, <2>2, RestOf
  <2>5. Len(r) \in Nat
    BY <1>1, LenProperties
  <2> HIDE DEF p
  <2>6. Len(p) = 2 + Len(r) /\ p[1] = S!FESC /\ p[2] = y /\ S!From(p, 3) = r /\ p # <<>>
    <3>1. Len(e) + 1 = 3 /\ 1 \in 1 .. Len(e) + Len(r) /\ 2 \in 1 .. Len(e) + Len(r) /\ 1 <= Len(e) /\ 2 <= Len(e)
      BY <2>2, <2>5
    <3>2. p[1] = S!FESC /\ p[2] = y
      BY <2>2, <2>3, <3>1
    <3>3. Len(p) = 2 + Len(r) /\ p # <<>>
      BY <2>2, <2>3, <2>5, EmptySeq
    <3> QED BY <2>4, <3>1, <3>2, <3>3
  <2>7. Plain[p] = PlainAt(p, Plain)
    BY <1>2, <2>3 DEF S!Bytes
  <2>8. (IF y = S!TFEND THEN S!FEND ELSE S!FESC) = x
    BY <1>4 DEF S!TFEND, S!TFESC
  <2>9. PlainAt(p, Plain) = <<x>> \o Plain[r]
    <3>1. S!FESC \in {S!FEND, S!FESC} /\ S!FESC # S!FEND /\ Len(p) # 1
      BY <2>5, <2>6 DEF S!FESC, S!FEND
    <3> HIDE DEF y
    <3> QED BY <2>2, <2>6, <2>8, <3>1 DEF PlainAt
  <2> QED BY <2>1, <2>3, <2>7, <2>9 DEF p, S!Bytes
<1> QED BY <1>3, <1>4

\* Escaped puts the escapes of the bytes together.
LEMMA EscapedIs == \A d : S!Escaped(d) = S!FlattenSeq(Escapes(d))
  BY Zenon DEF S!Escaped, Escapes, Escape

Endless(q) == \A j \in 1 .. Len(q) : q[j] # S!FEND

\* Two pieces without FEND have none together.
LEMMA EndlessBoth ==
  ASSUME NEW p \in S!Bytes, NEW q \in S!Bytes, Endless(p), Endless(q)
  PROVE  Endless(p \o q)
<1>1. p \in Seq(0 .. 255) /\ q \in Seq(0 .. 255) /\ Len(p) \in Nat /\ Len(q) \in Nat
  BY LenProperties DEF S!Bytes
<1> DEFINE s == p \o q
<1>2. Len(s) = Len(p) + Len(q) /\ \A i \in 1 .. Len(p) + Len(q) : s[i] = IF i <= Len(p) THEN p[i] ELSE q[i - Len(p)]
  BY <1>1, ConcatProperties
<1> HIDE DEF s
<1>3. ASSUME NEW i \in 1 .. Len(s) PROVE s[i] # S!FEND
  <2>1. i \in 1 .. Len(p) + Len(q) /\ (i <= Len(p) => i \in 1 .. Len(p)) /\ (~(i <= Len(p)) => i - Len(p) \in 1 .. Len(q))
    BY <1>1, <1>2
  <2> QED BY <1>2, <2>1 DEF Endless
<1> QED BY <1>3 DEF Endless, s

\* An escape holds no FEND.
LEMMA EndlessOne == ASSUME NEW x \in 0 .. 255 PROVE Endless(Escape(x))
<1>1. /\ Len(<<S!FESC, S!TFEND>>) = 2 /\ <<S!FESC, S!TFEND>>[1] = S!FESC /\ <<S!FESC, S!TFEND>>[2] = S!TFEND
      /\ Len(<<S!FESC, S!TFESC>>) = 2 /\ <<S!FESC, S!TFESC>>[1] = S!FESC /\ <<S!FESC, S!TFESC>>[2] = S!TFESC
      /\ Len(<<x>>) = 1 /\ <<x>>[1] = x
  OBVIOUS
<1>2. S!FESC # S!FEND /\ S!TFEND # S!FEND /\ S!TFESC # S!FEND
  BY DEF S!FESC, S!FEND, S!TFEND, S!TFESC
<1>3. Endless(<<S!FESC, S!TFEND>>)
  BY <1>1, <1>2 DEF Endless
<1>4. Endless(<<S!FESC, S!TFESC>>)
  BY <1>1, <1>2 DEF Endless
<1>5. x # S!FEND => Endless(<<x>>)
  BY <1>1 DEF Endless
<1> QED BY <1>3, <1>4, <1>5, EscapeIs

\* What an escaped sequence and what follows it are read as.
Undone(e, d) ==
  /\ e \in S!Bytes /\ Endless(e)
  /\ \A r \in S!Bytes : Plain[e \o r] = d \o Plain[r]

\* The escape of a byte is read as that byte, whatever follows it.
LEMMA UndoneOne == ASSUME NEW x \in 0 .. 255 PROVE Undone(Escape(x), <<x>>)
<1>1. Escape(x) \in S!Bytes
  <2>1. /\ <<S!FESC, S!TFEND>> \in Seq(0 .. 255) /\ <<S!FESC, S!TFESC>> \in Seq(0 .. 255)
        /\ <<x>> \in Seq(0 .. 255)
    BY DEF S!FESC, S!TFEND, S!TFESC
  <2> QED BY <2>1, EscapeIs DEF S!Bytes
<1> QED BY <1>1, EscapeRead, EndlessOne DEF Undone

\* Two pieces that are each read as they were are so together.
LEMMA UndoneBoth ==
  ASSUME NEW e \in S!Bytes, NEW d \in S!Bytes, NEW f, NEW x \in 0 .. 255, Undone(e, d), Undone(f, <<x>>)
  PROVE  Undone(e \o f, d \o <<x>>)
<1>1. f \in S!Bytes /\ Endless(e) /\ Endless(f)
  BY DEF Undone
<1>2. e \o f \in S!Bytes /\ Endless(e \o f)
  BY <1>1, ConcatProperties, EndlessBoth DEF S!Bytes
<1>3. ASSUME NEW r \in S!Bytes PROVE Plain[(e \o f) \o r] = (d \o <<x>>) \o Plain[r]
  <2>1. /\ e \in Seq(0 .. 255) /\ f \in Seq(0 .. 255) /\ r \in Seq(0 .. 255)
    BY <1>1 DEF S!Bytes
  <2>2. (e \o f) \o r = e \o (f \o r) /\ f \o r \in S!Bytes
    <3> DEFINE X == 0 .. 255
    <3>1. e \in Seq(X) /\ f \in Seq(X) /\ r \in Seq(X)
      BY <2>1
    <3> HIDE DEF X
    <3>2. (e \o f) \o r = e \o (f \o r)
      <4>1. PICK x1, x2, x3 : x1 = e /\ x2 = f /\ x3 = r
        OBVIOUS
      <4>2. x1 \in Seq(X) /\ x2 \in Seq(X) /\ x3 \in Seq(X)
        BY <3>1, <4>1
      <4>3. (x1 \o x2) \o x3 = x1 \o (x2 \o x3)
        BY <4>2, ConcatAssociative, SMTT(30)
      <4> QED BY <4>1, <4>3
    <3>3. f \o r \in Seq(X)
      BY <3>1, ConcatProperties
    <3> QED BY <3>2, <3>3 DEF X, S!Bytes
  <2>3. Plain[e \o (f \o r)] = d \o Plain[f \o r]
    BY <2>2 DEF Undone
  <2>4. Plain[f \o r] = <<x>> \o Plain[r]
    BY DEF Undone
  <2>5. Plain[r] \in Seq(0 .. 256)
    BY Plains DEF Marked
  <2>6. d \in Seq(0 .. 256) /\ <<x>> \in Seq(0 .. 256)
    <3>1. 0 .. 255 \subseteq 0 .. 256
      OBVIOUS
    <3> QED BY <3>1, SeqMonotonic DEF S!Bytes
  <2>7. (d \o <<x>>) \o Plain[r] = d \o (<<x>> \o Plain[r])
    <3>1. d \in Seq(0 .. 256)
      BY <2>6
    <3>2. <<x>> \in Seq(0 .. 256)
      BY <2>6
    <3> DEFINE B == 0 .. 256
               p == <<x>>
               u == Plain[r]
    <3>3. d \in Seq(B) /\ p \in Seq(B) /\ u \in Seq(B)
      BY <2>5, <3>1, <3>2
    <3> HIDE DEF B, p, u
    <3>4. (d \o p) \o u = d \o (p \o u)
      BY <3>3, ConcatAssociative
    <3> QED BY <3>4 DEF p, u
  <2> QED BY <2>2, <2>3, <2>4, <2>7
<1> QED BY <1>2, <1>3 DEF Undone

\* All of what is escaped is read as it was.
LEMMA EscapedUndone == ASSUME NEW d \in S!Bytes PROVE Undone(S!Escaped(d), d)
<1> DEFINE n == Len(d)
           e == Escapes(d)
           f == Flat(e)
           D == 1 .. n
           m == [i \in D |-> i]
           head(i) == SubSeq(d, 1, i)
           G == {i \in D : Undone(f[i], head(i))}
<1>1. e \in Seq(S!Bytes) /\ Len(e) = n /\ n \in Nat /\ \A i \in D : e[i] = Escape(d[i]) /\ d[i] \in 0 .. 255
  BY EscapesTyped
<1>2. f \in [D -> S!Bytes] /\ \A i \in D : f[i] = FlatAt(e, i, f)
  <2>1. e \in Seq(Seq(0 .. 255))
    BY <1>1 DEF S!Bytes
  <2>2. f \in [1 .. Len(e) -> Seq(0 .. 255)] /\ \A i \in 1 .. Len(e) : f[i] = FlatAt(e, i, f)
    BY <2>1, FlatSolves
  <2> HIDE DEF e, f
  <2> QED BY <1>1, <2>2 DEF S!Bytes
<1>3. \A i \in D : Undone(e[i], <<d[i]>>)
  BY <1>1, UndoneOne
<1>4. \A i \in D : /\ head(i) \in S!Bytes
                   /\ i = 1 => head(i) = <<d[i]>>
                   /\ i # 1 => head(i) = head(i - 1) \o <<d[i]>>
  <2>1. ASSUME NEW i \in D
        PROVE  /\ head(i) \in S!Bytes
               /\ i = 1 => head(i) = <<d[i]>>
               /\ i # 1 => head(i) = head(i - 1) \o <<d[i]>>
    <3>1. d \in Seq(0 .. 255) /\ 1 \in 1 .. Len(d) /\ i \in 1 .. Len(d) /\ 1 \in 1 .. Len(d) + 1 /\ i \in 1 - 1 .. Len(d)
      BY <1>1 DEF S!Bytes
    <3>2. SubSeq(d, 1, i) = SubSeq(d, 1, i - 1) \o <<d[i]>>
      BY <3>1, SubSeqRecursiveSecond
    <3>3. SubSeq(d, 1, i) \in Seq(0 .. 255)
      <4>1. \A j \in 1 .. i : d[j] \in 0 .. 255
        BY <1>1
      <4> QED BY <3>1, <4>1, SubSeqProperties
    <3>4. ASSUME i = 1 PROVE head(i) = <<d[i]>>
      <4>1. SubSeq(d, 1, i - 1) = <<>>
        BY <3>4, SubSeqEmpty
      <4>2. <<d[i]>> \in Seq(0 .. 255)
        BY <1>1
      <4> QED BY <3>2, <4>1, <4>2, ConcatEmptySeq
    <3> QED BY <3>2, <3>3, <3>4 DEF S!Bytes
  <2> QED BY <2>1
<1>5. m \in [D -> Nat] /\ (\A i \in D : m[i] = i) /\ \A i \in D : i \in Nat /\ (i # 1 => i - 1 \in D /\ i - 1 < i)
  BY <1>1
<1>6. ASSUME NEW i \in D, \A j \in D : m[j] < m[i] => j \in G PROVE i \in G
  <2>1. f[i] = IF i = 1 THEN e[i] ELSE f[i - 1] \o e[i]
    BY <1>2 DEF FlatAt
  <2>2. Undone(e[i], <<d[i]>>) /\ d[i] \in 0 .. 255
    BY <1>1, <1>3
  <2>3. CASE i = 1
    <3> HIDE DEF e, f, head, m
    <3> QED BY <1>4, <2>1, <2>2, <2>3
  <2>4. CASE i # 1
    <3>1. i - 1 \in D /\ i - 1 \in G
      <4> HIDE DEF D, G, m
      <4> QED BY <1>5, <1>6, <2>4
    <3>2. Undone(f[i - 1], head(i - 1)) /\ f[i - 1] \in S!Bytes /\ head(i - 1) \in S!Bytes
      <4>1. Undone(f[i - 1], head(i - 1))
        BY <3>1
      <4> HIDE DEF D, G, head, f
      <4> QED BY <1>2, <1>4, <3>1, <4>1
    <3> HIDE DEF e, f, head, m
    <3>3. Undone(f[i - 1] \o e[i], head(i - 1) \o <<d[i]>>)
      BY <2>2, <3>2, UndoneBoth
    <3> QED BY <1>4, <2>1, <2>4, <3>3
  <2> QED BY <2>3, <2>4
<1>7. D \subseteq G
  <2> HIDE DEF D, G, m
  <2> QED BY <1>5, <1>6, ByMeasure
<1>8. CASE n = 0
  <2>1. d = <<>> /\ e = <<>>
    <3>1. d \in Seq(0 .. 255)
      BY DEF S!Bytes
    <3> QED BY <1>1, <1>8, <3>1, EmptySeq
  <2>2. S!Escaped(d) = <<>>
    <3> HIDE DEF e, f
    <3> QED BY <1>1, <1>8, <2>1, EscapedIs, FlatIs DEF e
  <2>3. ASSUME NEW r \in S!Bytes PROVE <<>> \o r = r /\ <<>> \o Plain[r] = Plain[r]
    <3>1. r \in Seq(0 .. 255) /\ Plain[r] \in Seq(0 .. 256)
      BY Plains DEF S!Bytes, Marked
    <3> QED BY <3>1, ConcatEmptySeq
  <2>4. <<>> \in S!Bytes /\ Endless(<<>>)
    BY DEF S!Bytes, Endless
  <2> QED BY <2>1, <2>2, <2>3, <2>4 DEF Undone
<1>9. CASE n # 0
  <2>1. n \in D
    BY <1>1, <1>9
  <2>2. Undone(f[n], head(n))
    BY <1>7, <2>1
  <2>3. S!Escaped(d) = f[n]
    <3> HIDE DEF n, f
    <3> QED BY <1>1, <1>9, EscapedIs, FlatIs DEF f
  <2>4. head(n) = d
    BY SubSeqFull DEF S!Bytes
  <2> QED BY <2>2, <2>3, <2>4
<1> QED BY <1>8, <1>9

\* Whatever bytes a frame has, its escapes are read as those bytes again, and
\* none of them ends the frame (encode, _unescape).
THEOREM EscapesComeBack ==
  \A data_ \in S!Bytes :
    /\ S!Unescape(S!Escaped(data_)) = data_
    /\ \A j \in 1 .. Len(S!Escaped(data_)) : S!Escaped(data_)[j] # S!FEND
<1>1. ASSUME NEW d \in S!Bytes PROVE S!Unescape(S!Escaped(d)) = d /\ Endless(S!Escaped(d))
  <2>1. S!Escaped(d) \in Seq(0 .. 255) /\ d \in Seq(0 .. 255) /\ Endless(S!Escaped(d))
    BY EscapedUndone DEF Undone, S!Bytes
  <2>2. <<>> \in S!Bytes /\ Plain[<<>>] = <<>>
    <3>1. <<>> \in S!Bytes
      BY DEF S!Bytes
    <3>2. Plain[<<>>] = PlainAt(<<>>, Plain)
      BY <3>1, Plains
    <3> QED BY <3>1, <3>2 DEF PlainAt
  <2>3. Plain[S!Escaped(d) \o <<>>] = d \o <<>>
    <3>1. Undone(S!Escaped(d), d)
      BY EscapedUndone
    <3>2. \A r \in S!Bytes : Plain[S!Escaped(d) \o r] = d \o Plain[r]
      BY <3>1 DEF Undone
    <3>3. Plain[S!Escaped(d) \o <<>>] = d \o Plain[<<>>]
      BY <2>2, <3>2
    <3> QED BY <2>2, <3>3
  <2>4. S!Escaped(d) \o <<>> = S!Escaped(d) /\ d \o <<>> = d
    BY <2>1, ConcatEmptySeq
  <2> QED BY <2>1, <2>3, <2>4, PlainIs
<1> QED BY <1>1 DEF Endless

\* The first byte of a set, and the least number of one.
LEMMA FirstIs ==
  ASSUME NEW X, NEW s \in Seq(X), NEW K, S!Has(s, K)
  PROVE  /\ S!First(s, K) \in 1 .. Len(s) /\ s[S!First(s, K)] \in K
         /\ \A j \in 1 .. S!First(s, K) - 1 : s[j] \notin K
<1> DEFINE U == {i \in 1 .. Len(s) : s[i] \in K}
<1>1. Len(s) \in Nat
  BY LenProperties
<1>2. U \in SUBSET Nat /\ U # {}
  BY <1>1 DEF S!Has
<1>3. PICK i \in U : \A k \in U : i <= k
  <2> HIDE DEF U
  <2> QED BY <1>2, MinNat
<1>4. i \in 1 .. Len(s) /\ s[i] \in K
  OBVIOUS
<1>5. ASSUME NEW j \in 1 .. i - 1 PROVE s[j] \notin K
  <2>1. j \in 1 .. Len(s) /\ ~(i <= j)
    BY <1>1, <1>4
  <2>2. j \notin U
    <3> HIDE DEF U
    <3> QED BY <1>3, <2>1
  <2> QED BY <2>1, <2>2
<1>6. \E k \in 1 .. Len(s) : s[k] \in K /\ \A j \in 1 .. k - 1 : s[j] \notin K
  BY <1>4, <1>5
<1> QED BY <1>6, Zenon DEF S!First

\* The place that First chooses is the only one there is.
LEMMA FirstAt ==
  ASSUME NEW X, NEW s \in Seq(X), NEW K, NEW i \in 1 .. Len(s), s[i] \in K,
         \A j \in 1 .. i - 1 : s[j] \notin K
  PROVE  S!Has(s, K) /\ S!First(s, K) = i
<1>1. Len(s) \in Nat
  BY LenProperties
<1>2. S!Has(s, K)
  BY DEF S!Has
<1> DEFINE k == S!First(s, K)
<1>3. k \in 1 .. Len(s) /\ s[k] \in K /\ \A j \in 1 .. k - 1 : s[j] \notin K
  BY <1>2, FirstIs
<1> HIDE DEF k
<1>4. ~(k < i) /\ ~(i < k)
  <2>1. k < i => k \in 1 .. i - 1
    BY <1>1, <1>3
  <2>2. i < k => i \in 1 .. k - 1
    BY <1>1, <1>3
  <2> QED BY <1>3, <2>1, <2>2
<1>5. k = i
  BY <1>1, <1>3, <1>4
<1> QED BY <1>2, <1>5 DEF k

\* The least of a set of numbers is one of them.
LEMMA MinIs ==
  ASSUME NEW U \in SUBSET Nat, U # {}
  PROVE  S!Min(U) \in U /\ \A k \in U : S!Min(U) <= k
<1>1. \E n \in U : \A k \in U : n <= k
  BY MinNat
<1> QED BY <1>1, Zenon DEF S!Min

(***************************************************************************)
(* KISS frames.                                                            *)
(***************************************************************************)
Starts(b) == IF S!Has(b, {S!FEND}) THEN S!First(b, {S!FEND}) ELSE Len(b) + 1
Begins(b) == {j \in Starts(b) .. Len(b) : b[j] # S!FEND}
Framing(b) == S!From(b, S!Min(Begins(b)))
FrameEnd(b) == S!First(Framing(b), {S!FEND})
Payload(b) == S!Unescape(SubSeq(Framing(b), 2, FrameEnd(b) - 1))
Kept(b) == Framing(b)[1] % 16 = 0 /\ Payload(b) # <<>> /\ ~S!Has(Payload(b), {S!BAD})
KissAt(b, read) ==
  LET start == IF S!Has(b, {S!FEND}) THEN S!First(b, {S!FEND}) ELSE Len(b) + 1
      first == {j \in start .. Len(b) : b[j] # S!FEND}
      frame == S!From(b, S!Min(first))
      end == S!First(frame, {S!FEND})
      plain == S!Unescape(SubSeq(frame, 2, end - 1))
      keep == frame[1] % 16 = 0 /\ plain # <<>> /\ ~S!Has(plain, {S!BAD})
  IN IF start > Len(b) THEN [buf |-> b, out |-> <<>>]
     ELSE IF first = {} THEN [buf |-> <<>>, out |-> <<>>]
     ELSE IF ~S!Has(frame, {S!FEND}) THEN [buf |-> frame, out |-> <<>>]
     ELSE [read[S!From(frame, end + 1)] EXCEPT !.out = (IF keep THEN <<plain>> ELSE <<>>) \o @]
Kiss == CHOOSE f : f = [b \in S!Bytes |-> KissAt(b, f)]
Results == [buf : S!Bytes, out : Seq(Marked)]

\* DecodeStream is the recursive function Kiss.
LEMMA KissIs == \A d : S!DecodeStream(d) = Kiss[d]
  BY Zenon DEF S!DecodeStream, Kiss, KissAt

\* One step of Kiss, its parts named.
LEMMA KissAtIs ==
  \A b, read : KissAt(b, read) =
    IF Starts(b) > Len(b) THEN [buf |-> b, out |-> <<>>]
    ELSE IF Begins(b) = {} THEN [buf |-> <<>>, out |-> <<>>]
    ELSE IF ~S!Has(Framing(b), {S!FEND}) THEN [buf |-> Framing(b), out |-> <<>>]
    ELSE [read[S!From(Framing(b), FrameEnd(b) + 1)] EXCEPT !.out = (IF Kept(b) THEN <<Payload(b)>> ELSE <<>>) \o @]
  BY Zenon DEF KissAt, Starts, Begins, Framing, FrameEnd, Payload, Kept

\* A frame that has begun, and what follows its end.
LEMMA FramingIs ==
  ASSUME NEW b \in S!Bytes, ~(Starts(b) > Len(b)), Begins(b) # {}
  PROVE  /\ Framing(b) \in S!Bytes
         /\ S!Has(Framing(b), {S!FEND}) =>
              /\ FrameEnd(b) \in 1 .. Len(Framing(b)) /\ Payload(b) \in Marked
              /\ S!From(Framing(b), FrameEnd(b) + 1) \in S!Bytes
              /\ Len(S!From(Framing(b), FrameEnd(b) + 1)) < Len(b)
<1> DEFINE k == S!Min(Begins(b))
           f == Framing(b)
           e == FrameEnd(b)
<1>1. b \in Seq(0 .. 255) /\ Len(b) \in Nat
  BY LenProperties DEF S!Bytes
<1>2. Starts(b) \in 1 .. Len(b)
  <2>1. S!Has(b, {S!FEND})
    BY <1>1 DEF Starts
  <2> QED BY <1>1, <2>1, FirstIs DEF Starts
<1>3. k \in 1 .. Len(b) /\ b[k] # S!FEND
  <2>1. Begins(b) \in SUBSET Nat
    BY <1>2 DEF Begins
  <2>2. k \in Begins(b)
    BY <2>1, MinIs
  <2> HIDE DEF k
  <2> QED BY <1>1, <1>2, <2>2 DEF Begins
<1>4. /\ f \in Seq(0 .. 255) /\ Len(f) = Len(b) - k + 1 /\ f[1] = b[k]
  <2> HIDE DEF k
  <2>1. k \in 1 .. Len(b) + 1 /\ 1 \in 1 .. Len(b) - k + 1 /\ k + 1 - 1 = k
    BY <1>1, <1>3
  <2>2. /\ S!From(b, k) \in Seq(0 .. 255) /\ Len(S!From(b, k)) = Len(b) - k + 1
        /\ \A j \in 1 .. Len(b) - k + 1 : S!From(b, k)[j] = b[k + j - 1]
    BY <1>1, <2>1, Rest
  <2>3. f = S!From(b, k)
    BY DEF k, Framing
  <2> QED BY <2>1, <2>2, <2>3
<1> HIDE DEF k, f
<1>5. ASSUME S!Has(f, {S!FEND})
      PROVE  /\ e \in 2 .. Len(f) /\ Payload(b) \in Marked
             /\ S!From(f, e + 1) \in S!Bytes /\ Len(S!From(f, e + 1)) < Len(b)
  <2>1. e \in 1 .. Len(f) /\ f[e] \in {S!FEND}
    BY <1>4, <1>5, FirstIs DEF FrameEnd, f
  <2> HIDE DEF e
  <2>2. e \in 2 .. Len(f) /\ Len(f) <= Len(b) /\ Len(f) \in Nat
    <3>1. e # 1
      BY <1>3, <1>4, <2>1
    <3> QED BY <1>1, <1>3, <1>4, <2>1, <3>1
  <2>3. S!From(f, e + 1) \in S!Bytes /\ Len(S!From(f, e + 1)) < Len(b)
    <3>1. e + 1 \in 1 .. Len(f) + 1
      BY <2>2
    <3>2. S!From(f, e + 1) \in Seq(0 .. 255) /\ Len(S!From(f, e + 1)) = Len(f) - (e + 1) + 1
      BY <1>4, <3>1, Rest
    <3> QED BY <1>1, <2>2, <3>2 DEF S!Bytes
  <2>4. Payload(b) \in Marked
    <3>1. 2 \in 1 .. Len(f) + 1 /\ e - 1 \in 2 - 1 .. Len(f)
      BY <2>2
    <3>2. SubSeq(f, 2, e - 1) \in S!Bytes
      <4>1. PICK a, c : a = 2 /\ c = e - 1
        OBVIOUS
      <4>2. a \in 1 .. Len(f) + 1 /\ c \in a - 1 .. Len(f)
        BY <3>1, <4>1
      <4>3. SubSeq(f, a, c) \in Seq(0 .. 255)
        BY <1>4, <4>2, Part
      <4> QED BY <4>1, <4>3 DEF S!Bytes
    <3>3. Payload(b) = Plain[SubSeq(f, 2, e - 1)]
      BY PlainIs DEF Payload, f, e
    <3> QED BY <3>2, <3>3, Plains
  <2> QED BY <2>2, <2>3, <2>4
<1>6. f \in S!Bytes
  BY <1>4 DEF S!Bytes
<1>7. S!Has(f, {S!FEND}) => e \in 1 .. Len(f)
  <2>1. Len(f) \in Nat
    BY <1>4, LenProperties
  <2> HIDE DEF e
  <2> QED BY <1>5, <2>1
<1> QED BY <1>5, <1>6, <1>7 DEF f

\* A result with frames put before its own.
LEMMA PutBefore ==
  ASSUME NEW r \in Results, NEW o \in Seq(Marked)
  PROVE  /\ [r EXCEPT !.out = o \o @] \in Results /\ [r EXCEPT !.out = o \o @].buf = r.buf
         /\ [r EXCEPT !.out = o \o @].out = o \o r.out
<1>1. r.buf \in S!Bytes /\ r.out \in Seq(Marked)
  BY DEF Results
<1>2. o \o r.out \in Seq(Marked)
  BY <1>1, ConcatProperties
<1> DEFINE v == o \o r.out
           q == [r EXCEPT !.out = v]
<1>3. [r EXCEPT !.out = o \o @] = q
  OBVIOUS
<1> HIDE DEF v
<1>4. q \in Results /\ q.buf = r.buf /\ q.out = v
  BY <1>1, <1>2 DEF Results, v
<1> HIDE DEF q
<1> QED BY <1>3, <1>4 DEF v

\* Kiss is defined on every sequence of bytes, and satisfies its equation.
LEMMA Kisss ==
  Kiss \in [S!Bytes -> Results] /\ \A b \in S!Bytes : Kiss[b] = KissAt(b, Kiss)
<1> DEFINE D == S!Bytes
           V == Results
           m == [b \in D |-> Len(b)]
           W == [D -> V] \cup {Kiss}
           Fn == [b \in D |-> [g \in W |-> KissAt(b, g)]]
<1>1. \A b \in D : \A g \in W : Fn[b][g] = KissAt(b, g)
  OBVIOUS
<1>2. m \in [D -> Nat] /\ \A b \in D : m[b] = Len(b)
  BY DEF S!Bytes
<1>0. [buf |-> <<>>, out |-> <<>>] \in V
  BY DEF Results, S!Bytes
<1> HIDE DEF m, Fn
<1>4. ASSUME NEW b \in D, NEW g \in [D -> V] PROVE KissAt(b, g) \in V
  <2>1. b \in S!Bytes /\ <<>> \in S!Bytes /\ <<>> \in Seq(Marked)
    BY DEF S!Bytes
  <2>2. CASE Starts(b) > Len(b)
    <3>1. KissAt(b, g) = [buf |-> b, out |-> <<>>]
      BY <2>2, KissAtIs
    <3> QED BY <2>1, <3>1 DEF Results
  <2>3. CASE ~(Starts(b) > Len(b)) /\ Begins(b) = {}
    <3>1. KissAt(b, g) = [buf |-> <<>>, out |-> <<>>]
      BY <2>3, KissAtIs
    <3> QED BY <2>1, <3>1 DEF Results
  <2>4. CASE ~(Starts(b) > Len(b)) /\ Begins(b) # {} /\ ~S!Has(Framing(b), {S!FEND})
    <3>1. KissAt(b, g) = [buf |-> Framing(b), out |-> <<>>]
      BY <2>4, KissAtIs
    <3>2. Framing(b) \in S!Bytes
      BY <2>4, FramingIs
    <3> QED BY <2>1, <3>1, <3>2 DEF Results
  <2>5. CASE ~(Starts(b) > Len(b)) /\ Begins(b) # {} /\ S!Has(Framing(b), {S!FEND})
    <3> DEFINE q == S!From(Framing(b), FrameEnd(b) + 1)
               o == IF Kept(b) THEN <<Payload(b)>> ELSE <<>>
    <3>1. KissAt(b, g) = [g[q] EXCEPT !.out = o \o @]
      BY <2>5, KissAtIs
    <3>2. q \in D /\ Payload(b) \in Marked
      BY <2>5, FramingIs
    <3>3. g[q] \in Results
      <4> HIDE DEF q, D
      <4> QED BY <3>2
    <3>4. o \in Seq(Marked)
      BY <2>1, <3>2
    <3> HIDE DEF q, o
    <3> QED BY <3>1, <3>3, <3>4, PutBefore
  <2> QED BY <2>2, <2>3, <2>4, <2>5
<1>5. ASSUME NEW b \in D, NEW g, NEW h, \A c \in D : m[c] < m[b] => g[c] = h[c]
      PROVE  KissAt(b, g) = KissAt(b, h)
  <2>1. ~(Starts(b) > Len(b)) /\ Begins(b) # {} /\ S!Has(Framing(b), {S!FEND}) =>
          g[S!From(Framing(b), FrameEnd(b) + 1)] = h[S!From(Framing(b), FrameEnd(b) + 1)]
    <3> SUFFICES ASSUME ~(Starts(b) > Len(b)), Begins(b) # {}, S!Has(Framing(b), {S!FEND})
                 PROVE  g[S!From(Framing(b), FrameEnd(b) + 1)] = h[S!From(Framing(b), FrameEnd(b) + 1)]
      OBVIOUS
    <3> DEFINE q == S!From(Framing(b), FrameEnd(b) + 1)
    <3>1. q \in D /\ Len(q) < Len(b)
      BY FramingIs
    <3> HIDE DEF q, D
    <3>2. g[q] = h[q]
      BY <1>2, <1>5, <3>1
    <3> QED BY <3>2 DEF q
  <2> QED BY <2>1, KissAtIs
<1>6. RestsBelow(Fn, D, m, W)
  <2> HIDE DEF D, V, W
  <2> QED BY <1>1, <1>5 DEF RestsBelow
<1>7. ASSUME NEW g \in [D -> V], Solves(g, Fn, D) PROVE Kiss = [b \in D |-> Fn[b][Kiss]]
  <2>1. g = [b \in D |-> KissAt(b, g)]
    <3> HIDE DEF D
    <3> QED BY <1>1, <1>7 DEF Solves
  <2>2. Kiss = [b \in D |-> KissAt(b, Kiss)]
    BY <2>1, Zenon DEF Kiss
  <2> HIDE DEF D
  <2> QED BY <1>1, <2>2
<1>8. Kiss \in [D -> V] /\ \A b \in D : Kiss[b] = Fn[b][Kiss]
  <2>1. m \in [D -> Nat] /\ [buf |-> <<>>, out |-> <<>>] \in V
    BY <1>0, <1>2
  <2>2. RestsBelow(Fn, D, m, [D -> V] \cup {Kiss})
    BY <1>6
  <2>3. TypedIn(Fn, D, V)
    <3>1. \A b \in D : \A g \in [D -> V] : Fn[b][g] = KissAt(b, g)
      BY <1>1
    <3> HIDE DEF D, V
    <3> QED BY <1>4, <3>1 DEF TypedIn
  <2>4. ChosenFrom(Kiss, Fn, D, V)
    <3> HIDE DEF D, V
    <3> QED BY <1>7 DEF ChosenFrom
  <2> HIDE DEF D, V, W
  <2>5. Chooses(Kiss, Fn, D, V, m)
    BY <2>1, <2>2, <2>3, <2>4 DEF Chooses
  <2> QED BY <2>5, Chosen
<1> QED BY <1>1, <1>8

\* A sequence and one more: the elements of it, then that one.
LEMMA Sequel ==
  ASSUME NEW X, NEW s \in Seq(X), NEW x \in X
  PROVE  /\ s \o <<x>> \in Seq(X) /\ Len(s \o <<x>>) = Len(s) + 1 /\ Len(s) \in Nat
         /\ \A i \in 1 .. Len(s) : (s \o <<x>>)[i] = s[i]
         /\ (s \o <<x>>)[Len(s) + 1] = x
<1>1. <<x>> \in Seq(X) /\ Len(<<x>>) = 1 /\ <<x>>[1] = x /\ Len(s) \in Nat
  OBVIOUS
<1> DEFINE p == <<x>>
           q == s \o p
<1> HIDE DEF p
<1>2. /\ q \in Seq(X) /\ Len(q) = Len(s) + Len(p)
      /\ \A i \in 1 .. Len(s) + Len(p) : q[i] = IF i <= Len(s) THEN s[i] ELSE p[i - Len(s)]
  BY <1>1, ConcatProperties DEF p
<1> HIDE DEF q
<1>3. Len(p) = 1 /\ p[1] = x
  BY <1>1 DEF p
<1>4. \A i \in 1 .. Len(s) : q[i] = s[i]
  BY <1>1, <1>2, <1>3
<1>5. q[Len(s) + 1] = x
  <2>1. Len(s) + 1 \in 1 .. Len(s) + Len(p) /\ ~(Len(s) + 1 <= Len(s)) /\ Len(s) + 1 - Len(s) = 1
    BY <1>1, <1>3
  <2> QED BY <1>2, <1>3, <2>1
<1> QED BY <1>1, <1>2, <1>3, <1>4, <1>5 DEF p, q

\* An element before a sequence: that one, then the elements of it.
LEMMA OneMore ==
  ASSUME NEW X, NEW s \in Seq(X), NEW x \in X
  PROVE  /\ <<x>> \o s \in Seq(X) /\ Len(<<x>> \o s) = Len(s) + 1 /\ Len(s) \in Nat
         /\ (<<x>> \o s)[1] = x
         /\ \A i \in 1 .. Len(s) : (<<x>> \o s)[i + 1] = s[i]
<1>1. <<x>> \in Seq(X) /\ Len(<<x>>) = 1 /\ <<x>>[1] = x /\ Len(s) \in Nat
  OBVIOUS
<1> DEFINE p == <<x>>
           q == p \o s
<1> HIDE DEF p
<1>2. /\ q \in Seq(X) /\ Len(q) = Len(p) + Len(s)
      /\ \A i \in 1 .. Len(p) + Len(s) : q[i] = IF i <= Len(p) THEN p[i] ELSE s[i - Len(p)]
  BY <1>1, ConcatProperties DEF p
<1> HIDE DEF q
<1>3. Len(p) = 1 /\ p[1] = x
  BY <1>1 DEF p
<1>4. ASSUME NEW i \in 1 .. Len(s) PROVE q[i + 1] = s[i]
  <2>1. i + 1 \in 1 .. Len(p) + Len(s) /\ ~(i + 1 <= Len(p)) /\ i + 1 - Len(p) = i
    BY <1>1, <1>3
  <2> QED BY <1>2, <2>1
<1>5. q[1] = x
  <2>1. 1 \in 1 .. Len(p) + Len(s) /\ 1 <= Len(p)
    BY <1>1, <1>3
  <2> QED BY <1>2, <1>3, <2>1
<1>6. Len(q) = Len(s) + 1
  BY <1>1, <1>2, <1>3
<1> QED BY <1>1, <1>2, <1>4, <1>5, <1>6 DEF p, q

FrameHas(f, t, e, r) ==
  /\ f \in S!Bytes /\ f[1] = t /\ Len(f) \in Nat \ {0} /\ Len(e) \in Nat
  /\ S!Has(f, {S!FEND}) /\ S!First(f, {S!FEND}) = Len(e) + 2
  /\ SubSeq(f, 2, Len(e) + 1) = e /\ S!From(f, Len(e) + 3) = r

\* The type byte, the escaped bytes, the FEND and the rest, in their places.
LEMMA KissFrame ==
  ASSUME NEW t \in 0 .. 255, t # S!FEND, NEW e \in S!Bytes, Endless(e), NEW r \in S!Bytes
  PROVE  FrameHas(((<<t>> \o e) \o <<S!FEND>>) \o r, t, e, r)
<1> DEFINE f == ((<<t>> \o e) \o <<S!FEND>>) \o r
           X == 0 .. 255
           n == Len(e)
           p == <<t>> \o e
           q == p \o <<S!FEND>>
<1>1. e \in Seq(X) /\ r \in Seq(X) /\ S!FEND \in X
  BY DEF S!Bytes, S!FEND
<1> HIDE DEF X
<1>2. /\ p \in Seq(X) /\ Len(p) = n + 1 /\ n \in Nat /\ p[1] = t
      /\ \A i \in 1 .. n : p[i + 1] = e[i]
  BY <1>1, OneMore DEF X
<1> HIDE DEF p
<1>3. /\ q \in Seq(X) /\ Len(q) = n + 2 /\ q[n + 2] = S!FEND
      /\ \A i \in 1 .. n + 1 : q[i] = p[i]
  <2>1. /\ q \in Seq(X) /\ Len(q) = Len(p) + 1 /\ q[Len(p) + 1] = S!FEND
        /\ \A i \in 1 .. Len(p) : q[i] = p[i]
    BY <1>1, <1>2, Sequel
  <2> HIDE DEF q, n
  <2>2. Len(p) + 1 = n + 2
    BY <1>2
  <2> QED BY <1>2, <2>1, <2>2
<1>4. f = q \o r
  BY DEF p, q
<1> HIDE DEF q, n, f
<1>5. S!From(f, n + 3) = r
  <2>1. S!From(q \o r, Len(q) + 1) = r
    BY <1>1, <1>3, RestOf
  <2>2. Len(q) + 1 = n + 3
    BY <1>2, <1>3
  <2> QED BY <1>4, <2>1, <2>2
<1>6. /\ f \in Seq(X) /\ Len(f) = n + 2 + Len(r) /\ Len(r) \in Nat
      /\ \A i \in 1 .. n + 2 : f[i] = q[i]
  <2>1. /\ f \in Seq(X) /\ Len(f) = Len(q) + Len(r) /\ Len(r) \in Nat
        /\ \A i \in 1 .. Len(q) + Len(r) : f[i] = IF i <= Len(q) THEN q[i] ELSE r[i - Len(q)]
    <3>1. q \in Seq(X) /\ r \in Seq(X)
      BY <1>1, <1>3
    <3>2. /\ q \o r \in Seq(X) /\ Len(q \o r) = Len(q) + Len(r)
          /\ \A i \in 1 .. Len(q) + Len(r) : (q \o r)[i] = IF i <= Len(q) THEN q[i] ELSE r[i - Len(q)]
      BY <3>1, ConcatProperties
    <3>3. Len(r) \in Nat
      BY <3>1, LenProperties
    <3> QED BY <1>4, <3>2, <3>3
  <2>2. \A i \in 1 .. n + 2 : i \in 1 .. Len(q) + Len(r) /\ i <= Len(q)
    BY <1>2, <1>3, <2>1
  <2> QED BY <1>2, <1>3, <2>1, <2>2
<1>7. f[1] = t /\ f[n + 2] = S!FEND /\ \A i \in 1 .. n : f[i + 1] = e[i]
  <2>1. 1 \in 1 .. n + 1 /\ 1 \in 1 .. n + 2 /\ n + 2 \in 1 .. n + 2
    BY <1>2
  <2>2. \A i \in 1 .. n : i + 1 \in 1 .. n + 1 /\ i + 1 \in 1 .. n + 2
    BY <1>2
  <2> QED BY <1>2, <1>3, <1>6, <2>1, <2>2
<1>8. S!Has(f, {S!FEND}) /\ S!First(f, {S!FEND}) = n + 2
  <2>1. n + 2 \in 1 .. Len(f) /\ f[n + 2] \in {S!FEND}
    BY <1>2, <1>6, <1>7
  <2>2. ASSUME NEW j \in 1 .. n + 2 - 1 PROVE f[j] \notin {S!FEND}
    <3>1. CASE j = 1
      BY <1>7, <3>1
    <3>2. CASE j # 1
      <4>1. j - 1 \in 1 .. n /\ j - 1 + 1 = j
        BY <1>2, <3>2
      <4>2. f[j] = e[j - 1] /\ e[j - 1] # S!FEND
        <5>1. j - 1 \in 1 .. Len(e)
          BY <4>1 DEF n
        <5>2. e[j - 1] # S!FEND
          BY <5>1 DEF Endless
        <5> QED BY <1>7, <4>1, <5>2
      <4> QED BY <4>2
    <3> QED BY <3>1, <3>2
  <2>3. PICK k : k = n + 2
    OBVIOUS
  <2>4. k \in 1 .. Len(f) /\ f[k] \in {S!FEND} /\ \A j \in 1 .. k - 1 : f[j] \notin {S!FEND}
    <3>1. \A j \in 1 .. n + 2 - 1 : f[j] \notin {S!FEND}
      BY <2>2
    <3>2. k \in 1 .. Len(f) /\ f[k] \in {S!FEND}
      BY <2>1, <2>3
    <3>3. ASSUME NEW j \in 1 .. k - 1 PROVE f[j] \notin {S!FEND}
      <4>1. j \in 1 .. n + 2 - 1
        BY <1>2, <2>3
      <4> QED BY <3>1, <4>1
    <3> QED BY <3>2, <3>3
  <2>5. S!Has(f, {S!FEND}) /\ S!First(f, {S!FEND}) = k
    BY <1>6, <2>4, FirstAt
  <2> QED BY <2>3, <2>5
<1>9. SubSeq(f, 2, n + 1) = e
  <2>1. PICK a, b : a = 2 /\ b = n + 1
    OBVIOUS
  <2>2. a \in 1 .. Len(f) + 1 /\ b \in a - 1 .. Len(f) /\ b - a + 1 = Len(e)
    BY <1>2, <1>6, <2>1 DEF n
  <2>3. \A i \in 1 .. Len(e) : f[a + i - 1] = e[i]
    <3>1. \A i \in 1 .. n : a + i - 1 = i + 1
      BY <1>2, <2>1
    <3>2. \A i \in 1 .. n : f[a + i - 1] = e[i]
      BY <1>7, <3>1
    <3> QED BY <3>2 DEF n
  <2>4. SubSeq(f, a, b) = e
    BY <1>1, <1>6, <2>2, <2>3, Middle
  <2> QED BY <2>1, <2>4
<1>10. Len(f) \in Nat \ {0}
  BY <1>2, <1>6
<1>11. FrameHas(f, t, e, r)
  BY <1>2, <1>5, <1>6, <1>7, <1>8, <1>9, <1>10 DEF n, X, S!Bytes, FrameHas
<1> QED BY <1>11 DEF f

\* A frame begins behind the FEND that comes before it.
LEMMA KissBegins ==
  ASSUME NEW f \in S!Bytes, Len(f) \in Nat \ {0}, f[1] # S!FEND, NEW b, b = <<S!FEND>> \o f
  PROVE  b \in S!Bytes /\ ~(Starts(b) > Len(b)) /\ Begins(b) # {} /\ Framing(b) = f
<1> DEFINE X == 0 .. 255
<1>1. f \in Seq(X) /\ S!FEND \in X /\ <<S!FEND>> \in Seq(X) /\ Len(<<S!FEND>>) = 1
  BY DEF S!Bytes, S!FEND
<1> HIDE DEF X
<1>2. /\ b \in Seq(X) /\ Len(b) = Len(f) + 1 /\ b[1] = S!FEND
      /\ \A i \in 1 .. Len(f) : b[i + 1] = f[i]
  BY <1>1, OneMore
<1>3. S!Has(b, {S!FEND}) /\ S!First(b, {S!FEND}) = 1
  <2>1. 1 \in 1 .. Len(b) /\ b[1] \in {S!FEND} /\ \A j \in 1 .. 1 - 1 : b[j] \notin {S!FEND}
    BY <1>2
  <2> QED BY <1>2, <2>1, FirstAt
<1>4. Starts(b) = 1
  BY <1>3 DEF Starts
<1>5. 2 \in Begins(b) /\ 1 \notin Begins(b) /\ Begins(b) \in SUBSET Nat
  <2>1. b[2] # S!FEND /\ 2 \in 1 .. Len(b)
    <3>1. 1 \in 1 .. Len(f) /\ 1 + 1 = 2
      OBVIOUS
    <3> QED BY <1>2, <3>1
  <2> QED BY <1>2, <1>4, <2>1 DEF Begins
<1>6. S!Min(Begins(b)) = 2
  <2>1. S!Min(Begins(b)) \in Begins(b) /\ S!Min(Begins(b)) <= 2
    BY <1>5, MinIs
  <2>2. Begins(b) \subseteq 1 .. Len(b)
    BY <1>4 DEF Begins
  <2>3. PICK k : k = S!Min(Begins(b))
    OBVIOUS
  <2>4. k \in 1 .. Len(b) /\ k <= 2 /\ k # 1
    BY <1>5, <2>1, <2>2, <2>3
  <2>5. k = 2
    BY <2>4
  <2> QED BY <2>3, <2>5
<1>7. Framing(b) = f
  <2>1. S!From(<<S!FEND>> \o f, Len(<<S!FEND>>) + 1) = f
    BY <1>1, RestOf
  <2> QED BY <1>1, <1>6, <2>1 DEF Framing
<1> QED BY <1>2, <1>4, <1>5, <1>7 DEF X, S!Bytes

\* A data frame that is encoded and sent is read as the bytes it was made of,
\* and what follows it on the wire as it would be alone, on every port but the
\* one whose type byte is FEND (kiss.py: encode, decode_stream).
THEOREM KissFrameComesBack ==
  \A data_ \in S!Bytes \ {<<>>} : \A port \in (0 .. 15) \ {12} : \A rest \in S!Bytes :
    S!DecodeStream(S!KissEncode(data_, port, 0) \o rest) =
      [S!DecodeStream(rest) EXCEPT !.out = <<data_>> \o @]
<1>1. ASSUME NEW d \in S!Bytes \ {<<>>}, NEW port \in (0 .. 15) \ {12}, NEW r \in S!Bytes
      PROVE  S!DecodeStream(S!KissEncode(d, port, 0) \o r) = [S!DecodeStream(r) EXCEPT !.out = <<d>> \o @]
  <2> DEFINE t == 16 * port + 0
             e == S!Escaped(d)
             f == ((<<t>> \o e) \o <<S!FEND>>) \o r
             b == S!KissEncode(d, port, 0) \o r
  <2>1. t \in 0 .. 255 /\ t # S!FEND /\ t % 16 = 0
    BY DEF S!FEND
  <2>2. e \in S!Bytes /\ Endless(e) /\ S!Unescape(e) = d
    BY EscapedUndone, EscapesComeBack DEF Undone
  <2>3. b = <<S!FEND>> \o f
    <3> DEFINE X == 0 .. 255
               p == <<t>> \o e
               z == <<S!FEND>>
    <3>1. S!FEND \in X /\ t \in X /\ e \in Seq(X) /\ r \in Seq(X) /\ z \in Seq(X) /\ z # <<>>
      BY <2>1, <2>2 DEF S!Bytes, S!FEND
    <3> HIDE DEF X, t, e
    <3>2. p \in Seq(X) /\ <<S!FEND, t>> \o e = z \o p
      BY <3>1, Puttings
    <3> HIDE DEF p, z
    <3>3. p \o z \in Seq(X) /\ (z \o p) \o z = z \o (p \o z)
      <4>1. p \in Seq(X) /\ z \in Seq(X)
        BY <3>1, <3>2
      <4>2. p \o z \in Seq(X)
        BY <4>1, ConcatProperties
      <4> QED BY <4>1, <4>2, ConcatAssociative
    <3>4. (z \o (p \o z)) \o r = z \o ((p \o z) \o r)
      <4>1. PICK w : w = p \o z
        OBVIOUS
      <4>2. w \in Seq(X) /\ z \in Seq(X) /\ r \in Seq(X)
        BY <3>1, <3>3, <4>1
      <4>3. (z \o w) \o r = z \o (w \o r)
        BY <4>2, ConcatAssociative
      <4> QED BY <4>1, <4>3
    <3>5. b = ((<<S!FEND, t>> \o e) \o z) \o r
      BY DEF S!KissEncode, t, e, z
    <3> QED BY <3>2, <3>3, <3>4, <3>5 DEF p, z
  <2> HIDE DEF t, e, f, b
  <2>4. /\ f \in S!Bytes /\ f[1] = t /\ Len(f) \in Nat \ {0} /\ Len(e) \in Nat
        /\ S!Has(f, {S!FEND}) /\ S!First(f, {S!FEND}) = Len(e) + 2
        /\ SubSeq(f, 2, Len(e) + 1) = e /\ S!From(f, Len(e) + 3) = r
    <3>1. FrameHas(f, t, e, r)
      BY <2>1, <2>2, KissFrame DEF f
    <3> QED BY <3>1 DEF FrameHas
  <2>5. b \in S!Bytes /\ ~(Starts(b) > Len(b)) /\ Begins(b) # {} /\ Framing(b) = f
    BY <2>1, <2>3, <2>4, KissBegins
  <2>6. FrameEnd(b) = Len(e) + 2 /\ FrameEnd(b) - 1 = Len(e) + 1 /\ FrameEnd(b) + 1 = Len(e) + 3
    BY <2>4, <2>5 DEF FrameEnd
  <2>7. Payload(b) = d
    BY <2>2, <2>4, <2>5, <2>6 DEF Payload
  <2>8. Kept(b)
    <3>1. ~S!Has(d, {S!BAD})
      <4>1. \A i \in 1 .. Len(d) : d[i] \in 0 .. 255
        BY ElementOfSeq DEF S!Bytes
      <4>3. ASSUME NEW i \in 1 .. Len(d) PROVE d[i] # 256
        <5>1. d[i] \in 0 .. 255
          BY <4>1
        <5>2. PICK x : x = d[i]
          OBVIOUS
        <5>3. x \in 0 .. 255
          BY <5>1, <5>2
        <5>4. x # 256
          BY <5>3
        <5> QED BY <5>2, <5>4
      <4> QED BY <4>3 DEF S!Has, S!BAD
    <3> QED BY <2>1, <2>4, <2>5, <2>7, <3>1 DEF Kept
  <2>9. Kiss[b] = KissAt(b, Kiss)
    BY <2>5, Kisss
  <2>10. KissAt(b, Kiss) = [Kiss[r] EXCEPT !.out = (IF Kept(b) THEN <<Payload(b)>> ELSE <<>>) \o @]
    BY <2>4, <2>5, <2>6, KissAtIs
  <2>11. Kiss[b] = [Kiss[r] EXCEPT !.out = <<d>> \o @]
    BY <2>7, <2>8, <2>9, <2>10
  <2> QED BY <2>11, KissIs DEF b
<1> QED BY <1>1

(***************************************************************************)
(* Frames of a modem in host mode.                                         *)
(***************************************************************************)
Frontmost(b) == S!From(b, S!First(b, {S!MARK}))
Cut(f) == Len(f) < 4 \/ Len(f) < 4 + f[4]
HostAt(b, read) ==
  IF ~S!Has(b, {S!MARK}) THEN [buf |-> <<>>, out |-> <<>>]
  ELSE LET f == S!From(b, S!First(b, {S!MARK}))
       IN IF Len(f) < 4 \/ Len(f) < 4 + f[4] THEN [buf |-> f, out |-> <<>>]
          ELSE [read[S!From(f, 5 + f[4])] EXCEPT !.out = <<SubSeq(f, 5, 4 + f[4])>> \o @]
Host == CHOOSE f : f = [b \in S!Bytes |-> HostAt(b, f)]

\* DecodeHost is the recursive function Host.
LEMMA HostIs == \A d : S!DecodeHost(d) = Host[d]
  BY Zenon DEF S!DecodeHost, Host, HostAt

\* One step of Host, its parts named.
LEMMA HostAtIs ==
  \A b, read : HostAt(b, read) =
    IF ~S!Has(b, {S!MARK}) THEN [buf |-> <<>>, out |-> <<>>]
    ELSE IF Cut(Frontmost(b)) THEN [buf |-> Frontmost(b), out |-> <<>>]
    ELSE [read[S!From(Frontmost(b), 5 + Frontmost(b)[4])] EXCEPT !.out = <<SubSeq(Frontmost(b), 5, 4 + Frontmost(b)[4])>> \o @]
  BY Zenon DEF HostAt, Frontmost, Cut

\* A frame that is found begins with MARK and is no longer than the buffer.
LEMMA FoundIs ==
  ASSUME NEW b \in S!Bytes, S!Has(b, {S!MARK})
  PROVE  /\ Frontmost(b) \in S!Bytes /\ Len(Frontmost(b)) \in Nat \ {0} /\ Frontmost(b)[1] = S!MARK
         /\ Len(Frontmost(b)) <= Len(b)
<1> DEFINE k == S!First(b, {S!MARK})
<1>1. b \in Seq(0 .. 255) /\ Len(b) \in Nat
  BY LenProperties DEF S!Bytes
<1>2. k \in 1 .. Len(b) /\ b[k] = S!MARK
  BY <1>1, FirstIs
<1> HIDE DEF k
<1>3. k \in 1 .. Len(b) + 1 /\ 1 \in 1 .. Len(b) - k + 1 /\ k + 1 - 1 = k
  BY <1>1, <1>2
<1>4. /\ S!From(b, k) \in Seq(0 .. 255) /\ Len(S!From(b, k)) = Len(b) - k + 1
      /\ \A j \in 1 .. Len(b) - k + 1 : S!From(b, k)[j] = b[k + j - 1]
  BY <1>1, <1>3, Rest
<1>5. S!From(b, k)[1] = S!MARK
  BY <1>2, <1>3, <1>4
<1>6. Len(b) - k + 1 \in Nat \ {0} /\ Len(b) - k + 1 <= Len(b)
  BY <1>1, <1>2
<1> QED BY <1>4, <1>5, <1>6 DEF Frontmost, k, S!Bytes

\* A frame that is not cut: its payload, and what follows it.
LEMMA Uncut ==
  ASSUME NEW f \in S!Bytes, ~Cut(f)
  PROVE  /\ f[4] \in 0 .. 255 /\ Len(f) \in Nat /\ 4 + f[4] <= Len(f)
         /\ S!From(f, 5 + f[4]) \in S!Bytes /\ Len(S!From(f, 5 + f[4])) < Len(f)
         /\ SubSeq(f, 5, 4 + f[4]) \in S!Bytes /\ Len(SubSeq(f, 5, 4 + f[4])) = f[4]
         /\ \A i \in 1 .. f[4] : SubSeq(f, 5, 4 + f[4])[i] = f[i + 4]
<1>1. f \in Seq(0 .. 255) /\ Len(f) \in Nat
  BY LenProperties DEF S!Bytes
<1>2. f[4] \in 0 .. 255 /\ 4 + f[4] <= Len(f)
  <2>1. 4 \in 1 .. Len(f)
    BY <1>1 DEF Cut
  <2>2. f[4] \in 0 .. 255
    BY <1>1, <2>1, ElementOfSeq
  <2>3. ~(Len(f) < 4 + f[4])
    BY DEF Cut
  <2>4. PICK n : n = f[4]
    OBVIOUS
  <2>5. 4 + n <= Len(f)
    <3>1. n \in 0 .. 255 /\ ~(Len(f) < 4 + n)
      BY <2>2, <2>3, <2>4
    <3> QED BY <1>1, <3>1
  <2> QED BY <2>2, <2>4, <2>5
<1>3. PICK n : n = f[4]
  OBVIOUS
<1>4. n \in 0 .. 255 /\ 4 + n <= Len(f)
  BY <1>2, <1>3
<1>5. S!From(f, 5 + n) \in Seq(0 .. 255) /\ Len(S!From(f, 5 + n)) < Len(f)
  <2>1. 5 + n \in 1 .. Len(f) + 1
    BY <1>1, <1>4
  <2>2. S!From(f, 5 + n) \in Seq(0 .. 255) /\ Len(S!From(f, 5 + n)) = Len(f) - (5 + n) + 1
    BY <1>1, <2>1, Rest
  <2> QED BY <1>1, <1>4, <2>2
<1>6. /\ SubSeq(f, 5, 4 + n) \in Seq(0 .. 255) /\ Len(SubSeq(f, 5, 4 + n)) = n
      /\ \A i \in 1 .. n : SubSeq(f, 5, 4 + n)[i] = f[i + 4]
  <2>1. PICK a, c : a = 5 /\ c = 4 + n
    OBVIOUS
  <2>2. a \in 1 .. Len(f) + 1 /\ c \in a - 1 .. Len(f) /\ c - a + 1 = n /\ \A i \in 1 .. n : a + i - 1 = i + 4
    BY <1>1, <1>4, <2>1
  <2>3. /\ SubSeq(f, a, c) \in Seq(0 .. 255) /\ Len(SubSeq(f, a, c)) = c - a + 1
        /\ \A i \in 1 .. c - a + 1 : SubSeq(f, a, c)[i] = f[a + i - 1]
    BY <1>1, <2>2, Part
  <2>4. /\ SubSeq(f, a, c) \in Seq(0 .. 255) /\ Len(SubSeq(f, a, c)) = n
        /\ \A i \in 1 .. n : SubSeq(f, a, c)[i] = f[i + 4]
    BY <2>2, <2>3
  <2> QED BY <2>1, <2>4
<1> QED BY <1>1, <1>3, <1>4, <1>5, <1>6 DEF S!Bytes

\* Bytes are among what may be a frame or a mark.
LEMMA BytesAreMarked == \A p \in S!Bytes : p \in Marked
<1>1. 0 .. 255 \subseteq 0 .. 256
  OBVIOUS
<1> QED BY <1>1, SeqMonotonic DEF S!Bytes, Marked

\* Host is defined on every sequence of bytes, and satisfies its equation.
LEMMA Hosts ==
  Host \in [S!Bytes -> Results] /\ \A b \in S!Bytes : Host[b] = HostAt(b, Host)
<1> DEFINE D == S!Bytes
           V == Results
           m == [b \in D |-> Len(b)]
           W == [D -> V] \cup {Host}
           Fn == [b \in D |-> [g \in W |-> HostAt(b, g)]]
<1>1. \A b \in D : \A g \in W : Fn[b][g] = HostAt(b, g)
  OBVIOUS
<1>2. m \in [D -> Nat] /\ \A b \in D : m[b] = Len(b)
  BY DEF S!Bytes
<1>0. [buf |-> <<>>, out |-> <<>>] \in V
  BY DEF Results, S!Bytes
<1> HIDE DEF m, Fn
<1>4. ASSUME NEW b \in D, NEW g \in [D -> V] PROVE HostAt(b, g) \in V
  <2>1. <<>> \in S!Bytes /\ <<>> \in Seq(Marked)
    BY DEF S!Bytes
  <2>2. CASE ~S!Has(b, {S!MARK})
    <3>1. HostAt(b, g) = [buf |-> <<>>, out |-> <<>>]
      BY <2>2, HostAtIs
    <3> QED BY <2>1, <3>1 DEF Results
  <2>3. CASE S!Has(b, {S!MARK}) /\ Cut(Frontmost(b))
    <3>1. HostAt(b, g) = [buf |-> Frontmost(b), out |-> <<>>]
      BY <2>3, HostAtIs
    <3>2. Frontmost(b) \in S!Bytes
      BY <2>3, FoundIs
    <3> QED BY <2>1, <3>1, <3>2 DEF Results
  <2>4. CASE S!Has(b, {S!MARK}) /\ ~Cut(Frontmost(b))
    <3> DEFINE q == S!From(Frontmost(b), 5 + Frontmost(b)[4])
               p == SubSeq(Frontmost(b), 5, 4 + Frontmost(b)[4])
               o == <<p>>
    <3>1. HostAt(b, g) = [g[q] EXCEPT !.out = o \o @]
      BY <2>4, HostAtIs
    <3>2. q \in D /\ p \in S!Bytes
      BY <2>4, FoundIs, Uncut
    <3>3. g[q] \in Results
      <4> HIDE DEF q, D
      <4> QED BY <3>2
    <3>4. o \in Seq(Marked)
      <4>1. p \in Marked
        BY <3>2, BytesAreMarked
      <4> HIDE DEF p
      <4> QED BY <4>1
    <3> HIDE DEF q, o
    <3> QED BY <3>1, <3>3, <3>4, PutBefore
  <2> QED BY <2>2, <2>3, <2>4
<1>5. ASSUME NEW b \in D, NEW g, NEW h, \A c \in D : m[c] < m[b] => g[c] = h[c]
      PROVE  HostAt(b, g) = HostAt(b, h)
  <2>1. S!Has(b, {S!MARK}) /\ ~Cut(Frontmost(b)) =>
          g[S!From(Frontmost(b), 5 + Frontmost(b)[4])] = h[S!From(Frontmost(b), 5 + Frontmost(b)[4])]
    <3> SUFFICES ASSUME S!Has(b, {S!MARK}), ~Cut(Frontmost(b))
                 PROVE  g[S!From(Frontmost(b), 5 + Frontmost(b)[4])] = h[S!From(Frontmost(b), 5 + Frontmost(b)[4])]
      OBVIOUS
    <3> DEFINE q == S!From(Frontmost(b), 5 + Frontmost(b)[4])
    <3>1. q \in D /\ Len(q) < Len(b)
      <4>1. /\ Frontmost(b) \in S!Bytes /\ Len(Frontmost(b)) \in Nat /\ Len(Frontmost(b)) <= Len(b)
            /\ q \in D /\ Len(q) < Len(Frontmost(b))
        BY FoundIs, Uncut
      <4>2. Len(q) \in Nat /\ Len(b) \in Nat
        BY <4>1, LenProperties DEF S!Bytes
      <4> HIDE DEF q
      <4> QED BY <4>1, <4>2
    <3> HIDE DEF q, D
    <3>2. g[q] = h[q]
      BY <1>2, <1>5, <3>1
    <3> QED BY <3>2 DEF q
  <2> QED BY <2>1, HostAtIs
<1>6. RestsBelow(Fn, D, m, W)
  <2> HIDE DEF D, V, W
  <2> QED BY <1>1, <1>5 DEF RestsBelow
<1>7. ASSUME NEW g \in [D -> V], Solves(g, Fn, D) PROVE Host = [b \in D |-> Fn[b][Host]]
  <2>1. g = [b \in D |-> HostAt(b, g)]
    <3> HIDE DEF D
    <3> QED BY <1>1, <1>7 DEF Solves
  <2>2. Host = [b \in D |-> HostAt(b, Host)]
    BY <2>1, Zenon DEF Host
  <2> HIDE DEF D
  <2> QED BY <1>1, <2>2
<1>8. Host \in [D -> V] /\ \A b \in D : Host[b] = Fn[b][Host]
  <2>1. m \in [D -> Nat] /\ [buf |-> <<>>, out |-> <<>>] \in V
    BY <1>0, <1>2
  <2>2. RestsBelow(Fn, D, m, [D -> V] \cup {Host})
    BY <1>6
  <2>3. TypedIn(Fn, D, V)
    <3>1. \A b \in D : \A g \in [D -> V] : Fn[b][g] = HostAt(b, g)
      BY <1>1
    <3> HIDE DEF D, V
    <3> QED BY <1>4, <3>1 DEF TypedIn
  <2>4. ChosenFrom(Host, Fn, D, V)
    <3> HIDE DEF D, V
    <3> QED BY <1>7 DEF ChosenFrom
  <2> HIDE DEF D, V, W
  <2>5. Chooses(Host, Fn, D, V, m)
    BY <2>1, <2>2, <2>3, <2>4 DEF Chooses
  <2> QED BY <2>5, Chosen
<1> QED BY <1>1, <1>8

\* What is read of bytes and what follows them.
LEMMA FoundBoth ==
  ASSUME NEW a \in S!Bytes, NEW c \in S!Bytes
  PROVE  /\ a \o c \in S!Bytes
         /\ S!Has(a, {S!MARK}) => S!Has(a \o c, {S!MARK}) /\ Frontmost(a \o c) = Frontmost(a) \o c
         /\ ~S!Has(a, {S!MARK}) =>
              /\ S!Has(a \o c, {S!MARK}) <=> S!Has(c, {S!MARK})
              /\ S!Has(c, {S!MARK}) => Frontmost(a \o c) = Frontmost(c)
<1> DEFINE X == 0 .. 255
           K == {S!MARK}
           s == a \o c
<1>1. a \in Seq(X) /\ c \in Seq(X) /\ Len(a) \in Nat /\ Len(c) \in Nat
  BY LenProperties DEF S!Bytes
<1> HIDE DEF X, K
<1>2. /\ s \in Seq(X) /\ Len(s) = Len(a) + Len(c)
      /\ \A i \in 1 .. Len(a) + Len(c) : s[i] = IF i <= Len(a) THEN a[i] ELSE c[i - Len(a)]
  BY <1>1, ConcatProperties
<1> HIDE DEF s
<1>3. \A i \in 1 .. Len(a) : i \in 1 .. Len(s) /\ s[i] = a[i]
  <2>1. \A i \in 1 .. Len(a) : i \in 1 .. Len(a) + Len(c) /\ i <= Len(a)
    BY <1>1
  <2> QED BY <1>2, <2>1
<1>4. \A i \in 1 .. Len(c) : Len(a) + i \in 1 .. Len(s) /\ s[Len(a) + i] = c[i]
  <2>1. \A i \in 1 .. Len(c) : Len(a) + i \in 1 .. Len(a) + Len(c) /\ ~(Len(a) + i <= Len(a)) /\ Len(a) + i - Len(a) = i
    BY <1>1
  <2> QED BY <1>2, <2>1
<1>5. \A i \in 1 .. Len(s) : i \in 1 .. Len(a) \/ \E j \in 1 .. Len(c) : i = Len(a) + j
  <2>1. ASSUME NEW i \in 1 .. Len(s), i \notin 1 .. Len(a) PROVE \E j \in 1 .. Len(c) : i = Len(a) + j
    <3>1. i - Len(a) \in 1 .. Len(c) /\ i = Len(a) + (i - Len(a))
      BY <1>1, <1>2, <2>1
    <3> QED BY <3>1
  <2> QED BY <2>1
<1>6. ASSUME S!Has(a, K) PROVE S!Has(s, K) /\ S!From(s, S!First(s, K)) = S!From(a, S!First(a, K)) \o c
  <2> DEFINE k == S!First(a, K)
  <2>1. k \in 1 .. Len(a) /\ a[k] \in K /\ \A j \in 1 .. k - 1 : a[j] \notin K
    BY <1>1, <1>6, FirstIs
  <2> HIDE DEF k
  <2>2. k \in 1 .. Len(s) /\ s[k] \in K /\ \A j \in 1 .. k - 1 : s[j] \notin K
    <3>1. \A j \in 1 .. k - 1 : j \in 1 .. Len(a)
      BY <1>1, <2>1
    <3> QED BY <1>3, <2>1, <3>1
  <2>3. S!Has(s, K) /\ S!First(s, K) = k
    BY <1>2, <2>2, FirstAt
  <2>4. S!From(s, k) = S!From(a, k) \o c
    <3> DEFINE u == S!From(s, k)
               v == S!From(a, k)
               w == v \o c
    <3>1. /\ u \in Seq(X) /\ Len(u) = Len(s) - k + 1
          /\ \A j \in 1 .. Len(s) - k + 1 : u[j] = s[k + j - 1]
      <4>1. k \in 1 .. Len(s) + 1
        BY <1>1, <1>2, <2>2
      <4> QED BY <1>2, <4>1, Rest
    <3>2. /\ v \in Seq(X) /\ Len(v) = Len(a) - k + 1
          /\ \A j \in 1 .. Len(a) - k + 1 : v[j] = a[k + j - 1]
      <4>1. k \in 1 .. Len(a) + 1
        BY <1>1, <2>1
      <4> QED BY <1>1, <4>1, Rest
    <3> HIDE DEF u, v
    <3>3. /\ w \in Seq(X) /\ Len(w) = Len(v) + Len(c)
          /\ \A i \in 1 .. Len(v) + Len(c) : w[i] = IF i <= Len(v) THEN v[i] ELSE c[i - Len(v)]
      BY <1>1, <3>2, ConcatProperties
    <3> HIDE DEF w
    <3>4. Len(u) = Len(w)
      BY <1>1, <1>2, <2>1, <3>1, <3>2, <3>3
    <3>5. ASSUME NEW i \in 1 .. Len(u) PROVE u[i] = w[i]
      <4>1. i \in 1 .. Len(s) - k + 1 /\ i \in 1 .. Len(v) + Len(c)
        BY <1>1, <1>2, <2>1, <3>1, <3>2
      <4>2. CASE i <= Len(v)
        <5>1. i \in 1 .. Len(a) - k + 1 /\ k + i - 1 \in 1 .. Len(a)
          BY <1>1, <2>1, <3>2, <4>1, <4>2
        <5> QED BY <1>3, <3>1, <3>2, <3>3, <4>1, <4>2, <5>1
      <4>3. CASE ~(i <= Len(v))
        <5>1. i - Len(v) \in 1 .. Len(c) /\ k + i - 1 = Len(a) + (i - Len(v))
          BY <1>1, <2>1, <3>2, <4>1, <4>3
        <5> QED BY <1>4, <3>1, <3>3, <4>1, <4>3, <5>1
      <4> QED BY <4>2, <4>3
    <3>6. u = w
      BY <3>1, <3>3, <3>4, <3>5, SeqEqual
    <3> QED BY <3>6 DEF u, v, w
  <2> QED BY <2>3, <2>4 DEF k
<1>7. ASSUME ~S!Has(a, K) PROVE /\ S!Has(s, K) <=> S!Has(c, K)
                                /\ S!Has(c, K) => S!From(s, S!First(s, K)) = S!From(c, S!First(c, K))
  <2>1. \A i \in 1 .. Len(a) : s[i] \notin K
    BY <1>3, <1>7 DEF S!Has
  <2>2. S!Has(s, K) => S!Has(c, K)
    BY <1>4, <1>5, <2>1 DEF S!Has
  <2>3. ASSUME S!Has(c, K) PROVE S!Has(s, K) /\ S!From(s, S!First(s, K)) = S!From(c, S!First(c, K))
    <3> DEFINE k == S!First(c, K)
    <3>1. k \in 1 .. Len(c) /\ c[k] \in K /\ \A j \in 1 .. k - 1 : c[j] \notin K
      BY <1>1, <2>3, FirstIs
    <3> HIDE DEF k
    <3>2. PICK l : l = Len(a) + k
      OBVIOUS
    <3>3. l \in 1 .. Len(s) /\ s[l] \in K
      BY <1>4, <3>1, <3>2
    <3>4. ASSUME NEW j \in 1 .. l - 1 PROVE s[j] \notin K
      <4>1. CASE j <= Len(a)
        <5>1. j \in 1 .. Len(a)
          BY <1>1, <3>1, <3>2, <4>1
        <5> QED BY <2>1, <5>1
      <4>2. CASE ~(j <= Len(a))
        <5>1. j - Len(a) \in 1 .. k - 1 /\ j - Len(a) \in 1 .. Len(c) /\ Len(a) + (j - Len(a)) = j
          BY <1>1, <3>1, <3>2, <4>2
        <5> QED BY <1>4, <3>1, <5>1
      <4> QED BY <4>1, <4>2
    <3>5. S!Has(s, K) /\ S!First(s, K) = l
      BY <1>2, <3>3, <3>4, FirstAt
    <3>6. S!From(s, l) = S!From(c, k)
      <4> DEFINE u == S!From(s, l)
                 v == S!From(c, k)
      <4>1. /\ u \in Seq(X) /\ Len(u) = Len(s) - l + 1
            /\ \A j \in 1 .. Len(s) - l + 1 : u[j] = s[l + j - 1]
        <5>1. l \in 1 .. Len(s) + 1
          BY <1>1, <1>2, <3>3
        <5> QED BY <1>2, <5>1, Rest
      <4>2. /\ v \in Seq(X) /\ Len(v) = Len(c) - k + 1
            /\ \A j \in 1 .. Len(c) - k + 1 : v[j] = c[k + j - 1]
        <5>1. k \in 1 .. Len(c) + 1
          BY <1>1, <3>1
        <5> QED BY <1>1, <5>1, Rest
      <4> HIDE DEF u, v
      <4>3. Len(u) = Len(v)
        BY <1>1, <1>2, <3>1, <3>2, <4>1, <4>2
      <4>4. ASSUME NEW i \in 1 .. Len(u) PROVE u[i] = v[i]
        <5>1. /\ i \in 1 .. Len(s) - l + 1 /\ i \in 1 .. Len(c) - k + 1
              /\ k + i - 1 \in 1 .. Len(c) /\ l + i - 1 = Len(a) + (k + i - 1)
          BY <1>1, <1>2, <3>1, <3>2, <4>1
        <5> QED BY <1>4, <4>1, <4>2, <5>1
      <4>5. u = v
        BY <4>1, <4>2, <4>3, <4>4, SeqEqual
      <4> QED BY <4>5 DEF u, v
    <3> QED BY <3>5, <3>6 DEF k
  <2> QED BY <2>2, <2>3
<1>8. s \in Seq(0 .. 255)
  BY <1>2 DEF X
<1>9. S!Has(a, {S!MARK}) => S!Has(s, {S!MARK}) /\ Frontmost(s) = Frontmost(a) \o c
  BY <1>6 DEF Frontmost, K
<1>10. ~S!Has(a, {S!MARK}) => /\ S!Has(s, {S!MARK}) <=> S!Has(c, {S!MARK})
                              /\ S!Has(c, {S!MARK}) => Frontmost(s) = Frontmost(c)
  <2>1. CASE S!Has(a, {S!MARK})
    BY <2>1
  <2>2. CASE ~S!Has(a, {S!MARK})
    <3>1. /\ S!Has(s, {S!MARK}) <=> S!Has(c, {S!MARK})
          /\ S!Has(c, {S!MARK}) => S!From(s, S!First(s, {S!MARK})) = S!From(c, S!First(c, {S!MARK}))
      BY <1>7, <2>2 DEF K
    <3> QED BY <2>2, <3>1 DEF Frontmost
  <2> QED BY <2>1, <2>2
<1>11. a \o c \in S!Bytes
  BY <1>8 DEF s, S!Bytes
<1>12. S!Has(a, {S!MARK}) => S!Has(a \o c, {S!MARK}) /\ Frontmost(a \o c) = Frontmost(a) \o c
  BY <1>9 DEF s
<1>13. ~S!Has(a, {S!MARK}) => /\ S!Has(a \o c, {S!MARK}) <=> S!Has(c, {S!MARK})
                              /\ S!Has(c, {S!MARK}) => Frontmost(a \o c) = Frontmost(c)
  BY <1>10 DEF s
<1> QED BY <1>11, <1>12, <1>13

\* A frame that begins the buffer is found at its beginning.
LEMMA FoundAtOnce ==
  ASSUME NEW f \in S!Bytes, Len(f) \in Nat \ {0}, f[1] = S!MARK
  PROVE  S!Has(f, {S!MARK}) /\ Frontmost(f) = f
<1> DEFINE X == 0 .. 255
<1>1. f \in Seq(X)
  BY DEF S!Bytes
<1> HIDE DEF X
<1>2. S!Has(f, {S!MARK}) /\ S!First(f, {S!MARK}) = 1
  <2>1. 1 \in 1 .. Len(f) /\ f[1] \in {S!MARK} /\ \A j \in 1 .. 1 - 1 : f[j] \notin {S!MARK}
    OBVIOUS
  <2> QED BY <1>1, <2>1, FirstAt
<1>3. SubSeq(f, 1, Len(f)) = f
  <2>1. PICK a : a = 1
    OBVIOUS
  <2>2. a \in 1 .. Len(f) + 1 /\ Len(f) \in a - 1 .. Len(f) /\ Len(f) - a + 1 = Len(f)
    BY <2>1
  <2>3. \A i \in 1 .. Len(f) : f[a + i - 1] = f[i]
    <3>1. \A i \in 1 .. Len(f) : a + i - 1 = i
      BY <2>1
    <3> QED BY <3>1
  <2>4. SubSeq(f, a, Len(f)) = f
    BY <1>1, <2>2, <2>3, Middle
  <2> QED BY <2>1, <2>4
<1> QED BY <1>2, <1>3 DEF Frontmost, S!From

\* What follows a frame that is whole does not change it.
LEMMA WholeStays ==
  ASSUME NEW f \in S!Bytes, NEW c \in S!Bytes, ~Cut(f)
  PROVE  /\ f \o c \in S!Bytes /\ ~Cut(f \o c) /\ (f \o c)[4] = f[4]
         /\ SubSeq(f \o c, 5, 4 + f[4]) = SubSeq(f, 5, 4 + f[4])
         /\ S!From(f \o c, 5 + f[4]) = S!From(f, 5 + f[4]) \o c
<1> DEFINE X == 0 .. 255
           g == f \o c
<1>1. f \in Seq(X) /\ c \in Seq(X) /\ Len(f) \in Nat /\ Len(c) \in Nat
  BY LenProperties DEF S!Bytes
<1>2. PICK n : n = f[4]
  OBVIOUS
<1>3. n \in 0 .. 255 /\ 4 + n <= Len(f)
  BY <1>2, Uncut
<1> HIDE DEF X
<1>4. /\ g \in Seq(X) /\ Len(g) = Len(f) + Len(c)
      /\ \A i \in 1 .. Len(f) + Len(c) : g[i] = IF i <= Len(f) THEN f[i] ELSE c[i - Len(f)]
  BY <1>1, ConcatProperties
<1> HIDE DEF g
<1>5. \A i \in 1 .. Len(f) : g[i] = f[i]
  <2>1. \A i \in 1 .. Len(f) : i \in 1 .. Len(f) + Len(c) /\ i <= Len(f)
    BY <1>1
  <2> QED BY <1>4, <2>1
<1>6. g[4] = n
  <2>1. 4 \in 1 .. Len(f)
    BY <1>1, <1>3
  <2> QED BY <1>2, <1>5, <2>1
<1>7. ~Cut(g)
  <2>1. ~(Len(g) < 4) /\ ~(Len(g) < 4 + n)
    BY <1>1, <1>3, <1>4
  <2> QED BY <1>6, <2>1 DEF Cut
<1>8. SubSeq(g, 5, 4 + n) = SubSeq(f, 5, 4 + n)
  <2> DEFINE p == SubSeq(f, 5, 4 + n)
  <2>1. p \in Seq(X) /\ Len(p) = n /\ \A i \in 1 .. n : p[i] = f[i + 4]
    BY <1>2, Uncut DEF X, S!Bytes
  <2> HIDE DEF p
  <2>2. PICK a, b : a = 5 /\ b = 4 + n
    OBVIOUS
  <2>3. a \in 1 .. Len(g) + 1 /\ b \in a - 1 .. Len(g) /\ b - a + 1 = Len(p)
    BY <1>1, <1>3, <1>4, <2>1, <2>2
  <2>4. \A i \in 1 .. Len(p) : g[a + i - 1] = p[i]
    <3>1. \A i \in 1 .. n : a + i - 1 = i + 4 /\ i + 4 \in 1 .. Len(f)
      BY <1>1, <1>3, <2>2
    <3> QED BY <1>5, <2>1, <3>1
  <2>5. SubSeq(g, a, b) = p
    BY <1>4, <2>1, <2>3, <2>4, Middle
  <2> QED BY <2>2, <2>5 DEF p
<1>9. S!From(g, 5 + n) = S!From(f, 5 + n) \o c
  <2> DEFINE v == S!From(f, 5 + n)
             w == v \o c
  <2>1. PICK k : k = 5 + n
    OBVIOUS
  <2>2. k \in 1 .. Len(f) + 1 /\ k \in 1 .. Len(g) + 1
    <3>1. k \in Nat \ {0} /\ k <= Len(f) + 1
      BY <1>1, <1>3, <2>1
    <3>2. Len(g) = Len(f) + Len(c)
      BY <1>4
    <3> QED BY <1>1, <3>1, <3>2
  <2>3. /\ S!From(g, k) \in Seq(X) /\ Len(S!From(g, k)) = Len(g) - k + 1
        /\ \A j \in 1 .. Len(g) - k + 1 : S!From(g, k)[j] = g[k + j - 1]
    BY <1>4, <2>2, Rest
  <2>4. /\ v \in Seq(X) /\ Len(v) = Len(f) - k + 1
        /\ \A j \in 1 .. Len(f) - k + 1 : v[j] = f[k + j - 1]
    <3>1. /\ S!From(f, k) \in Seq(X) /\ Len(S!From(f, k)) = Len(f) - k + 1
          /\ \A j \in 1 .. Len(f) - k + 1 : S!From(f, k)[j] = f[k + j - 1]
      BY <1>1, <2>2, Rest
    <3> QED BY <2>1, <3>1
  <2> HIDE DEF v
  <2>5. /\ w \in Seq(X) /\ Len(w) = Len(v) + Len(c)
        /\ \A i \in 1 .. Len(v) + Len(c) : w[i] = IF i <= Len(v) THEN v[i] ELSE c[i - Len(v)]
    BY <1>1, <2>4, ConcatProperties
  <2> DEFINE u == S!From(g, k)
  <2> HIDE DEF w, u
  <2>6. u \in Seq(X) /\ Len(u) = Len(w)
    <3>1. u \in Seq(X) /\ Len(u) = Len(g) - k + 1
      BY <2>3 DEF u
    <3> QED BY <1>1, <1>4, <2>2, <2>4, <2>5, <3>1
  <2>7. ASSUME NEW i \in 1 .. Len(u) PROVE u[i] = w[i]
    <3>1. /\ i \in 1 .. Len(g) - k + 1 /\ i \in 1 .. Len(v) + Len(c)
          /\ k + i - 1 \in 1 .. Len(f) + Len(c)
      BY <1>1, <1>4, <2>2, <2>4, <2>5, <2>6, <2>7
    <3>2. u[i] = g[k + i - 1]
      BY <2>3, <3>1 DEF u
    <3>3. CASE i <= Len(v)
      <4>1. i \in 1 .. Len(f) - k + 1 /\ k + i - 1 \in 1 .. Len(f)
        BY <1>1, <2>2, <2>4, <3>1, <3>3
      <4> QED BY <1>5, <2>4, <2>5, <3>1, <3>2, <3>3, <4>1
    <3>4. CASE ~(i <= Len(v))
      <4>1. PICK j : j = k + i - 1
        OBVIOUS
      <4>2. j \in 1 .. Len(f) + Len(c) /\ ~(j <= Len(f)) /\ j - Len(f) = i - Len(v)
        BY <1>1, <2>2, <2>4, <3>1, <3>4, <4>1
      <4>3. g[j] = c[i - Len(v)]
        BY <1>4, <4>2
      <4>4. w[i] = c[i - Len(v)]
        BY <2>5, <3>1, <3>4
      <4> QED BY <3>2, <4>1, <4>3, <4>4
    <3> QED BY <3>3, <3>4
  <2>8. u = w
    BY <2>5, <2>6, <2>7, SeqEqual
  <2> QED BY <2>1, <2>8 DEF u, v, w
<1> QED BY <1>2, <1>4, <1>6, <1>7, <1>8, <1>9 DEF g, X, S!Bytes

\* One frame read, and the rest of the buffer after it.
Carried(b) == SubSeq(Frontmost(b), 5, 4 + Frontmost(b)[4])
Behind(b) == S!From(Frontmost(b), 5 + Frontmost(b)[4])
ReadOne(b, p, q) ==
  /\ q \in S!Bytes /\ p \in Marked /\ Len(q) < Len(b)
  /\ Host[q] \in Results /\ Host[b] = [Host[q] EXCEPT !.out = <<p>> \o @]
  /\ Host[b].buf = Host[q].buf /\ Host[b].out = <<p>> \o Host[q].out
LEMMA HostReads ==
  ASSUME NEW b \in S!Bytes, S!Has(b, {S!MARK}), ~Cut(Frontmost(b))
  PROVE  ReadOne(b, Carried(b), Behind(b))
<1>0. PICK p, q : p = Carried(b) /\ q = Behind(b)
  OBVIOUS
<1>1. /\ Frontmost(b) \in S!Bytes /\ Len(Frontmost(b)) \in Nat /\ Len(Frontmost(b)) <= Len(b)
  BY FoundIs
<1>2. q \in S!Bytes /\ p \in S!Bytes /\ Len(q) < Len(Frontmost(b))
  BY <1>0, <1>1, Uncut DEF Carried, Behind
<1>3. p \in Marked /\ <<p>> \in Seq(Marked)
  <2>1. p \in Marked
    BY <1>2, BytesAreMarked
  <2> QED BY <2>1
<1>4. Len(q) < Len(b)
  <2>1. Len(q) \in Nat /\ Len(b) \in Nat
    BY <1>2, LenProperties DEF S!Bytes
  <2> QED BY <1>1, <1>2, <2>1
<1>5. Host[q] \in Results
  BY <1>2, Hosts
<1> DEFINE o == <<p>>
<1>6. Host[b] = [Host[q] EXCEPT !.out = o \o @]
  <2>1. Host[b] = HostAt(b, Host)
    BY Hosts
  <2> QED BY <1>0, <2>1, HostAtIs DEF Carried, Behind
<1>7. o \in Seq(Marked)
  BY <1>3
<1> HIDE DEF o
<1>8. /\ [Host[q] EXCEPT !.out = o \o @].buf = Host[q].buf
      /\ [Host[q] EXCEPT !.out = o \o @].out = o \o Host[q].out
  BY <1>5, <1>7, PutBefore
<1> QED BY <1>0, <1>2, <1>3, <1>4, <1>5, <1>6, <1>8 DEF o, ReadOne

\* Two reads bring together what one of both pieces would.
TwoReads(a, c) ==
  /\ Host[a \o c].buf = Host[Host[a].buf \o c].buf
  /\ Host[a \o c].out = Host[a].out \o Host[Host[a].buf \o c].out

\* Two reads are like one if they are so for every shorter buffer.
LEMMA ReadsAlike ==
  ASSUME NEW a \in S!Bytes, NEW c \in S!Bytes, \A x \in S!Bytes : Len(x) < Len(a) => TwoReads(x, c)
  PROVE  TwoReads(a, c)
<1>1. a \o c \in S!Bytes /\ Host[a \o c] = HostAt(a \o c, Host) /\ Host[a] = HostAt(a, Host)
  BY FoundBoth, Hosts
<1>2. CASE ~S!Has(a, {S!MARK})
  <2>1. Host[a].buf = <<>> /\ Host[a].out = <<>>
    <3>1. Host[a] = [buf |-> <<>>, out |-> <<>>]
      BY <1>1, <1>2, HostAtIs
    <3> QED BY <3>1
  <2>2. Host[a].buf \o c = c
    BY <2>1, ConcatEmptySeq DEF S!Bytes
  <2>3. Host[c] = HostAt(c, Host) /\ Host[c] \in Results
    BY Hosts
  <2>4. <<>> \o Host[c].out = Host[c].out
    <3>1. Host[c].out \in Seq(Marked)
      BY <2>3 DEF Results
    <3> QED BY <3>1, ConcatEmptySeq
  <2>5. Host[a \o c] = Host[c]
    <3>1. CASE S!Has(c, {S!MARK})
      <4>1. S!Has(a \o c, {S!MARK}) /\ Frontmost(a \o c) = Frontmost(c)
        BY <1>2, <3>1, FoundBoth
      <4>2. HostAt(a \o c, Host) = HostAt(c, Host)
        BY <3>1, <4>1, HostAtIs
      <4> QED BY <1>1, <2>3, <4>2
    <3>2. CASE ~S!Has(c, {S!MARK})
      <4>1. ~S!Has(a \o c, {S!MARK})
        BY <1>2, <3>2, FoundBoth
      <4>2. HostAt(a \o c, Host) = HostAt(c, Host)
        BY <3>2, <4>1, HostAtIs
      <4> QED BY <1>1, <2>3, <4>2
    <3> QED BY <3>1, <3>2
  <2> QED BY <2>1, <2>2, <2>4, <2>5 DEF TwoReads
<1>3. ASSUME S!Has(a, {S!MARK})
      PROVE  /\ Frontmost(a) \in S!Bytes /\ Len(Frontmost(a)) \in Nat \ {0} /\ Frontmost(a)[1] = S!MARK
             /\ S!Has(a \o c, {S!MARK}) /\ Frontmost(a \o c) = Frontmost(a) \o c
  BY <1>3, FoundIs, FoundBoth
<1>4. CASE S!Has(a, {S!MARK}) /\ Cut(Frontmost(a))
  <2>1. PICK f : f = Frontmost(a)
    OBVIOUS
  <2>2. Host[a].buf = f /\ Host[a].out = <<>>
    <3>1. Host[a] = [buf |-> f, out |-> <<>>]
      BY <1>1, <1>4, <2>1, HostAtIs
    <3> QED BY <3>1
  <2>3. f \in S!Bytes /\ S!Has(f, {S!MARK}) /\ Frontmost(f) = f
    BY <1>3, <1>4, <2>1, FoundAtOnce
  <2>4. f \o c \in S!Bytes /\ S!Has(f \o c, {S!MARK}) /\ Frontmost(f \o c) = f \o c
    <3>1. f \o c \in S!Bytes /\ S!Has(f \o c, {S!MARK}) /\ Frontmost(f \o c) = Frontmost(f) \o c
      BY <2>3, FoundBoth
    <3> QED BY <2>3, <3>1
  <2>5. Host[f \o c] = HostAt(f \o c, Host) /\ Host[f \o c] \in Results
    BY <2>4, Hosts
  <2>6. HostAt(a \o c, Host) = HostAt(f \o c, Host)
    BY <1>3, <1>4, <2>1, <2>4, HostAtIs
  <2>7. <<>> \o Host[f \o c].out = Host[f \o c].out
    <3>1. Host[f \o c].out \in Seq(Marked)
      BY <2>5 DEF Results
    <3> QED BY <3>1, ConcatEmptySeq
  <2> QED BY <1>1, <2>2, <2>5, <2>6, <2>7 DEF TwoReads
<1>5. CASE S!Has(a, {S!MARK}) /\ ~Cut(Frontmost(a))
  <2>1. PICK f, n : f = Frontmost(a) /\ n = f[4]
    OBVIOUS
  <2>2. PICK p, q : p = SubSeq(f, 5, 4 + n) /\ q = S!From(f, 5 + n)
    OBVIOUS
  <2>3. /\ q \in S!Bytes /\ p \in Marked /\ Len(q) < Len(a) /\ Host[q] \in Results
        /\ Host[a].buf = Host[q].buf /\ Host[a].out = <<p>> \o Host[q].out
    <3>1. p = Carried(a) /\ q = Behind(a)
      BY <2>1, <2>2 DEF Carried, Behind
    <3>2. ReadOne(a, Carried(a), Behind(a))
      BY <1>5, HostReads
    <3> QED BY <3>1, <3>2 DEF ReadOne
  <2>4. /\ Frontmost(a \o c) = f \o c /\ ~Cut(f \o c) /\ (f \o c)[4] = n
        /\ p = SubSeq(f \o c, 5, 4 + n) /\ q \o c = S!From(f \o c, 5 + n)
    BY <1>3, <1>5, <2>1, <2>2, WholeStays
  <2>5. /\ q \o c \in S!Bytes /\ Host[q \o c] \in Results
        /\ Host[a \o c].buf = Host[q \o c].buf /\ Host[a \o c].out = <<p>> \o Host[q \o c].out
    <3>1. PICK b, z : b = a \o c /\ z = q \o c
      OBVIOUS
    <3>2. /\ b \in S!Bytes /\ S!Has(b, {S!MARK}) /\ ~Cut(Frontmost(b))
          /\ p = Carried(b) /\ z = Behind(b)
      BY <1>1, <1>3, <1>5, <2>4, <3>1 DEF Carried, Behind
    <3>3. /\ z \in S!Bytes /\ Host[z] \in Results
          /\ Host[b].buf = Host[z].buf /\ Host[b].out = <<p>> \o Host[z].out
      <4>1. ReadOne(b, Carried(b), Behind(b))
        BY <3>2, HostReads
      <4> QED BY <3>2, <4>1 DEF ReadOne
    <3> QED BY <3>1, <3>3
  <2>6. TwoReads(q, c)
    BY <2>3
  <2>7. Host[q].buf \in S!Bytes /\ Host[q].out \in Seq(Marked)
    BY <2>3 DEF Results
  <2>8. Host[Host[q].buf \o c].out \in Seq(Marked)
    <3>1. Host[q].buf \o c \in S!Bytes
      BY <2>7, FoundBoth
    <3>2. Host[Host[q].buf \o c] \in Results
      BY <3>1, Hosts
    <3> QED BY <3>2 DEF Results
  <2>9. PICK o, r, t : o = <<p>> /\ r = Host[q].out /\ t = Host[Host[q].buf \o c].out
    OBVIOUS
  <2>10. (o \o r) \o t = o \o (r \o t)
    <3>1. o \in Seq(Marked) /\ r \in Seq(Marked) /\ t \in Seq(Marked)
      BY <2>3, <2>7, <2>8, <2>9
    <3> QED BY <3>1, ConcatAssociative
  <2>11. Host[a \o c].out = o \o (r \o t)
    BY <2>5, <2>6, <2>9 DEF TwoReads
  <2> QED BY <2>3, <2>5, <2>6, <2>9, <2>10, <2>11 DEF TwoReads
<1> QED BY <1>2, <1>4, <1>5

\* A read may end anywhere: what is read of two pieces, the second after what
\* the first left in the buffer, is what would be read of both at once
\* (pactor.py, decode_host_stream: incomplete frames remain in the buffer for
\* the next read).
THEOREM HostReadsAnywhere ==
  \A a, c \in S!Bytes :
    LET first == S!DecodeHost(a)
        second == S!DecodeHost(first.buf \o c)
    IN /\ S!DecodeHost(a \o c).buf = second.buf
       /\ S!DecodeHost(a \o c).out = first.out \o second.out
<1>1. ASSUME NEW c \in S!Bytes PROVE \A a \in S!Bytes : TwoReads(a, c)
  <2> DEFINE D == S!Bytes
             m == [b \in D |-> Len(b)]
             G == {b \in D : TwoReads(b, c)}
  <2>1. m \in [D -> Nat] /\ \A b \in D : m[b] = Len(b)
    BY DEF S!Bytes
  <2> HIDE DEF m
  <2>2. ASSUME NEW x \in D, \A y \in D : m[y] < m[x] => y \in G PROVE x \in G
    <3>1. \A y \in S!Bytes : Len(y) < Len(x) => TwoReads(y, c)
      BY <2>1, <2>2
    <3>2. TwoReads(x, c)
      BY <3>1, ReadsAlike
    <3> QED BY <3>2
  <2>3. D \subseteq G
    <3> HIDE DEF D, G
    <3> QED BY <2>1, <2>2, ByMeasure
  <2> QED BY <2>3
<1> QED BY <1>1, HostIs DEF TwoReads

\* A frame of at most 255 bytes that is encoded and sent is read as the bytes
\* it was made of, and what follows it as it would be alone (pactor.py:
\* encode_host_frame, decode_host_stream).
THEOREM HostFrameComesBack ==
  \A data_, rest \in S!Bytes :
    Len(data_) <= 255 =>
      S!DecodeHost(S!HostEncode(data_) \o rest) = [S!DecodeHost(rest) EXCEPT !.out = <<data_>> \o @]
<1>1. ASSUME NEW d \in S!Bytes, NEW r \in S!Bytes, Len(d) <= 255
      PROVE  S!DecodeHost(S!HostEncode(d) \o r) = [S!DecodeHost(r) EXCEPT !.out = <<d>> \o @]
  <2> DEFINE X == 0 .. 255
             n == Len(d)
             h == <<S!MARK, 1, 2, n>>
             e == h \o d
             b == e \o r
  <2>1. d \in Seq(X) /\ r \in Seq(X) /\ n \in 0 .. 255 /\ Len(r) \in Nat
    <3>1. d \in Seq(X) /\ r \in Seq(X)
      BY DEF S!Bytes
    <3> HIDE DEF X
    <3>2. Len(d) \in Nat /\ Len(r) \in Nat
      BY <3>1, LenProperties
    <3>3. n \in 0 .. 255
      <4>1. n \in Nat /\ n <= 255
        BY <1>1, <3>2 DEF n
      <4> HIDE DEF n
      <4> QED BY <4>1
    <3> QED BY <3>1, <3>2, <3>3
  <2>2. h \in Seq(X) /\ Len(h) = 4 /\ h[1] = S!MARK /\ h[4] = n
    <3> HIDE DEF n
    <3>1. S!MARK \in X /\ 1 \in X /\ 2 \in X /\ n \in X
      BY <2>1 DEF S!MARK
    <3> HIDE DEF X
    <3> QED BY <3>1
  <2>3. b = S!HostEncode(d) \o r
    BY DEF S!HostEncode
  <2> HIDE DEF X, h, n
  <2>4. /\ e \in Seq(X) /\ Len(e) = Len(h) + Len(d)
        /\ \A i \in 1 .. Len(h) + Len(d) : e[i] = IF i <= Len(h) THEN h[i] ELSE d[i - Len(h)]
    BY <2>1, <2>2, ConcatProperties
  <2> HIDE DEF e
  <2>5. /\ b \in Seq(X) /\ Len(b) = Len(e) + Len(r)
        /\ \A i \in 1 .. Len(e) + Len(r) : b[i] = IF i <= Len(e) THEN e[i] ELSE r[i - Len(e)]
    <3>1. e \in Seq(X) /\ r \in Seq(X)
      BY <2>1, <2>4
    <3> QED BY <3>1, ConcatProperties
  <2>6. S!From(b, Len(e) + 1) = r
    BY <2>1, <2>4, RestOf
  <2> HIDE DEF b
  <2>7. Len(d) = n /\ Len(e) = n + 4 /\ Len(b) = n + 4 + Len(r)
    <3>1. Len(d) = n
      BY DEF n
    <3>2. n \in Nat /\ Len(r) \in Nat
      BY <2>1
    <3>3. Len(e) = 4 + n /\ Len(b) = Len(e) + Len(r)
      BY <2>2, <2>4, <2>5, <3>1
    <3> QED BY <3>1, <3>2, <3>3
  <2>8. \A i \in 1 .. n + 4 : b[i] = IF i <= 4 THEN h[i] ELSE d[i - 4]
    <3>1. \A i \in 1 .. n + 4 : i \in 1 .. Len(e) + Len(r) /\ i <= Len(e) /\ i \in 1 .. Len(h) + Len(d)
      BY <2>1, <2>2, <2>7
    <3> QED BY <2>2, <2>4, <2>5, <3>1
  <2>9. b[1] = S!MARK /\ b[4] = n
    <3>1. 1 \in 1 .. n + 4 /\ 1 <= 4 /\ 4 \in 1 .. n + 4 /\ 4 <= 4
      BY <2>1
    <3> QED BY <2>2, <2>8, <3>1
  <2>10. b \in S!Bytes /\ S!Has(b, {S!MARK}) /\ Frontmost(b) = b
    <3>1. b \in S!Bytes
      BY <2>5 DEF X, S!Bytes
    <3>2. Len(b) \in Nat \ {0}
      BY <2>1, <2>7
    <3> QED BY <2>9, <3>1, <3>2, FoundAtOnce
  <2>11. ~Cut(b)
    <3>1. ~(Len(b) < 4) /\ ~(Len(b) < 4 + n)
      BY <2>1, <2>7
    <3> QED BY <2>9, <3>1 DEF Cut
  <2>12. SubSeq(b, 5, 4 + n) = d
    <3>1. PICK a, c : a = 5 /\ c = 4 + n
      OBVIOUS
    <3>2. a \in 1 .. Len(b) + 1 /\ c \in a - 1 .. Len(b) /\ c - a + 1 = Len(d)
      BY <2>1, <2>7, <3>1
    <3>3. \A i \in 1 .. Len(d) : b[a + i - 1] = d[i]
      <4>1. \A i \in 1 .. n : a + i - 1 \in 1 .. n + 4 /\ ~(a + i - 1 <= 4) /\ a + i - 1 - 4 = i
        BY <2>1, <3>1
      <4>2. \A i \in 1 .. n : b[a + i - 1] = d[i]
        <5> SUFFICES ASSUME NEW i \in 1 .. n PROVE b[a + i - 1] = d[i]
          OBVIOUS
        <5>1. PICK j : j = a + i - 1
          OBVIOUS
        <5>2. j \in 1 .. n + 4 /\ ~(j <= 4) /\ j - 4 = i
          BY <2>1, <3>1, <5>1
        <5>3. b[j] = d[j - 4]
          BY <2>8, <5>2
        <5> QED BY <5>1, <5>2, <5>3
      <4> QED BY <2>7, <4>2
    <3>4. SubSeq(b, a, c) = d
      BY <2>1, <2>5, <3>2, <3>3, Middle
    <3> QED BY <3>1, <3>4
  <2>13. S!From(b, 5 + n) = r
    <3>1. Len(e) + 1 = 5 + n
      BY <2>1, <2>7
    <3> QED BY <2>6, <3>1
  <2>14. Host[b] = [Host[r] EXCEPT !.out = <<d>> \o @]
    <3>1. d = Carried(b) /\ r = Behind(b)
      BY <2>9, <2>10, <2>12, <2>13 DEF Carried, Behind
    <3>2. ReadOne(b, Carried(b), Behind(b))
      BY <2>10, <2>11, HostReads
    <3> QED BY <3>1, <3>2 DEF ReadOne
  <2> QED BY <2>3, <2>14, HostIs
<1> QED BY <1>1

-----------------------------------------------------------------------------
(***************************************************************************)
(* The transmitter, the scheduler and the transfer.                        *)
(***************************************************************************)
TxBounds == frames \in 0 .. MaxFrames /\ failures \in 0 .. MaxFailures

\* Each failure and each frame is counted up to its bound.
LEMMA TxBounded == TxBounds /\ [ServicesNext]_servicesVars => TxBounds'
<1> SUFFICES ASSUME TxBounds, [ServicesNext]_servicesVars PROVE TxBounds'
  OBVIOUS
<1> USE LimitsAssumption DEF TxBounds
<1>1. CASE UNCHANGED tx_vars
  BY <1>1 DEF tx_vars
<1>2. CASE T!Next
  <2>1. CASE T!SendFrame
    BY <2>1 DEF T!SendFrame
  <2>2. CASE T!Take
    BY <2>2 DEF T!Take
  <2>3. CASE T!ThreadOpens
    BY <2>3 DEF T!ThreadOpens, T!Fails
  <2>4. CASE T!ThreadKeys
    BY <2>4 DEF T!ThreadKeys, T!Fails
  <2>5. CASE T!Sent \/ T!AudioFails
    BY <2>5 DEF T!Sent, T!AudioFails, T!Release, T!Fails
  <2>6. CASE T!Cancelled
    BY <2>6 DEF T!Cancelled, T!Release, T!Fails
  <2>7. CASE T!Closes
    BY <2>7 DEF T!Closes, T!Release, T!Fails
  <2>8. CASE T!Keyed \/ T!Plays \/ T!Stop \/ T!Close \/ T!LetGo \/ T!CleansUp
    BY <2>8 DEF T!Keyed, T!Plays, T!Stop, T!Close, T!LetGo, T!CleansUp
  <2> QED BY <1>2, <2>1, <2>2, <2>3, <2>4, <2>5, <2>6, <2>7, <2>8 DEF T!Next
<1> QED
  BY <1>1, <1>2 DEF ServicesNext, ConferenceStep, StreamsStep, YappStep, TransmitterStep,
                    ScheduleStep, servicesVars, tx_vars

\* The typing of the transmitter and its bounds are its type invariant.
LEMMA TxType == TxInv /\ TxBounds => T!TypeOK
  BY DEF TxInv, TxTyped, TxBounds, T!TypeOK, T!Sending

-----------------------------------------------------------------------------
\* The clock stops before its last minute is over, and a sleep is at most a minute.
LastTick == Ticks * MaxMinutes
SchedBounds ==
  /\ now \in Nat /\ (now < Ticks \/ now < LastTick)
  /\ wake \in Nat /\ Ticks <= wake /\ wake <= now + Ticks

\* Time goes on within the last minute, a sleep begins at the present.
LEMMA SchedBounded == SchedBounds /\ [ServicesNext]_servicesVars => SchedBounds'
<1> SUFFICES ASSUME SchedBounds, [ServicesNext]_servicesVars PROVE SchedBounds'
  OBVIOUS
<1>1. CASE UNCHANGED sched_vars
  BY <1>1 DEF sched_vars, SchedBounds
<1>2. CASE F!Next
  <2>1. LastTick \in Nat
    BY ClockAssumption DEF LastTick
  <2>2. Ticks \in Nat
    BY ClockAssumption
  <2>3. CASE F!Wake \/ F!Visit \/ F!SessionEnds
    BY <2>3 DEF F!Wake, F!Visit, F!SessionEnds, SchedBounds
  <2>4. CASE F!PassEnds
    <3>1. now' = now /\ wake' = now + Ticks
      BY <2>4 DEF F!PassEnds
    <3> QED BY <2>1, <2>2, <3>1 DEF SchedBounds
  <2>5. CASE F!Advance
    <3>1. now' = now + 1 /\ wake' = wake /\ now + 1 < LastTick
      BY <2>5 DEF F!Advance, LastTick
    <3> QED BY <2>1, <2>2, <3>1 DEF SchedBounds
  <2> QED BY <1>2, <2>3, <2>4, <2>5 DEF F!Next
<1> QED
  BY <1>1, <1>2 DEF ServicesNext, ConferenceStep, StreamsStep, YappStep, TransmitterStep,
                    ScheduleStep, servicesVars, sched_vars

\* No call is noted of a minute behind the last one.
LEMMA SchedType == SchedInv /\ SchedBounds => F!TypeOK
<1> SUFFICES ASSUME SchedInv, SchedBounds PROVE F!TypeOK
  OBVIOUS
<1>1. now \in Nat /\ wake \in Ticks .. now + Ticks /\ Ticks \in Nat \ {0} /\ MaxMinutes \in Nat
  BY ClockAssumption DEF SchedBounds
<1>2. MinuteOf(now) \in Nat /\ MinuteOf(now) <= MaxMinutes
  <2>1. MinuteOf(now) \in Nat
    BY <1>1, Clock
  <2>2. CASE now < Ticks
    BY <1>1, <2>1, <2>2, Clock
  <2>3. CASE now < LastTick
    <3>1. now \div Ticks <= MaxMinutes
      <4> DEFINE q == now \div Ticks
      <4>1. q \in Nat /\ q * Ticks <= now
        BY <1>1
      <4> HIDE DEF q
      <4>2. ~(q >= MaxMinutes + 1)
        <5> SUFFICES ASSUME q >= MaxMinutes + 1 PROVE FALSE
          OBVIOUS
        <5>1. q * Ticks >= (MaxMinutes + 1) * Ticks
          BY <1>1, <4>1
        <5>2. (MaxMinutes + 1) * Ticks = Ticks * MaxMinutes + Ticks
          BY <1>1
        <5>3. LastTick \in Nat /\ (MaxMinutes + 1) * Ticks = LastTick + Ticks
          BY <1>1, <5>2 DEF LastTick
        <5>4. PICK r \in Nat : r = q * Ticks
          BY <1>1, <4>1
        <5> QED BY <1>1, <2>3, <4>1, <5>1, <5>2, <5>3, <5>4
      <4>3. q <= MaxMinutes
        BY <1>1, <4>1, <4>2
      <4> QED BY <4>3 DEF q
    <3> QED BY <2>1, <3>1 DEF MinuteOf
  <2> QED BY <2>1, <2>2, <2>3 DEF SchedBounds
<1> HIDE DEF MinuteOf
<1>3. called \subseteq Neighbours \X (0 .. MaxMinutes)
  <2>1. ASSUME NEW n \in Neighbours, NEW m \in Nat, <<n, m>> \in called PROVE m \in 0 .. MaxMinutes
    <3>1. m <= MinuteOf(now)
      BY <2>1 DEF SchedInv, CalledRightly
    <3> QED BY <1>1, <1>2, <3>1
  <2>2. called \subseteq Neighbours \X Nat
    BY DEF SchedInv, SchedTyped
  <2> QED BY <2>1, <2>2
<1> QED BY <1>1, <1>3 DEF F!TypeOK, SchedInv, SchedTyped

-----------------------------------------------------------------------------
\* A transfer is counted once, when the sender's half is over; what is stored is what
\* has come.
YappBounds ==
  /\ size \in Sizes /\ stored \in Seq(Nat) /\ damages \in Nat
  /\ counted <= 1 /\ (sender \in {"ok", "ack"} => counted = 0)

LEMMA YappBounded == YappInv /\ YappBounds /\ [ServicesNext]_servicesVars => YappBounds'
<1> SUFFICES ASSUME YappInv, YappBounds, [ServicesNext]_servicesVars PROVE YappBounds'
  OBVIOUS
<1>1. CASE UNCHANGED yapp_vars
  BY <1>1 DEF yapp_vars, YappBounds
<1>2. CASE Y!Next
  <2>1. /\ counted \in Nat /\ data \in Seq(Nat) /\ size \in Sizes /\ stored \in Seq(Nat) /\ damages \in Nat
        /\ counted <= 1 /\ (sender \in {"ok", "ack"} => counted = 0)
    BY DEF YappInv, YappTyped, YappBounds
  <2>2. ASSUME UNCHANGED <<size, counted>>, stored' \in {stored, data}, damages' \in {damages, damages + 1},
               sender' \in {"ok", "ack"} => sender \in {"ok", "ack"}
        PROVE  YappBounds'
    BY <2>1, <2>2 DEF YappBounds
  <2>3. CASE Y!HearOk
    BY <2>2, <2>3 DEF Y!HearOk, Y!SendFrame
  <2>4. CASE Y!HearAck
    <3>1. /\ sender = "ack" /\ UNCHANGED <<size, stored, damages>>
          /\ \/ sender' \in {"failed", "ack"} /\ counted' = counted
             \/ sender' = "done" /\ counted' \in {counted, counted + 1}
      BY <2>4 DEF Y!HearAck, Y!SendFrame, Y!Counts
    <3> QED BY <2>1, <3>1 DEF YappBounds
  <2>5. CASE Y!HearAnnouncement
    BY <2>2, <2>5 DEF Y!HearAnnouncement
  <2>6. CASE Y!HearFrame
    <3>1. UNCHANGED <<size, sender, counted, damages>> /\ stored' \in {stored, data}
      BY <2>6, Zenon DEF Y!HearFrame, Y!Takes, Y!Receives, Y!Stores, Y!GivesUp
    <3> QED BY <2>2, <3>1
  <2>7. CASE Y!Damage
    BY <2>2, <2>7 DEF Y!Damage
  <2>8. CASE Y!Types
    BY <2>2, <2>8 DEF Y!Types
  <2>9. CASE Y!SenderTimeout \/ Y!ReceiverTimeout
    BY <2>2, <2>9 DEF Y!SenderTimeout, Y!ReceiverTimeout
  <2> QED BY <1>2, <2>3, <2>4, <2>5, <2>6, <2>7, <2>8, <2>9 DEF Y!Next
<1> QED
  BY <1>1, <1>2 DEF ServicesNext, ConferenceStep, StreamsStep, YappStep, TransmitterStep,
                    ScheduleStep, servicesVars, yapp_vars

\* The typing of the transfer and its bounds are its type invariant.
LEMMA YappType == YappInv /\ YappBounds => Y!TypeOK
  BY DEF Y!TypeOK, Y!Over, YappInv, YappTyped, YappBounds, ToReceiver, ToSender

\* The bounds hold at the start.
LEMMA OthersInitial == ServicesInit => TxBounds /\ SchedBounds /\ YappBounds
<1> SUFFICES ASSUME ServicesInit PROVE TxBounds /\ SchedBounds /\ YappBounds
  OBVIOUS
<1>1. TxBounds
  BY LimitsAssumption DEF ServicesInit, T!Init, TxBounds
<1>2. SchedBounds
  BY ClockAssumption DEF ServicesInit, F!Init, SchedBounds
<1>3. YappBounds
  BY DEF ServicesInit, Y!Init, Y!NoFile, YappBounds
<1> QED BY <1>1, <1>2, <1>3

-----------------------------------------------------------------------------
(***************************************************************************)
(* The decoders make bytes of bytes: commands of telnet, and lines.        *)
(***************************************************************************)
\* What follows the second byte or one behind it is shorter, however far behind.
LEMMA Onward ==
  ASSUME NEW b \in S!Bytes, b # <<>>, NEW i \in Nat, i >= 2
  PROVE  S!From(b, i) \in S!Bytes /\ Len(S!From(b, i)) < Len(b)
<1>1. b \in Seq(0 .. 255) /\ Len(b) \in Nat \ {0}
  BY Shorter DEF S!Bytes
<1>2. CASE i <= Len(b) + 1
  <2>1. i \in 1 .. Len(b) + 1
    BY <1>1, <1>2
  <2>2. S!From(b, i) \in Seq(0 .. 255) /\ Len(S!From(b, i)) = Len(b) - i + 1
    BY <1>1, <2>1, Rest
  <2> QED BY <1>1, <2>2 DEF S!Bytes
<1>3. CASE ~(i <= Len(b) + 1)
  <2>1. S!From(b, i) = <<>>
    <3>1. i \in Int /\ Len(b) \in Int /\ Len(b) < i
      BY <1>1, <1>3
    <3> QED BY <3>1, SubSeqEmpty DEF S!From
  <2> QED BY <1>1, <2>1 DEF S!Bytes
<1> QED BY <1>2, <1>3

Options == {S!WILL, S!WONT, S!DO, S!DONT}
SubEnds(d) == {i \in 3 .. Len(d) - 1 : d[i] = S!IAC /\ d[i + 1] = S!SE}
SkipTo(d) ==
  IF d[2] \in Options THEN 4
  ELSE IF d[2] # S!SB THEN 3
  ELSE IF SubEnds(d) # {} THEN S!Min(SubEnds(d)) + 2 ELSE IF Len(d) > 3 THEN Len(d) ELSE 3
TextAt(d, txt) ==
  IF d = <<>> THEN <<>>
  ELSE IF d[1] # S!IAC THEN <<d[1]>> \o txt[Tail(d)]
  ELSE IF Len(d) = 1 THEN <<>>
  ELSE CASE d[2] = S!IAC -> <<S!IAC>> \o txt[S!From(d, 3)]
         [] d[2] \in Options -> txt[S!From(d, 4)]
         [] d[2] = S!SB ->
              LET ends == {i \in 3 .. Len(d) - 1 : d[i] = S!IAC /\ d[i + 1] = S!SE}
              IN txt[S!From(d, IF ends # {} THEN S!Min(ends) + 2
                               ELSE IF Len(d) > 3 THEN Len(d) ELSE 3)]
         [] OTHER -> txt[S!From(d, 3)]
Text == CHOOSE f : f = [d \in S!Bytes |-> TextAt(d, f)]

\* Process is the recursive function Text.
LEMMA TextIs == \A d : S!Process(d) = Text[d]
  BY Zenon DEF S!Process, Text, TextAt, Options

\* One step of Text, its parts named.
LEMMA TextAtIs ==
  \A d, txt : TextAt(d, txt) =
    IF d = <<>> THEN <<>>
    ELSE IF d[1] # S!IAC THEN <<d[1]>> \o txt[Tail(d)]
    ELSE IF Len(d) = 1 THEN <<>>
    ELSE IF d[2] = S!IAC THEN <<S!IAC>> \o txt[S!From(d, 3)]
    ELSE txt[S!From(d, SkipTo(d))]
<1> SUFFICES ASSUME NEW d, NEW txt
             PROVE  TextAt(d, txt) =
                      IF d = <<>> THEN <<>>
                      ELSE IF d[1] # S!IAC THEN <<d[1]>> \o txt[Tail(d)]
                      ELSE IF Len(d) = 1 THEN <<>>
                      ELSE IF d[2] = S!IAC THEN <<S!IAC>> \o txt[S!From(d, 3)]
                      ELSE txt[S!From(d, SkipTo(d))]
  OBVIOUS
<1>1. S!IAC = 255 /\ Options = 251 .. 254 /\ S!SB = 250
  BY DEF S!IAC, Options, S!WILL, S!WONT, S!DO, S!DONT, S!SB
<1>2. CASE d = <<>> \/ d[1] # S!IAC \/ Len(d) = 1
  BY <1>2 DEF TextAt
<1>3. CASE d # <<>> /\ d[1] = S!IAC /\ Len(d) # 1
  <2>1. CASE d[2] = S!IAC
    <3>1. d[2] \notin Options /\ d[2] # S!SB
      BY <1>1, <2>1
    <3> QED BY <1>3, <2>1, <3>1 DEF TextAt
  <2>2. CASE d[2] \in Options
    <3>1. d[2] # S!IAC /\ d[2] # S!SB
      BY <1>1, <2>2
    <3> QED BY <1>3, <2>2, <3>1 DEF TextAt, SkipTo
  <2>3. CASE d[2] = S!SB
    <3>1. d[2] # S!IAC /\ d[2] \notin Options
      BY <1>1, <2>3
    <3> QED BY <1>3, <2>3, <3>1 DEF TextAt, SkipTo, SubEnds
  <2>4. CASE d[2] \notin Options \cup {S!IAC, S!SB}
    BY <1>3, <2>4 DEF TextAt, SkipTo
  <2> QED BY <2>1, <2>2, <2>3, <2>4
<1> QED BY <1>2, <1>3

\* A command is at least two bytes.
LEMMA SkipIs ==
  ASSUME NEW d \in S!Bytes, d # <<>>, Len(d) # 1
  PROVE  S!From(d, SkipTo(d)) \in S!Bytes /\ Len(S!From(d, SkipTo(d))) < Len(d)
<1>1. Len(d) \in Nat
  BY LenProperties DEF S!Bytes
<1>2. SkipTo(d) \in Nat /\ SkipTo(d) >= 2
  <2>1. SubEnds(d) # {} => S!Min(SubEnds(d)) \in Nat
    <3>1. SubEnds(d) \in SUBSET Nat
      BY <1>1 DEF SubEnds
    <3> QED BY <3>1, MinIs
  <2> DEFINE k == S!Min(SubEnds(d))
  <2> HIDE DEF k
  <2>2. SubEnds(d) # {} => k \in Nat
    BY <2>1 DEF k
  <2>3. SkipTo(d) \in {3, 4, Len(d), k + 2}
        /\ (SkipTo(d) = Len(d) => SkipTo(d) \in {3, 4} \/ Len(d) > 3 \/ SubEnds(d) # {})
        /\ (SkipTo(d) = k + 2 => SkipTo(d) \in {3, 4} \/ Len(d) > 3 \/ SubEnds(d) # {})
    BY DEF SkipTo, k
  <2> QED BY <1>1, <2>2, <2>3 DEF SkipTo, k
<1> QED BY <1>2, Onward

\* Text is defined on every sequence of bytes, and is one again.
LEMMA ProcessTyped ==
  Text \in [S!Bytes -> S!Bytes] /\ \A b \in S!Bytes : Text[b] = TextAt(b, Text)
<1> DEFINE D == S!Bytes
           V == S!Bytes
           m == [b \in D |-> Len(b)]
           W == [D -> V] \cup {Text}
           Fn == [b \in D |-> [g \in W |-> TextAt(b, g)]]
<1>1. \A b \in D : \A g \in W : Fn[b][g] = TextAt(b, g)
  OBVIOUS
<1>2. m \in [D -> Nat] /\ \A b \in D : m[b] = Len(b)
  BY DEF S!Bytes
<1>0. <<>> \in V
  BY DEF S!Bytes
<1> HIDE DEF m, Fn
<1>4. ASSUME NEW b \in D, NEW g \in [D -> V] PROVE TextAt(b, g) \in V
  <2>1. b # <<>> => /\ b[1] \in 0 .. 255 /\ g[Tail(b)] \in V
                    /\ Len(b) # 1 => g[S!From(b, 3)] \in V /\ g[S!From(b, SkipTo(b))] \in V
    <3>1. b # <<>> => /\ Tail(b) \in D /\ b[1] \in 0 .. 255
                      /\ Len(b) # 1 => S!From(b, 3) \in D /\ S!From(b, SkipTo(b)) \in D
      BY Shorter, SkipIs
    <3> HIDE DEF D, V
    <3> QED BY <3>1
  <2>2. \A x \in 0 .. 255 : \A q \in V : <<x>> \o q \in V
    BY Puttings DEF S!Bytes
  <2>3. S!IAC \in 0 .. 255
    BY DEF S!IAC
  <2> HIDE DEF D, V
  <2>4. b # <<>> => /\ <<b[1]>> \o g[Tail(b)] \in V
                    /\ Len(b) # 1 => <<S!IAC>> \o g[S!From(b, 3)] \in V /\ g[S!From(b, SkipTo(b))] \in V
    BY <2>1, <2>2, <2>3
  <2> QED BY <1>0, <2>4, TextAtIs
<1>5. ASSUME NEW b \in D, NEW g, NEW h, \A c \in D : m[c] < m[b] => g[c] = h[c]
      PROVE  TextAt(b, g) = TextAt(b, h)
  <2>1. b # <<>> => /\ g[Tail(b)] = h[Tail(b)]
                    /\ Len(b) # 1 => g[S!From(b, 3)] = h[S!From(b, 3)] /\ g[S!From(b, SkipTo(b))] = h[S!From(b, SkipTo(b))]
    <3>1. b # <<>> => /\ Tail(b) \in D /\ Len(Tail(b)) < Len(b)
                      /\ Len(b) # 1 => /\ S!From(b, 3) \in D /\ Len(S!From(b, 3)) < Len(b)
                                       /\ S!From(b, SkipTo(b)) \in D /\ Len(S!From(b, SkipTo(b))) < Len(b)
      BY Shorter, SkipIs
    <3> HIDE DEF D
    <3> QED BY <1>2, <1>5, <3>1
  <2> QED BY <2>1, TextAtIs
<1>6. RestsBelow(Fn, D, m, W)
  <2> HIDE DEF D, V, W
  <2> QED BY <1>1, <1>5 DEF RestsBelow
<1>7. ASSUME NEW g \in [D -> V], Solves(g, Fn, D) PROVE Text = [b \in D |-> Fn[b][Text]]
  <2>1. g = [b \in D |-> TextAt(b, g)]
    <3> HIDE DEF D
    <3> QED BY <1>1, <1>7 DEF Solves
  <2>2. Text = [b \in D |-> TextAt(b, Text)]
    BY <2>1, Zenon DEF Text
  <2> HIDE DEF D
  <2> QED BY <1>1, <2>2
<1>8. Text \in [D -> V] /\ \A b \in D : Text[b] = Fn[b][Text]
  <2>1. m \in [D -> Nat] /\ <<>> \in V
    BY <1>0, <1>2
  <2>2. RestsBelow(Fn, D, m, [D -> V] \cup {Text})
    BY <1>6
  <2>3. TypedIn(Fn, D, V)
    <3>1. \A b \in D : \A g \in [D -> V] : Fn[b][g] = TextAt(b, g)
      BY <1>1
    <3> HIDE DEF D, V
    <3> QED BY <1>4, <3>1 DEF TypedIn
  <2>4. ChosenFrom(Text, Fn, D, V)
    <3> HIDE DEF D, V
    <3> QED BY <1>7 DEF ChosenFrom
  <2> HIDE DEF D, V, W
  <2>5. Chooses(Text, Fn, D, V, m)
    BY <2>1, <2>2, <2>3, <2>4 DEF Chooses
  <2> QED BY <2>5, Chosen
<1> QED BY <1>1, <1>8

TheLine(d, b) == IF d = "telnet" THEN S!ExtractLine(b) ELSE S!AX25Line(b)
LineAt(d, b, read) ==
  IF ~S!Has(b, {S!CR, S!LF}) THEN [buf |-> b, out |-> <<>>]
  ELSE LET l == IF d = "telnet" THEN S!ExtractLine(b) ELSE S!AX25Line(b)
       IN [read[l[2]] EXCEPT !.out = <<l[1]>> \o @]
LineRead(d) == CHOOSE f : f = [b \in S!Bytes |-> LineAt(d, b, f)]

\* Lines is the recursive function LineRead.
LEMMA LinesAre == \A d, b : S!Lines(d, b) = LineRead(d)[b]
  BY Zenon DEF S!Lines, LineRead, LineAt

\* One step of LineRead, its parts named.
LEMMA LineAtIs ==
  \A d, b, read : LineAt(d, b, read) =
    IF ~S!Has(b, {S!CR, S!LF}) THEN [buf |-> b, out |-> <<>>]
    ELSE [read[TheLine(d, b)[2]] EXCEPT !.out = <<TheLine(d, b)[1]>> \o @]
  BY Zenon DEF LineAt, TheLine

\* What is before an end of line of one byte or two, and what is behind it.
LEMMA LineParts ==
  ASSUME NEW b \in S!Bytes, NEW i \in 1 .. Len(b), NEW k \in {1, 2}
  PROVE  /\ SubSeq(b, 1, i - 1) \in S!Bytes /\ S!From(b, i + k) \in S!Bytes
         /\ Len(S!From(b, i + k)) < Len(b)
<1>1. b \in Seq(0 .. 255) /\ Len(b) \in Nat
  BY LenProperties DEF S!Bytes
<1>2. b # <<>>
  BY <1>1
<1>3. i + k \in Nat /\ i + k >= 2
  BY <1>1
<1>4. SubSeq(b, 1, i - 1) \in S!Bytes
  <2>1. PICK a, c : a = 1 /\ c = i - 1
    OBVIOUS
  <2>2. a \in 1 .. Len(b) + 1 /\ c \in a - 1 .. Len(b)
    BY <1>1, <2>1
  <2>3. SubSeq(b, a, c) \in Seq(0 .. 255)
    BY <1>1, <2>2, Part
  <2> QED BY <2>1, <2>3 DEF S!Bytes
<1>5. PICK n : n = i + k
  OBVIOUS
<1>6. S!From(b, n) \in S!Bytes /\ Len(S!From(b, n)) < Len(b)
  BY <1>2, <1>3, <1>5, Onward
<1> QED BY <1>4, <1>5, <1>6

\* A line and what follows it are bytes, and what follows is shorter.
LEMMA LineIs ==
  ASSUME NEW d, NEW b \in S!Bytes, S!Has(b, {S!CR, S!LF})
  PROVE  /\ TheLine(d, b)[1] \in S!Bytes /\ TheLine(d, b)[2] \in S!Bytes
         /\ Len(TheLine(d, b)[2]) < Len(b)
<1>1. b \in Seq(0 .. 255) /\ Len(b) \in Nat
  BY LenProperties DEF S!Bytes
<1>2. ASSUME NEW i \in 1 .. Len(b), NEW k \in {1, 2}, TheLine(d, b) = <<SubSeq(b, 1, i - 1), S!From(b, i + k)>>
      PROVE  /\ TheLine(d, b)[1] \in S!Bytes /\ TheLine(d, b)[2] \in S!Bytes
             /\ Len(TheLine(d, b)[2]) < Len(b)
  <2>1. /\ SubSeq(b, 1, i - 1) \in S!Bytes /\ S!From(b, i + k) \in S!Bytes
        /\ Len(S!From(b, i + k)) < Len(b)
    BY LineParts
  <2>2. TheLine(d, b)[1] = SubSeq(b, 1, i - 1) /\ TheLine(d, b)[2] = S!From(b, i + k)
    BY <1>2
  <2> QED BY <2>1, <2>2
<1>3. CASE d = "telnet"
  <2> DEFINE i == S!First(b, {S!CR, S!LF})
             k == IF b[i] = S!CR /\ i < Len(b) /\ b[i + 1] = S!LF THEN 2 ELSE 1
  <2>1. i \in 1 .. Len(b) /\ k \in {1, 2}
    BY <1>1, FirstIs
  <2>2. TheLine(d, b) = <<SubSeq(b, 1, i - 1), S!From(b, i + k)>>
    BY <1>3 DEF TheLine, S!ExtractLine
  <2> HIDE DEF i, k
  <2> QED BY <1>2, <2>1, <2>2
<1>4. CASE d # "telnet"
  <2> DEFINE pairs == {i \in 1 .. Len(b) - 1 : b[i] = S!CR /\ b[i + 1] = S!LF}
  <2>1. TheLine(d, b) = S!AX25Line(b)
    BY <1>4 DEF TheLine
  <2>2. CASE pairs # {}
    <3> DEFINE i == S!Min(pairs)
    <3>1. i \in 1 .. Len(b)
      <4>1. pairs \in SUBSET Nat
        BY <1>1
      <4>2. i \in pairs
        <5> HIDE DEF pairs
        <5> QED BY <2>2, <4>1, MinIs
      <4>3. pairs \subseteq 1 .. Len(b)
        BY <1>1
      <4> HIDE DEF pairs, i
      <4> QED BY <4>2, <4>3
    <3>2. S!AX25Line(b) = <<SubSeq(b, 1, i - 1), S!From(b, i + 2)>>
      BY <2>2 DEF S!AX25Line
    <3> HIDE DEF i
    <3> QED BY <1>2, <2>1, <3>1, <3>2
  <2>3. CASE pairs = {} /\ S!Has(b, {S!CR})
    <3> DEFINE i == S!First(b, {S!CR})
    <3>1. i \in 1 .. Len(b)
      BY <1>1, <2>3, FirstIs
    <3>2. S!AX25Line(b) = <<SubSeq(b, 1, i - 1), S!From(b, i + 1)>>
      BY <2>3 DEF S!AX25Line
    <3> HIDE DEF i
    <3> QED BY <1>2, <2>1, <3>1, <3>2
  <2>4. CASE pairs = {} /\ ~S!Has(b, {S!CR})
    <3> DEFINE i == S!First(b, {S!LF})
    <3>1. S!Has(b, {S!LF})
      BY <2>4 DEF S!Has
    <3>2. i \in 1 .. Len(b)
      BY <1>1, <3>1, FirstIs
    <3>3. S!AX25Line(b) = <<SubSeq(b, 1, i - 1), S!From(b, i + 1)>>
      BY <2>4 DEF S!AX25Line
    <3> HIDE DEF i
    <3> QED BY <1>2, <2>1, <3>2, <3>3
  <2> QED BY <2>2, <2>3, <2>4
<1> QED BY <1>3, <1>4

\* Every line that is whole is handed on: what stays in the buffer has no end.
LineResults == {r \in Results : ~S!Has(r.buf, {S!CR, S!LF})}

\* LineRead is defined on every sequence of bytes, and leaves no line behind.
LEMMA LineReads ==
  ASSUME NEW d
  PROVE  /\ LineRead(d) \in [S!Bytes -> LineResults]
         /\ \A b \in S!Bytes : LineRead(d)[b] = LineAt(d, b, LineRead(d))
<1> DEFINE D == S!Bytes
           V == LineResults
           Rec == LineRead(d)
           m == [b \in D |-> Len(b)]
           W == [D -> V] \cup {Rec}
           Fn == [b \in D |-> [g \in W |-> LineAt(d, b, g)]]
<1>1. \A b \in D : \A g \in W : Fn[b][g] = LineAt(d, b, g)
  OBVIOUS
<1>2. m \in [D -> Nat] /\ \A b \in D : m[b] = Len(b)
  BY DEF S!Bytes
<1>0. [buf |-> <<>>, out |-> <<>>] \in V
  BY DEF LineResults, Results, S!Bytes, S!Has
<1> HIDE DEF m, Fn, Rec
<1>4. ASSUME NEW b \in D, NEW g \in [D -> V] PROVE LineAt(d, b, g) \in V
  <2>1. b \in S!Bytes /\ <<>> \in Seq(Marked)
    OBVIOUS
  <2>2. CASE ~S!Has(b, {S!CR, S!LF})
    <3>1. LineAt(d, b, g) = [buf |-> b, out |-> <<>>]
      BY <2>2, LineAtIs
    <3> QED BY <2>1, <2>2, <3>1 DEF LineResults, Results
  <2>3. CASE S!Has(b, {S!CR, S!LF})
    <3> DEFINE q == TheLine(d, b)[2]
               p == TheLine(d, b)[1]
               o == <<p>>
    <3>1. LineAt(d, b, g) = [g[q] EXCEPT !.out = o \o @]
      BY <2>3, LineAtIs
    <3>2. q \in D /\ p \in S!Bytes
      BY <2>3, LineIs
    <3>3. g[q] \in Results /\ ~S!Has(g[q].buf, {S!CR, S!LF})
      <4>1. g[q] \in V
        <5> HIDE DEF q, D, V
        <5> QED BY <3>2
      <4> HIDE DEF q
      <4> QED BY <4>1 DEF LineResults
    <3>4. o \in Seq(Marked)
      <4>1. p \in Marked
        BY <3>2, BytesAreMarked
      <4> HIDE DEF p
      <4> QED BY <4>1
    <3> HIDE DEF q, o
    <3>5. PICK r : r = g[q]
      OBVIOUS
    <3>6. [r EXCEPT !.out = o \o @] \in Results /\ [r EXCEPT !.out = o \o @].buf = r.buf
      BY <3>3, <3>4, <3>5, PutBefore
    <3>7. LineAt(d, b, g) \in Results /\ LineAt(d, b, g).buf = r.buf
      BY <3>1, <3>5, <3>6
    <3> QED BY <3>3, <3>5, <3>7 DEF LineResults
  <2> QED BY <2>2, <2>3
<1>5. ASSUME NEW b \in D, NEW g, NEW h, \A c \in D : m[c] < m[b] => g[c] = h[c]
      PROVE  LineAt(d, b, g) = LineAt(d, b, h)
  <2>1. S!Has(b, {S!CR, S!LF}) => g[TheLine(d, b)[2]] = h[TheLine(d, b)[2]]
    <3> SUFFICES ASSUME S!Has(b, {S!CR, S!LF}) PROVE g[TheLine(d, b)[2]] = h[TheLine(d, b)[2]]
      OBVIOUS
    <3> DEFINE q == TheLine(d, b)[2]
    <3>1. q \in D /\ Len(q) < Len(b)
      BY LineIs
    <3> HIDE DEF q, D
    <3>2. g[q] = h[q]
      BY <1>2, <1>5, <3>1
    <3> QED BY <3>2 DEF q
  <2> QED BY <2>1, LineAtIs
<1>6. RestsBelow(Fn, D, m, W)
  <2> HIDE DEF D, V, W
  <2> QED BY <1>1, <1>5 DEF RestsBelow
<1>7. ASSUME NEW g \in [D -> V], Solves(g, Fn, D) PROVE Rec = [b \in D |-> Fn[b][Rec]]
  <2>1. g = [b \in D |-> LineAt(d, b, g)]
    <3> HIDE DEF D
    <3> QED BY <1>1, <1>7 DEF Solves
  <2>2. Rec = [b \in D |-> LineAt(d, b, Rec)]
    BY <2>1, Zenon DEF LineRead, Rec
  <2> HIDE DEF D
  <2> QED BY <1>1, <2>2
<1>8. Rec \in [D -> V] /\ \A b \in D : Rec[b] = Fn[b][Rec]
  <2>1. m \in [D -> Nat] /\ [buf |-> <<>>, out |-> <<>>] \in V
    BY <1>0, <1>2
  <2>2. RestsBelow(Fn, D, m, [D -> V] \cup {Rec})
    BY <1>6
  <2>3. TypedIn(Fn, D, V)
    <3>1. \A b \in D : \A g \in [D -> V] : Fn[b][g] = LineAt(d, b, g)
      BY <1>1
    <3> HIDE DEF D, V
    <3> QED BY <1>4, <3>1 DEF TypedIn
  <2>4. ChosenFrom(Rec, Fn, D, V)
    <3> HIDE DEF D, V
    <3> QED BY <1>7 DEF ChosenFrom
  <2> HIDE DEF D, V, W
  <2>5. Chooses(Rec, Fn, D, V, m)
    BY <2>1, <2>2, <2>3, <2>4 DEF Chooses
  <2> QED BY <2>5, Chosen
<1> QED BY <1>1, <1>8 DEF Rec

\* What is left after the last flag that is found.
LEMMA FlagsLeave ==
  ASSUME NEW b \in S!Bytes
  PROVE  S!ExtractHdlc(b).buf \in S!Bytes
<1> DEFINE flags == S!FlagsOf(b)
<1>1. b \in Seq(0 .. 255) /\ Len(b) \in Nat
  BY LenProperties DEF S!Bytes
<1>2. S!ExtractHdlc(b).buf = IF flags = <<>> THEN b ELSE S!From(b, flags[Len(flags)])
  BY DEF S!ExtractHdlc
<1>3. flags \in Seq(1 .. Len(b))
  <2>1. Flagged(b) \in [1 .. Len(b) + 8 -> Seq(1 .. Len(b))] /\ 1 \in 1 .. Len(b) + 8
    BY <1>1, FlaggedSolves
  <2>2. Flagged(b)[1] \in Seq(1 .. Len(b))
    BY <2>1
  <2> QED BY <2>2, FlaggedIs
<1> HIDE DEF flags
<1>4. ASSUME flags # <<>> PROVE S!From(b, flags[Len(flags)]) \in S!Bytes
  <2>1. Len(flags) \in 1 .. Len(flags)
    BY <1>3, <1>4, LenProperties, EmptySeq
  <2>2. flags[Len(flags)] \in 1 .. Len(b)
    BY <1>3, <2>1, ElementOfSeq
  <2>3. PICK k : k = flags[Len(flags)]
    OBVIOUS
  <2>4. k \in 1 .. Len(b) + 1
    BY <1>1, <2>2, <2>3
  <2>5. S!From(b, k) \in Seq(0 .. 255)
    BY <1>1, <2>4, Rest
  <2> QED BY <2>3, <2>5 DEF S!Bytes
<1> QED BY <1>2, <1>4

ByLines(d) == d \notin {"kiss", "host", "hdlc"}
NoLine(b) == ~S!Has(b, {S!CR, S!LF})

\* Every decoder leaves bytes in its buffer, and one of lines no whole line.
LEMMA Decoded ==
  ASSUME NEW d, NEW b \in S!Bytes, NEW c \in S!Bytes
  PROVE  S!Decode(d, b, c).buf \in S!Bytes /\ (ByLines(d) => NoLine(S!Decode(d, b, c).buf))
<1>1. \A p \in S!Bytes : \A q \in S!Bytes : p \o q \in S!Bytes
  BY ConcatProperties DEF S!Bytes
<1>2. b \o c \in S!Bytes /\ b \o S!Process(c) \in S!Bytes
  <2>1. S!Process(c) \in S!Bytes
    BY TextIs, ProcessTyped
  <2> QED BY <1>1, <2>1
<1>3. ASSUME NEW p \in S!Bytes PROVE S!Lines(d, p).buf \in S!Bytes /\ NoLine(S!Lines(d, p).buf)
  <2>1. S!Lines(d, p) \in LineResults
    BY LinesAre, LineReads
  <2> QED BY <2>1 DEF LineResults, Results, NoLine
<1>4. CASE d = "telnet"
  <2>1. S!Decode(d, b, c) = S!Lines(d, b \o S!Process(c))
    BY <1>4 DEF S!Decode
  <2> QED BY <1>2, <1>3, <2>1
<1>5. CASE d = "kiss"
  <2>1. S!Decode(d, b, c) = Kiss[b \o c]
    BY <1>5, KissIs DEF S!Decode
  <2>2. Kiss[b \o c] \in Results
    BY <1>2, Kisss
  <2> QED BY <1>5, <2>1, <2>2 DEF Results, ByLines
<1>6. CASE d = "host"
  <2>1. S!Decode(d, b, c) = Host[b \o c]
    BY <1>6, HostIs DEF S!Decode
  <2>2. Host[b \o c] \in Results
    BY <1>2, Hosts
  <2> QED BY <1>6, <2>1, <2>2 DEF Results, ByLines
<1>7. CASE d = "hdlc"
  <2>1. S!Decode(d, b, c) = S!ExtractHdlc(b \o c)
    BY <1>7 DEF S!Decode
  <2> QED BY <1>2, <1>7, <2>1, FlagsLeave DEF ByLines
<1>8. CASE d \notin {"telnet", "kiss", "host", "hdlc"}
  <2>1. S!Decode(d, b, c) = S!Lines(d, b \o c)
    BY <1>8 DEF S!Decode
  <2> QED BY <1>2, <1>3, <2>1
<1> QED BY <1>4, <1>5, <1>6, <1>7, <1>8

Commands == {<<S!IAC, S!WILL, 24>>, <<S!IAC, S!WONT, 31>>, <<S!IAC, S!DO, 3>>, <<S!IAC, S!DONT, 1>>}

\* What is sent of a unit is bytes, by every encoder.
LEMMA UnitsAreBytes ==
  ASSUME NEW d \in S!AllDecoders, NEW u \in S!Units(d)
  PROVE  u.bytes \in S!Bytes
<1>1. \A p \in S!Bytes : \A q \in S!Bytes : p \o q \in S!Bytes
  BY ConcatProperties DEF S!Bytes
<1>2. \A k, p, q : S!Unit(k, p, q).bytes = p
  BY DEF S!Unit
<1>3. CASE d \in {"telnet", "ax25 CR", "ax25 LF", "ax25 CRLF"}
  <2>1. /\ <<97>> \in Seq(0 .. 255) /\ <<S!CR>> \in Seq(0 .. 255) /\ <<S!LF>> \in Seq(0 .. 255)
        /\ <<S!CR, S!LF>> \in Seq(0 .. 255) /\ <<S!IAC, S!IAC>> \in Seq(0 .. 255)
        /\ Commands \subseteq Seq(0 .. 255) /\ <<S!IAC, S!NOP>> \in Seq(0 .. 255)
        /\ <<S!IAC, S!SB, 31, 0, S!CR, S!IAC, S!SE>> \in Seq(0 .. 255)
    BY DEF Commands, S!CR, S!LF, S!IAC, S!WILL, S!WONT, S!DO, S!DONT, S!NOP, S!SB, S!SE
  <2>2. u.bytes \in {<<97>>, <<S!CR>>, <<S!LF>>, <<S!CR, S!LF>>, <<S!IAC, S!IAC>>,
                     <<S!IAC, S!NOP>>, <<S!IAC, S!SB, 31, 0, S!CR, S!IAC, S!SE>>} \cup Commands
    <3> DEFINE E == {<<S!CR>>, <<S!LF>>, <<S!CR, S!LF>>}
               B == {<<97>>, <<S!IAC, S!IAC>>, <<S!IAC, S!NOP>>,
                     <<S!IAC, S!SB, 31, 0, S!CR, S!IAC, S!SE>>} \cup Commands
    <3>1. ASSUME NEW e \in S!Ends(E) PROVE e.bytes \in E
      BY <1>2 DEF S!Ends
    <3>2. \A V \in SUBSET E : S!Ends(V) \subseteq S!Ends(E)
      BY DEF S!Ends
    <3>3. u \in S!Ends(E) \/ u.bytes \in B
      <4>1. CASE d = "telnet"
        BY <1>2, <4>1 DEF S!Units, S!Typed, Commands
      <4>2. CASE d # "telnet"
        <5>1. u \in S!Typed \cup S!Ends({<<S!CR>>}) \/ u \in S!Typed \cup S!Ends({<<S!LF>>})
              \/ u \in S!Typed \cup S!Ends({<<S!CR, S!LF>>})
          BY <1>3, <4>2 DEF S!Units
        <5>2. \A v \in S!Typed : v.bytes \in B
          BY <1>2 DEF S!Typed
        <5>3. {<<S!CR>>} \in SUBSET E /\ {<<S!LF>>} \in SUBSET E /\ {<<S!CR, S!LF>>} \in SUBSET E
          OBVIOUS
        <5> HIDE DEF E, B
        <5> QED BY <3>2, <5>1, <5>2, <5>3
      <4> QED BY <4>1, <4>2
    <3> QED BY <3>1, <3>3
  <2> QED BY <2>1, <2>2 DEF S!Bytes
<1>4. CASE d = "kiss"
  <2>1. ASSUME NEW f \in S!Bytes, NEW p, NEW c, 16 * p + c \in 0 .. 255 PROVE S!KissEncode(f, p, c) \in S!Bytes
    <3>1. PICK n \in 0 .. 255 : n = 16 * p + c
      BY <2>1
    <3>2. <<S!FEND, n>> \in S!Bytes /\ <<S!FEND>> \in S!Bytes
      BY DEF S!FEND, S!Bytes
    <3>3. S!Escaped(f) \in S!Bytes
      BY EscapedUndone DEF Undone
    <3>4. S!KissEncode(f, p, c) = <<S!FEND, n>> \o S!Escaped(f) \o <<S!FEND>>
      BY <3>1 DEF S!KissEncode
    <3> QED BY <1>1, <3>2, <3>3, <3>4
  <2>2. /\ <<1>> \in S!Bytes /\ <<S!FEND>> \in S!Bytes /\ <<S!FESC, S!TFEND>> \in S!Bytes /\ <<3>> \in S!Bytes
        /\ <<S!FEND, 16, 1, S!FESC, 7, S!FEND>> \in S!Bytes
    BY DEF S!FEND, S!FESC, S!TFEND, S!Bytes
  <2>3. \/ \E f \in {<<1>>, <<S!FEND>>, <<S!FESC, S!TFEND>>} : u.bytes = S!KissEncode(f, 1, 0)
        \/ u.bytes \in {S!KissEncode(<<3>>, 0, 1), <<S!FEND>>, <<S!FEND, 16, 1, S!FESC, 7, S!FEND>>}
    BY <1>2, <1>4 DEF S!Units
  <2>4. 16 * 1 + 0 \in 0 .. 255 /\ 16 * 0 + 1 \in 0 .. 255
    OBVIOUS
  <2>5. \A f \in S!Bytes : S!KissEncode(f, 1, 0) \in S!Bytes /\ S!KissEncode(f, 0, 1) \in S!Bytes
    BY <2>1, <2>4
  <2> QED BY <2>2, <2>3, <2>5
<1>5. CASE d = "host"
  <2>1. /\ <<S!MARK, 1, 2, 0>> \in S!Bytes /\ <<S!MARK, 1, 2, 1>> \in S!Bytes /\ <<S!MARK, 1, 2, 3>> \in S!Bytes
        /\ <<>> \in S!Bytes /\ <<S!MARK>> \in S!Bytes /\ <<S!MARK, 1, 2>> \in S!Bytes /\ <<7>> \in S!Bytes
    BY DEF S!MARK, S!Bytes
  <2>2. /\ S!HostEncode(<<>>) = <<S!MARK, 1, 2, 0>> \o <<>>
        /\ S!HostEncode(<<S!MARK>>) = <<S!MARK, 1, 2, 1>> \o <<S!MARK>>
        /\ S!HostEncode(<<S!MARK, 1, 2>>) = <<S!MARK, 1, 2, 3>> \o <<S!MARK, 1, 2>>
    BY DEF S!HostEncode
  <2>3. u.bytes \in {S!HostEncode(<<>>), S!HostEncode(<<S!MARK>>), S!HostEncode(<<S!MARK, 1, 2>>), <<7>>}
    <3>1. \/ \E f \in {<<>>, <<S!MARK>>, <<S!MARK, 1, 2>>} : u = S!Unit("frame", S!HostEncode(f), f)
          \/ u = S!Unit("none", <<7>>, <<>>)
      BY <1>5 DEF S!Units
    <3>2. (\E f \in {<<>>, <<S!MARK>>, <<S!MARK, 1, 2>>} : u.bytes = S!HostEncode(f)) \/ u.bytes = <<7>>
      BY <1>2, <3>1
    <3> QED BY <3>2
  <2>4. S!HostEncode(<<>>) \in S!Bytes /\ S!HostEncode(<<S!MARK>>) \in S!Bytes /\ S!HostEncode(<<S!MARK, 1, 2>>) \in S!Bytes
    BY <1>1, <2>1, <2>2
  <2> QED BY <2>1, <2>3, <2>4
<1>6. CASE d = "hdlc"
  <2>1. S!FLAG \in S!Bytes /\ \A f \in S!Frames : f \in S!Bytes
    BY DEF S!FLAG, S!Frames, S!Bytes
  <2>2. ASSUME NEW f \in S!Bytes PROVE S!HdlcOnAir(f) \in S!Bytes /\ S!HdlcEncode(f) \in S!Bytes
    <3>1. S!Stuff(f) \in S!Bytes
      BY StuffedIsBroken
    <3>2. ASSUME NEW p \in S!Bytes PROVE S!Octets(p) \in S!Bytes
      <4>1. Len(p) \in Nat
        BY LenProperties DEF S!Bytes
      <4>2. PICK n : n = (8 - (Len(p) % 8)) % 8
        OBVIOUS
      <4>3. n \in Nat
        BY <4>1, <4>2
      <4>4. [i \in 1 .. n |-> 0] \in Seq(0 .. 255)
        BY <4>3
      <4>5. S!Octets(p) = p \o [i \in 1 .. n |-> 0]
        BY <4>2 DEF S!Octets
      <4> QED BY <1>1, <4>4, <4>5 DEF S!Bytes
    <3>3. S!Octets(S!Stuff(f)) \in S!Bytes
      BY <3>1, <3>2
    <3> QED BY <1>1, <2>1, <3>1, <3>3 DEF S!HdlcOnAir, S!HdlcEncode
  <2>3. (\E f \in S!Frames : u.bytes \in {S!HdlcOnAir(f), S!HdlcEncode(f)}) \/ u.bytes = S!FLAG
    BY <1>2, <1>6 DEF S!Units
  <2> QED BY <2>1, <2>2, <2>3
<1> QED BY <1>3, <1>4, <1>5, <1>6 DEF S!AllDecoders

-----------------------------------------------------------------------------
(***************************************************************************)
(* The streams.                                                            *)
(***************************************************************************)
AllUnits == UNION {S!Units(d) : d \in S!AllDecoders}
OnWire == (0 .. 255) \X BOOLEAN
StreamsInv ==
  /\ decoder \in Decoders /\ sent \in Seq(AllUnits) /\ Len(sent) <= MaxUnits /\ cut \in BOOLEAN
  /\ wire \in Seq(OnWire) /\ buf \in S!Bytes /\ (ByLines(decoder) => NoLine(buf))

\* At the start nothing is sent or read.
LEMMA StreamsInitial == ServicesInit => StreamsInv
<1> SUFFICES ASSUME ServicesInit PROVE StreamsInv
  OBVIOUS
<1>1. /\ decoder \in Decoders /\ wire = <<>> /\ buf = <<>> /\ sent = <<>> /\ cut = FALSE
  BY DEF ServicesInit, S!Init
<1>2. <<>> \in Seq(AllUnits) /\ <<>> \in Seq(OnWire) /\ <<>> \in S!Bytes /\ Len(<<>>) = 0
  BY DEF S!Bytes
<1>3. NoLine(<<>>)
  BY DEF NoLine, S!Has
<1>4. Len(sent) <= MaxUnits
  BY <1>1, <1>2, StreamsAssumption
<1>5. sent \in Seq(AllUnits) /\ wire \in Seq(OnWire) /\ buf \in S!Bytes /\ NoLine(buf)
  BY <1>1, <1>2, <1>3, Zenon
<1>6. decoder \in Decoders /\ cut \in BOOLEAN
  BY <1>1
<1> QED BY <1>4, <1>5, <1>6, Zenon DEF StreamsInv

\* The other end sends a unit: its bytes follow those on the wire.
LEMMA SendKeeps ==
  ASSUME StreamsInv, NEW u \in S!Units(decoder), S!Send(u) PROVE StreamsInv'
<1>1. /\ Len(sent) < MaxUnits /\ sent' = Append(sent, u) /\ UNCHANGED <<decoder, buf, cut>>
      /\ wire' = wire \o [i \in 1 .. Len(u.bytes) |-> <<u.bytes[i], u.kind = "end" \/ i = Len(u.bytes)>>]
  BY DEF S!Send
<1>2. decoder \in S!AllDecoders /\ u \in AllUnits
  BY StreamsAssumption DEF StreamsInv, AllUnits
<1>3. sent' \in Seq(AllUnits) /\ Len(sent') <= MaxUnits
  <2>1. sent \in Seq(AllUnits) /\ Len(sent) \in Nat
    BY DEF StreamsInv
  <2>2. Append(sent, u) \in Seq(AllUnits) /\ Len(Append(sent, u)) = Len(sent) + 1
    BY <1>2, <2>1, AppendProperties
  <2> QED BY <1>1, <2>1, <2>2, StreamsAssumption
<1>4. wire' \in Seq(OnWire)
  <2> DEFINE more == [i \in 1 .. Len(u.bytes) |-> <<u.bytes[i], u.kind = "end" \/ i = Len(u.bytes)>>]
  <2>1. u.bytes \in S!Bytes
    BY <1>2, UnitsAreBytes
  <2>2. Len(u.bytes) \in Nat /\ \A i \in 1 .. Len(u.bytes) : u.bytes[i] \in 0 .. 255
    BY <2>1, LenProperties, ElementOfSeq DEF S!Bytes
  <2>3. \A i \in 1 .. Len(u.bytes) : <<u.bytes[i], u.kind = "end" \/ i = Len(u.bytes)>> \in OnWire
    BY <2>2 DEF OnWire
  <2>4. more \in Seq(OnWire)
    <3>1. more \in [1 .. Len(u.bytes) -> OnWire]
      BY <2>3
    <3>2. PICK k : k = Len(u.bytes)
      OBVIOUS
    <3>3. k \in Nat /\ more \in [1 .. k -> OnWire]
      BY <2>2, <3>1, <3>2
    <3> HIDE DEF more
    <3> QED BY <3>3
  <2>5. wire' = wire \o more
    BY <1>1
  <2> HIDE DEF more
  <2> QED BY <2>4, <2>5, ConcatProperties DEF StreamsInv
<1> QED BY <1>1, <1>3, <1>4 DEF StreamsInv

\* A read hands bytes to the decoder, which leaves bytes.
LEMMA ReadKeeps ==
  ASSUME StreamsInv, NEW n \in 1 .. Len(wire), S!Read(n) PROVE StreamsInv'
<1> DEFINE chunk == [i \in 1 .. n |-> wire[i][1]]
<1>1. /\ buf' = S!Decode(decoder, buf, chunk).buf /\ wire' = S!From(wire, n + 1)
      /\ cut' = (cut \/ ~wire[n][2]) /\ UNCHANGED <<decoder, sent>>
  BY DEF S!Read
<1>2. wire \in Seq(OnWire) /\ Len(wire) \in Nat /\ n \in Nat
  BY LenProperties DEF StreamsInv
<1>3. \A i \in 1 .. n : wire[i] \in OnWire
  <2>1. ASSUME NEW i \in 1 .. n PROVE i \in 1 .. Len(wire)
    BY <1>2
  <2> QED BY <1>2, <2>1, ElementOfSeq
<1>4. chunk \in S!Bytes
  <2>1. \A i \in 1 .. n : wire[i][1] \in 0 .. 255
    BY <1>3 DEF OnWire
  <2>2. chunk \in [1 .. n -> 0 .. 255]
    BY <2>1
  <2> HIDE DEF chunk
  <2> QED BY <1>2, <2>2 DEF S!Bytes
<1> HIDE DEF chunk
<1>5. buf' \in S!Bytes /\ (ByLines(decoder') => NoLine(buf'))
  BY <1>1, <1>4, Decoded DEF StreamsInv
<1>6. wire' \in Seq(OnWire)
  <2>1. n + 1 \in 1 .. Len(wire) + 1
    BY <1>2
  <2> QED BY <1>1, <1>2, <2>1, Rest
<1>7. cut' \in BOOLEAN
  <2>1. wire[n][2] \in BOOLEAN
    <3>1. n \in 1 .. n
      BY <1>2
    <3> QED BY <1>3, <3>1 DEF OnWire
  <2> QED BY <1>1
<1> QED BY <1>1, <1>5, <1>6, <1>7 DEF StreamsInv

\* Every step keeps the streams typed.
LEMMA StreamsMove == StreamsInv /\ [ServicesNext]_servicesVars => StreamsInv'
<1> SUFFICES ASSUME StreamsInv, [ServicesNext]_servicesVars PROVE StreamsInv'
  OBVIOUS
<1>1. CASE UNCHANGED streams_vars
  BY <1>1 DEF streams_vars, StreamsInv
<1>2. CASE S!Next
  <2>1. CASE S!Reopen
    <3>1. <<>> \in Seq(AllUnits) /\ <<>> \in Seq(OnWire) /\ <<>> \in S!Bytes /\ Len(<<>>) = 0 /\ NoLine(<<>>)
      BY DEF S!Bytes, NoLine, S!Has
    <3>2. wire' = <<>> /\ buf' = <<>> /\ sent' = <<>> /\ cut' = FALSE /\ decoder' = decoder
      BY <2>1 DEF S!Reopen
    <3>3. Len(sent') <= MaxUnits
      BY <3>1, <3>2, StreamsAssumption
    <3>4. sent' \in Seq(AllUnits) /\ wire' \in Seq(OnWire) /\ buf' \in S!Bytes /\ NoLine(buf')
      BY <3>1, <3>2, Zenon
    <3>5. decoder' \in Decoders /\ cut' \in BOOLEAN
      BY <3>2 DEF StreamsInv
    <3> QED BY <3>3, <3>4, <3>5, Zenon DEF StreamsInv
  <2> QED BY <1>2, <2>1, SendKeeps, ReadKeeps DEF S!Next
<1> QED
  BY <1>1, <1>2 DEF ServicesNext, ConferenceStep, StreamsStep, YappStep, TransmitterStep,
                    ScheduleStep, servicesVars, streams_vars

\* The invariant of the streams implies their type invariant.
LEMMA StreamsType == StreamsInv => S!TypeOK
<1> SUFFICES ASSUME StreamsInv PROVE S!TypeOK
  OBVIOUS
<1>1. \A i \in 1 .. Len(wire) : wire[i][1] \in 0 .. 255 /\ wire[i][2] \in BOOLEAN
  <2>1. \A i \in 1 .. Len(wire) : wire[i] \in OnWire
    BY ElementOfSeq DEF StreamsInv
  <2> QED BY <2>1 DEF OnWire
<1>2. \A i \in 1 .. Len(buf) : buf[i] \in 0 .. 255
  BY ElementOfSeq DEF StreamsInv, S!Bytes
<1> QED BY <1>1, <1>2 DEF StreamsInv, S!TypeOK

-----------------------------------------------------------------------------
(***************************************************************************)
(* Lines that are read in pieces.                                          *)
(***************************************************************************)
\* The beginning of two sequences put together, and what follows it.
LEMMA PartBoth ==
  ASSUME NEW X, NEW a \in Seq(X), NEW c \in Seq(X), NEW n \in 1 .. Len(a) + 1
  PROVE  /\ SubSeq(a \o c, 1, n - 1) = SubSeq(a, 1, n - 1)
         /\ S!From(a \o c, n) = S!From(a, n) \o c
<1>0. PICK s : s = a \o c
  OBVIOUS
<1>1. Len(a) \in Nat /\ Len(c) \in Nat
  BY LenProperties
<1>2. /\ s \in Seq(X) /\ Len(s) = Len(a) + Len(c)
      /\ \A i \in 1 .. Len(a) + Len(c) : s[i] = IF i <= Len(a) THEN a[i] ELSE c[i - Len(a)]
  BY <1>0, ConcatProperties
<1>3. PICK x, y, z : x = Len(a) /\ y = Len(c) /\ z = n - 1
  OBVIOUS
<1>4. /\ x \in Nat /\ y \in Nat /\ z \in Nat /\ z <= x /\ n = z + 1 /\ Len(s) = x + y
      /\ \A i \in 1 .. x : s[i] = a[i]
      /\ \A i \in 1 .. y : s[x + i] = c[i]
  <2>1. x \in Nat /\ y \in Nat /\ z \in Nat /\ z <= x /\ n = z + 1 /\ Len(s) = x + y
    BY <1>1, <1>2, <1>3
  <2>2. ASSUME NEW i \in 1 .. x PROVE s[i] = a[i]
    <3>1. i \in 1 .. x + y /\ i <= x
      BY <2>1
    <3> QED BY <1>2, <1>3, <3>1
  <2>3. ASSUME NEW i \in 1 .. y PROVE s[x + i] = c[i]
    <3>1. x + i \in 1 .. x + y /\ ~(x + i <= x) /\ x + i - x = i
      BY <2>1
    <3> QED BY <1>2, <1>3, <3>1
  <2> QED BY <2>1, <2>2, <2>3
<1>5. SubSeq(s, 1, z) = SubSeq(a, 1, z)
  <2>1. PICK k : k = 1
    OBVIOUS
  <2>2. k \in 1 .. Len(s) + 1 /\ z \in k - 1 .. Len(s) /\ k \in 1 .. Len(a) + 1 /\ z \in k - 1 .. Len(a) /\ z - k + 1 = z
    BY <1>3, <1>4, <2>1
  <2>3. /\ SubSeq(a, k, z) \in Seq(X) /\ Len(SubSeq(a, k, z)) = z - k + 1
        /\ \A i \in 1 .. z - k + 1 : SubSeq(a, k, z)[i] = a[k + i - 1]
    BY <2>2, Part
  <2>4. PICK q : q = SubSeq(a, k, z)
    OBVIOUS
  <2>5. q \in Seq(X) /\ Len(q) = z /\ \A i \in 1 .. z : q[i] = a[k + i - 1]
    BY <2>2, <2>3, <2>4
  <2>6. \A i \in 1 .. Len(q) : s[k + i - 1] = q[i]
    <3>1. \A i \in 1 .. z : k + i - 1 = i /\ i \in 1 .. x
      BY <1>4, <2>1
    <3> QED BY <1>4, <2>5, <3>1
  <2>7. z - k + 1 = Len(q)
    BY <2>2, <2>5
  <2>8. SubSeq(s, k, z) = q
    BY <1>2, <2>2, <2>5, <2>6, <2>7, Middle
  <2> QED BY <2>1, <2>4, <2>8
<1>6. S!From(s, n) = S!From(a, n) \o c
  <2>1. n \in 1 .. Len(s) + 1
    BY <1>3, <1>4
  <2>2. /\ S!From(a, n) \in Seq(X) /\ Len(S!From(a, n)) = Len(a) - n + 1
        /\ \A j \in 1 .. Len(a) - n + 1 : S!From(a, n)[j] = a[n + j - 1]
    BY Rest
  <2>3. /\ S!From(s, n) \in Seq(X) /\ Len(S!From(s, n)) = Len(s) - n + 1
        /\ \A j \in 1 .. Len(s) - n + 1 : S!From(s, n)[j] = s[n + j - 1]
    BY <1>2, <2>1, Rest
  <2>4. PICK p, q : p = S!From(a, n) /\ q = S!From(s, n)
    OBVIOUS
  <2>5. /\ p \in Seq(X) /\ Len(p) = x - z /\ x - z \in Nat
        /\ \A j \in 1 .. x - z : p[j] = a[z + j]
    <3>1. Len(a) - n + 1 = x - z /\ x - z \in Nat /\ \A j \in 1 .. x - z : n + j - 1 = z + j
      BY <1>3, <1>4
    <3> QED BY <2>2, <2>4, <3>1
  <2>6. /\ q \in Seq(X) /\ Len(q) = x - z + y
        /\ \A j \in 1 .. x - z + y : q[j] = s[z + j]
    <3>1. Len(s) - n + 1 = x - z + y /\ \A j \in 1 .. x - z + y : n + j - 1 = z + j
      BY <1>4, <2>5
    <3> QED BY <2>3, <2>4, <3>1
  <2>7. PICK r : r = p \o c
    OBVIOUS
  <2>8. /\ r \in Seq(X) /\ Len(r) = x - z + y
        /\ \A j \in 1 .. x - z + y : r[j] = IF j <= x - z THEN p[j] ELSE c[j - (x - z)]
    <3>1. /\ r \in Seq(X) /\ Len(r) = Len(p) + Len(c)
          /\ \A j \in 1 .. Len(p) + Len(c) : r[j] = IF j <= Len(p) THEN p[j] ELSE c[j - Len(p)]
      BY <2>5, <2>7, ConcatProperties
    <3>2. PICK v : v = x - z
      OBVIOUS
    <3>3. Len(p) = v /\ Len(c) = y
      BY <1>3, <2>5, <3>2
    <3>4. /\ r \in Seq(X) /\ Len(r) = v + y
          /\ \A j \in 1 .. v + y : r[j] = IF j <= v THEN p[j] ELSE c[j - v]
      BY <3>1, <3>3, Zenon
    <3> QED BY <3>2, <3>4
  <2>9. ASSUME NEW j \in 1 .. x - z + y PROVE q[j] = r[j]
    <3>1. CASE j <= x - z
      <4>1. j \in 1 .. x - z /\ z + j \in 1 .. x
        BY <1>4, <2>5, <3>1
      <4> QED BY <1>4, <2>5, <2>6, <2>8, <3>1, <4>1
    <3>2. CASE ~(j <= x - z)
      <4>1. j - (x - z) \in 1 .. y /\ z + j = x + (j - (x - z))
        BY <1>4, <2>5, <3>2
      <4>2. s[z + j] = c[j - (x - z)]
        BY <1>4, <4>1
      <4> QED BY <2>6, <2>8, <3>2, <4>2
    <3> QED BY <3>1, <3>2
  <2>10. q = r
    BY <2>6, <2>8, <2>9, SeqEqual
  <2> QED BY <2>4, <2>7, <2>10
<1> QED BY <1>0, <1>3, <1>5, <1>6

\* CR LF is not parted; and over AX.25 all lines end alike.
EndWhole(a, c) == a # <<>> /\ c # <<>> /\ a[Len(a)] = S!CR => c[1] # S!LF
OneWay(d, b) == d = "telnet" \/ ~S!Has(b, {S!CR}) \/ ~S!Has(b, {S!LF})
Ending == {S!CR, S!LF}

\* Where all lines end alike both readers find the same ones.
LEMMA OneWayIs ==
  ASSUME NEW d, NEW b \in S!Bytes, S!Has(b, Ending), OneWay(d, b)
  PROVE  TheLine(d, b) = S!ExtractLine(b)
<1>1. b \in Seq(0 .. 255) /\ Len(b) \in Nat
  BY LenProperties DEF S!Bytes
<1>2. CASE d = "telnet"
  BY <1>2 DEF TheLine
<1>3. CASE d # "telnet"
  <2> DEFINE pairs == {i \in 1 .. Len(b) - 1 : b[i] = S!CR /\ b[i + 1] = S!LF}
             i == S!First(b, Ending)
             k == IF b[i] = S!CR /\ i < Len(b) /\ b[i + 1] = S!LF THEN 2 ELSE 1
             j == IF S!Has(b, {S!CR}) THEN S!First(b, {S!CR}) ELSE S!First(b, {S!LF})
  <2>1. pairs = {}
    <3>1. ASSUME NEW n \in 1 .. Len(b) - 1, b[n] = S!CR, b[n + 1] = S!LF PROVE FALSE
      <4>1. n \in 1 .. Len(b) /\ n + 1 \in 1 .. Len(b)
        BY <1>1
      <4>2. S!Has(b, {S!CR}) /\ S!Has(b, {S!LF})
        BY <3>1, <4>1 DEF S!Has
      <4> QED BY <1>3, <4>2 DEF OneWay
    <3> QED BY <3>1
  <2>2. i \in 1 .. Len(b) /\ b[i] \in Ending /\ \A n \in 1 .. i - 1 : b[n] \notin Ending
    BY <1>1, FirstIs
  <2>3. k = 1
    <3>1. CASE b[i] = S!CR /\ i < Len(b) /\ b[i + 1] = S!LF
      <4>1. i \in pairs
        <5>1. i \in 1 .. Len(b) - 1
          BY <1>1, <2>2, <3>1
        <5> HIDE DEF i
        <5> QED BY <3>1, <5>1
      <4> QED BY <2>1, <4>1
    <3> QED BY <3>1
  <2>4. j = i
    <3> HIDE DEF i
    <3>1. CASE S!Has(b, {S!CR})
      <4>1. ~S!Has(b, {S!LF})
        BY <1>3, <3>1 DEF OneWay
      <4>2. b[i] = S!CR
        BY <2>2, <4>1 DEF S!Has, Ending
      <4>3. b[i] \in {S!CR} /\ \A n \in 1 .. i - 1 : b[n] \notin {S!CR}
        BY <2>2, <4>2 DEF Ending
      <4>4. S!First(b, {S!CR}) = i
        BY <1>1, <2>2, <4>3, FirstAt
      <4> QED BY <3>1, <4>4
    <3>2. CASE ~S!Has(b, {S!CR})
      <4>1. b[i] = S!LF
        BY <2>2, <3>2 DEF S!Has, Ending
      <4>2. b[i] \in {S!LF} /\ \A n \in 1 .. i - 1 : b[n] \notin {S!LF}
        BY <2>2, <4>1 DEF Ending
      <4>3. S!First(b, {S!LF}) = i
        BY <1>1, <2>2, <4>2, FirstAt
      <4> QED BY <3>2, <4>3
    <3> QED BY <3>1, <3>2
  <2>5. S!AX25Line(b) = <<SubSeq(b, 1, j - 1), S!From(b, j + 1)>>
    BY <2>1 DEF S!AX25Line
  <2>6. S!ExtractLine(b) = <<SubSeq(b, 1, i - 1), S!From(b, i + k)>>
    BY DEF S!ExtractLine, Ending
  <2> HIDE DEF i, j, k
  <2> QED BY <1>3, <2>3, <2>4, <2>5, <2>6 DEF TheLine
<1> QED BY <1>2, <1>3

\* What the first line of two pieces is, when it ends in the first of them.
LEMMA LineOfBoth ==
  ASSUME NEW a \in S!Bytes, NEW c \in S!Bytes, S!Has(a, Ending), EndWhole(a, c)
  PROVE  /\ S!Has(a \o c, Ending)
         /\ S!ExtractLine(a \o c)[1] = S!ExtractLine(a)[1]
         /\ S!ExtractLine(a \o c)[2] = S!ExtractLine(a)[2] \o c
         /\ EndWhole(S!ExtractLine(a)[2], c)
<1> DEFINE X == 0 .. 255
<1>1. a \in Seq(X) /\ c \in Seq(X) /\ Len(a) \in Nat /\ Len(c) \in Nat
  BY LenProperties DEF S!Bytes
<1> HIDE DEF X
<1>2. PICK s : s = a \o c
  OBVIOUS
<1>3. /\ s \in Seq(X) /\ Len(s) = Len(a) + Len(c)
      /\ \A i \in 1 .. Len(a) + Len(c) : s[i] = IF i <= Len(a) THEN a[i] ELSE c[i - Len(a)]
  BY <1>1, <1>2, ConcatProperties
<1>4. PICK x, y : x = Len(a) /\ y = Len(c)
  OBVIOUS
<1>5. /\ x \in Nat /\ y \in Nat /\ Len(s) = x + y /\ (\A i \in 1 .. x : s[i] = a[i] /\ i \in 1 .. x + y)
      /\ (y > 0 => s[x + 1] = c[1]) /\ (y > 0 => c # <<>>)
  <2>1. x \in Nat /\ y \in Nat /\ Len(s) = x + y
    BY <1>1, <1>3, <1>4
  <2>2. ASSUME NEW i \in 1 .. x PROVE s[i] = a[i] /\ i \in 1 .. x + y
    <3>1. i \in 1 .. x + y /\ i <= x
      BY <2>1
    <3> QED BY <1>3, <1>4, <3>1
  <2>3. ASSUME y > 0 PROVE s[x + 1] = c[1] /\ c # <<>>
    <3>1. x + 1 \in 1 .. x + y /\ ~(x + 1 <= x) /\ x + 1 - x = 1
      BY <2>1, <2>3
    <3>2. c # <<>>
      BY <1>4, <2>3
    <3> QED BY <1>3, <1>4, <3>1, <3>2
  <2> QED BY <2>1, <2>2, <2>3
<1>6. PICK i : i = S!First(a, Ending)
  OBVIOUS
<1>7. i \in 1 .. x /\ a[i] \in Ending /\ \A j \in 1 .. i - 1 : a[j] \notin Ending
  BY <1>1, <1>4, <1>6, FirstIs
<1>8. S!Has(s, Ending) /\ S!First(s, Ending) = i
  <2>1. i \in 1 .. Len(s) /\ s[i] \in Ending
    BY <1>5, <1>7
  <2>2. ASSUME NEW j \in 1 .. i - 1 PROVE s[j] \notin Ending
    <3>1. j \in 1 .. x
      BY <1>5, <1>7
    <3> QED BY <1>5, <1>7, <3>1
  <2> QED BY <1>3, <2>1, <2>2, FirstAt
<1> DEFINE k(b) == IF b[i] = S!CR /\ i < Len(b) /\ b[i + 1] = S!LF THEN 2 ELSE 1
<1>9. k(s) = k(a) /\ k(a) \in {1, 2} /\ i + k(a) \in 1 .. x + 1
  <2>1. s[i] = a[i]
    BY <1>5, <1>7
  <2>2. CASE i < x
    <3>1. i + 1 \in 1 .. x /\ i < x + y
      BY <1>5, <1>7, <2>2
    <3>2. s[i + 1] = a[i + 1]
      BY <1>5, <3>1
    <3> QED BY <1>4, <1>5, <1>7, <2>1, <2>2, <3>1, <3>2
  <2>3. CASE ~(i < x)
    <3>1. i = x
      BY <1>5, <1>7, <2>3
    <3>2. k(a) = 1
      BY <1>4, <2>3
    <3>3. ASSUME s[i] = S!CR, y > 0 PROVE s[i + 1] # S!LF
      <4>1. a # <<>>
        BY <1>4, <1>5, <1>7
      <4>2. a[Len(a)] = S!CR
        BY <1>4, <2>1, <3>1, <3>3
      <4>3. c[1] # S!LF
        BY <1>5, <3>3, <4>1, <4>2 DEF EndWhole
      <4> QED BY <1>5, <3>1, <3>3, <4>3
    <3>4. i < Len(s) => y > 0
      BY <1>5, <3>1
    <3>5. k(s) = 1
      BY <3>3, <3>4
    <3> QED BY <1>5, <1>7, <3>1, <3>2, <3>5
  <2> QED BY <2>2, <2>3
<1>10. PICK n : n = i + k(a)
  OBVIOUS
<1>11. /\ S!ExtractLine(a)[1] = SubSeq(a, 1, i - 1) /\ S!ExtractLine(a)[2] = S!From(a, n)
       /\ S!ExtractLine(s)[1] = SubSeq(s, 1, i - 1) /\ S!ExtractLine(s)[2] = S!From(s, n)
  <2>1. S!ExtractLine(a) = <<SubSeq(a, 1, i - 1), S!From(a, i + k(a))>>
    BY <1>6 DEF S!ExtractLine, Ending
  <2>2. S!ExtractLine(s) = <<SubSeq(s, 1, i - 1), S!From(s, i + k(s))>>
    BY <1>8 DEF S!ExtractLine, Ending
  <2>3. i + k(a) = n /\ i + k(s) = n
    <3> HIDE DEF k
    <3> QED BY <1>9, <1>10, Zenon
  <2> HIDE DEF k
  <2>4. S!ExtractLine(a) = <<SubSeq(a, 1, i - 1), S!From(a, n)>> /\ S!ExtractLine(s) = <<SubSeq(s, 1, i - 1), S!From(s, n)>>
    BY <2>1, <2>2, <2>3, Zenon
  <2>5. PICK u, v, w, z : u = SubSeq(a, 1, i - 1) /\ v = S!From(a, n) /\ w = SubSeq(s, 1, i - 1) /\ z = S!From(s, n)
    OBVIOUS
  <2>6. S!ExtractLine(a) = <<u, v>> /\ S!ExtractLine(s) = <<w, z>>
    BY <2>4, <2>5, Zenon
  <2>7. S!ExtractLine(a)[1] = u /\ S!ExtractLine(a)[2] = v /\ S!ExtractLine(s)[1] = w /\ S!ExtractLine(s)[2] = z
    BY <2>6
  <2> QED BY <2>5, <2>7, Zenon
<1>12. n \in 1 .. Len(a) + 1 /\ i \in 1 .. Len(a) + 1
  <2> HIDE DEF k
  <2> QED BY <1>4, <1>5, <1>7, <1>9, <1>10
<1> HIDE DEF k
<1>13. SubSeq(s, 1, i - 1) = SubSeq(a, 1, i - 1) /\ S!From(s, n) = S!From(a, n) \o c
  BY <1>1, <1>2, <1>12, PartBoth
<1>14. EndWhole(S!From(a, n), c)
  <2> SUFFICES ASSUME S!From(a, n) # <<>>, c # <<>>, S!From(a, n)[Len(S!From(a, n))] = S!CR PROVE c[1] # S!LF
    BY DEF EndWhole
  <2>1. /\ S!From(a, n) \in Seq(X) /\ Len(S!From(a, n)) = Len(a) - n + 1
        /\ \A j \in 1 .. Len(a) - n + 1 : S!From(a, n)[j] = a[n + j - 1]
    BY <1>1, <1>12, Rest
  <2>2. PICK v : v = Len(a) - n + 1
    OBVIOUS
  <2>3. v \in 1 .. v /\ n + v - 1 = Len(a)
    <3>1. v # 0
      BY <2>1, <2>2, EmptySeq
    <3> QED BY <1>1, <1>12, <2>2, <3>1
  <2>4. S!From(a, n)[v] = a[n + v - 1]
    BY <2>1, <2>2, <2>3
  <2>5. a[Len(a)] = S!CR
    BY <2>1, <2>2, <2>3, <2>4
  <2>6. a # <<>>
    BY <1>5, <1>7, <1>4
  <2> QED BY <2>5, <2>6 DEF EndWhole
<1> QED BY <1>2, <1>8, <1>11, <1>13, <1>14

\* What is left of two pieces after a line has its ends in one way, as they had.
LEMMA LineLeaves ==
  ASSUME NEW a \in S!Bytes, NEW c \in S!Bytes, S!Has(a, Ending), NEW K, S!Has(S!ExtractLine(a)[2] \o c, K)
  PROVE  S!Has(a \o c, K)
<1> DEFINE X == 0 .. 255
           i == S!First(a, Ending)
           k == IF a[i] = S!CR /\ i < Len(a) /\ a[i + 1] = S!LF THEN 2 ELSE 1
<1>1. a \in Seq(X) /\ c \in Seq(X) /\ Len(a) \in Nat /\ Len(c) \in Nat
  BY LenProperties DEF S!Bytes
<1>2. i \in 1 .. Len(a)
  BY <1>1, FirstIs
<1> HIDE DEF X, i
<1>3. i + k \in 1 .. Len(a) + 1
  <2>1. CASE i < Len(a)
    BY <1>1, <1>2, <2>1
  <2>2. CASE ~(i < Len(a))
    BY <1>1, <1>2, <2>2
  <2> QED BY <2>1, <2>2
<1>4. S!ExtractLine(a)[2] = S!From(a, i + k)
  BY DEF S!ExtractLine, i, Ending
<1> HIDE DEF k
<1>5. PICK n : n = i + k
  OBVIOUS
<1>6. S!From(a \o c, n) = S!From(a, n) \o c /\ n \in 1 .. Len(a) + 1
  BY <1>1, <1>3, <1>5, PartBoth
<1>7. PICK s : s = a \o c
  OBVIOUS
<1>8. s \in Seq(X) /\ n \in 1 .. Len(s) + 1 /\ Len(s) \in Nat
  <2>1. s \in Seq(X) /\ Len(s) = Len(a) + Len(c)
    BY <1>1, <1>7, ConcatProperties
  <2> QED BY <1>1, <1>6, <2>1
<1>9. /\ Len(S!From(s, n)) = Len(s) - n + 1
      /\ \A j \in 1 .. Len(s) - n + 1 : S!From(s, n)[j] = s[n + j - 1]
  BY <1>8, Rest
<1>10. PICK j \in 1 .. Len(s) - n + 1 : S!From(s, n)[j] \in K
  <2>1. S!Has(S!From(s, n), K)
    BY <1>4, <1>5, <1>6, <1>7
  <2> QED BY <1>9, <2>1 DEF S!Has
<1>11. s[n + j - 1] \in K /\ n + j - 1 \in 1 .. Len(s)
  BY <1>6, <1>8, <1>9, <1>10
<1> QED BY <1>7, <1>11 DEF S!Has

\* Two reads of lines bring together what one of both pieces would.
TwoLines(d, a, c) ==
  /\ LineRead(d)[a \o c].buf = LineRead(d)[LineRead(d)[a].buf \o c].buf
  /\ LineRead(d)[a \o c].out = LineRead(d)[a].out \o LineRead(d)[LineRead(d)[a].buf \o c].out
Whole(d, a, c) == EndWhole(a, c) /\ OneWay(d, a \o c)

Taken(d, b, p, q) ==
  /\ q \in S!Bytes /\ p \in Marked /\ Len(q) < Len(b) /\ LineRead(d)[q] \in Results
  /\ LineRead(d)[b].buf = LineRead(d)[q].buf /\ LineRead(d)[b].out = <<p>> \o LineRead(d)[q].out

\* A line read, and the rest of the buffer after it.
LEMMA LineTaken ==
  ASSUME NEW d, NEW b \in S!Bytes, S!Has(b, Ending)
  PROVE  Taken(d, b, TheLine(d, b)[1], TheLine(d, b)[2])
<1>0. PICK p, q : p = TheLine(d, b)[1] /\ q = TheLine(d, b)[2]
  OBVIOUS
<1>1. p \in S!Bytes /\ q \in S!Bytes /\ Len(q) < Len(b)
  BY <1>0, LineIs DEF Ending
<1>2. p \in Marked /\ <<p>> \in Seq(Marked)
  <2>1. p \in Marked
    BY <1>1, BytesAreMarked
  <2> QED BY <2>1
<1>3. LineRead(d)[q] \in Results
  BY <1>1, LineReads DEF LineResults
<1> DEFINE o == <<p>>
           r == LineRead(d)[q]
<1>4. LineRead(d)[b] = [r EXCEPT !.out = o \o @]
  <2>1. LineRead(d)[b] = LineAt(d, b, LineRead(d))
    BY LineReads
  <2> QED BY <1>0, <2>1, LineAtIs DEF Ending
<1>5. o \in Seq(Marked) /\ r \in Results
  BY <1>2, <1>3
<1> HIDE DEF o, r
<1>6. [r EXCEPT !.out = o \o @].buf = r.buf /\ [r EXCEPT !.out = o \o @].out = o \o r.out
  BY <1>5, PutBefore
<1>7. Taken(d, b, p, q)
  BY <1>1, <1>2, <1>3, <1>4, <1>6 DEF o, r, Taken
<1> QED BY <1>0, <1>7

\* Two reads are like one if they are so for every shorter buffer.
LEMMA LinesAlike ==
  ASSUME NEW d, NEW a \in S!Bytes, NEW c \in S!Bytes, Whole(d, a, c),
         \A x \in S!Bytes : Len(x) < Len(a) /\ Whole(d, x, c) => TwoLines(d, x, c)
  PROVE  TwoLines(d, a, c)
<1>1. \A x, y \in S!Bytes : x \o y \in S!Bytes
  BY ConcatProperties DEF S!Bytes
<1>2. CASE ~S!Has(a, Ending)
  <2>1. LineRead(d)[a] = [buf |-> a, out |-> <<>>]
    <3>1. LineRead(d)[a] = LineAt(d, a, LineRead(d))
      BY LineReads
    <3> QED BY <1>2, <3>1, LineAtIs DEF Ending
  <2>2. LineRead(d)[a].buf = a /\ LineRead(d)[a].out = <<>>
    BY <2>1
  <2>3. <<>> \o LineRead(d)[a \o c].out = LineRead(d)[a \o c].out
    <3>1. LineRead(d)[a \o c] \in LineResults
      BY <1>1, LineReads
    <3>2. LineRead(d)[a \o c].out \in Seq(Marked)
      BY <3>1 DEF LineResults, Results
    <3> QED BY <3>2, ConcatEmptySeq
  <2> QED BY <2>2, <2>3 DEF TwoLines
<1>3. CASE S!Has(a, Ending)
  <2>1. PICK s : s = a \o c
    OBVIOUS
  <2>2. PICK p, q : p = S!ExtractLine(a)[1] /\ q = S!ExtractLine(a)[2]
    OBVIOUS
  <2>3. /\ S!Has(s, Ending) /\ S!ExtractLine(s)[1] = p /\ S!ExtractLine(s)[2] = q \o c
        /\ EndWhole(q, c)
    BY <1>3, <2>1, <2>2, LineOfBoth DEF Whole
  <2>4. s \in S!Bytes
    BY <1>1, <2>1
  <2>5. OneWay(d, s) /\ OneWay(d, a) /\ OneWay(d, q \o c)
    <3>1. ASSUME NEW K, S!Has(a, K) PROVE S!Has(s, K)
      <4>1. PICK i \in 1 .. Len(a) : a[i] \in K
        BY <3>1 DEF S!Has
      <4>2. a \in Seq(0 .. 255) /\ c \in Seq(0 .. 255) /\ Len(a) \in Nat /\ Len(c) \in Nat
        BY LenProperties DEF S!Bytes
      <4>3. /\ Len(s) = Len(a) + Len(c)
            /\ \A j \in 1 .. Len(a) + Len(c) : s[j] = IF j <= Len(a) THEN a[j] ELSE c[j - Len(a)]
        BY <2>1, <4>2, ConcatProperties
      <4>4. i \in 1 .. Len(a) + Len(c) /\ i <= Len(a)
        BY <4>2
      <4> QED BY <4>1, <4>3, <4>4 DEF S!Has
    <3>2. ASSUME NEW K, S!Has(q \o c, K) PROVE S!Has(s, K)
      BY <1>3, <2>1, <2>2, <3>2, LineLeaves
    <3>3. OneWay(d, s)
      BY <2>1 DEF Whole
    <3> QED BY <3>1, <3>2, <3>3 DEF OneWay
  <2>6. TheLine(d, a) = S!ExtractLine(a) /\ TheLine(d, s) = S!ExtractLine(s)
    BY <1>3, <2>3, <2>4, <2>5, OneWayIs
  <2>7. /\ q \in S!Bytes /\ p \in Marked /\ Len(q) < Len(a) /\ LineRead(d)[q] \in Results
        /\ LineRead(d)[a].buf = LineRead(d)[q].buf /\ LineRead(d)[a].out = <<p>> \o LineRead(d)[q].out
    <3>1. Taken(d, a, p, q)
      <4>1. Taken(d, a, TheLine(d, a)[1], TheLine(d, a)[2])
        BY <1>3, LineTaken
      <4> QED BY <2>2, <2>6, <4>1
    <3> QED BY <3>1 DEF Taken
  <2>8. PICK z : z = q \o c
    OBVIOUS
  <2>9. /\ z \in S!Bytes /\ LineRead(d)[z] \in Results
        /\ LineRead(d)[s].buf = LineRead(d)[z].buf /\ LineRead(d)[s].out = <<p>> \o LineRead(d)[z].out
    <3>1. TheLine(d, s)[1] = p /\ TheLine(d, s)[2] = z
      BY <2>3, <2>6, <2>8
    <3>2. Taken(d, s, TheLine(d, s)[1], TheLine(d, s)[2])
      BY <2>3, <2>4, LineTaken
    <3>3. Taken(d, s, p, z)
      BY <3>1, <3>2
    <3> QED BY <3>3 DEF Taken
  <2>10. TwoLines(d, q, c)
    <3>1. Whole(d, q, c)
      BY <2>3, <2>5 DEF Whole
    <3> QED BY <2>7, <3>1
  <2>11. LineRead(d)[q].buf \in S!Bytes /\ LineRead(d)[q].out \in Seq(Marked)
    BY <2>7 DEF Results
  <2>12. LineRead(d)[LineRead(d)[q].buf \o c].out \in Seq(Marked)
    <3>1. LineRead(d)[q].buf \o c \in S!Bytes
      BY <1>1, <2>11
    <3>2. LineRead(d)[LineRead(d)[q].buf \o c] \in LineResults
      BY <3>1, LineReads
    <3> QED BY <3>2 DEF LineResults, Results
  <2>13. PICK o, r, t : o = <<p>> /\ r = LineRead(d)[q].out /\ t = LineRead(d)[LineRead(d)[q].buf \o c].out
    OBVIOUS
  <2>14. (o \o r) \o t = o \o (r \o t)
    <3>1. o \in Seq(Marked) /\ r \in Seq(Marked) /\ t \in Seq(Marked)
      BY <2>7, <2>11, <2>12, <2>13
    <3> QED BY <3>1, ConcatAssociative
  <2>15. LineRead(d)[s].out = o \o (r \o t)
    BY <2>8, <2>9, <2>10, <2>13 DEF TwoLines
  <2>16. LineRead(d)[s].buf = LineRead(d)[LineRead(d)[q].buf \o c].buf
    BY <2>8, <2>9, <2>10 DEF TwoLines
  <2> QED BY <2>1, <2>7, <2>13, <2>14, <2>15, <2>16 DEF TwoLines
<1> QED BY <1>2, <1>3

\* A read may end anywhere but between a CR and its LF: the lines read of two
\* pieces are those of both at once, over telnet whatever the bytes are, over
\* AX.25 if the terminal ends its lines with one byte and always with the same
\* (transport/telnet.py, TelnetReader.readline; ax25/stream.py, AX25Reader.readline).
THEOREM LinesReadAnywhere ==
  \A d : \A a, c \in S!Bytes :
    Whole(d, a, c) =>
      LET first == S!Lines(d, a)
          second == S!Lines(d, first.buf \o c)
      IN /\ S!Lines(d, a \o c).buf = second.buf
         /\ S!Lines(d, a \o c).out = first.out \o second.out
<1>1. ASSUME NEW d, NEW c \in S!Bytes PROVE \A a \in S!Bytes : Whole(d, a, c) => TwoLines(d, a, c)
  <2> DEFINE D == S!Bytes
             m == [b \in D |-> Len(b)]
             G == {b \in D : Whole(d, b, c) => TwoLines(d, b, c)}
  <2>1. m \in [D -> Nat] /\ \A b \in D : m[b] = Len(b)
    BY DEF S!Bytes
  <2> HIDE DEF m
  <2>2. ASSUME NEW x \in D, \A y \in D : m[y] < m[x] => y \in G PROVE x \in G
    <3>1. \A y \in S!Bytes : Len(y) < Len(x) /\ Whole(d, y, c) => TwoLines(d, y, c)
      BY <2>1, <2>2
    <3>2. Whole(d, x, c) => TwoLines(d, x, c)
      BY <3>1, LinesAlike
    <3> QED BY <3>2
  <2>3. D \subseteq G
    <3> HIDE DEF D, G
    <3> QED BY <2>1, <2>2, ByMeasure
  <2> QED BY <2>3
<1>2. ASSUME NEW d, NEW a \in S!Bytes, NEW c \in S!Bytes, Whole(d, a, c)
      PROVE  LET first == S!Lines(d, a)
                 second == S!Lines(d, first.buf \o c)
             IN /\ S!Lines(d, a \o c).buf = second.buf
                /\ S!Lines(d, a \o c).out = first.out \o second.out
  <2>1. TwoLines(d, a, c)
    BY <1>1, <1>2
  <2>2. \A b : S!Lines(d, b) = LineRead(d)[b]
    BY LinesAre, Zenon
  <2> QED BY <2>1, <2>2, Zenon DEF TwoLines
<1> QED BY <1>2, Zenon

LineEnds == {<<S!CR>>, <<S!LF>>, <<S!CR, S!LF>>}
Typed(l, e, r) == l \o e \o r

Layout(b, l, e, r, n, k) ==
  /\ b \in S!Bytes /\ n \in Nat /\ k \in {1, 2} /\ Len(r) \in Nat /\ Len(b) = n + k + Len(r)
  /\ (\A j \in 1 .. n : b[j] = l[j]) /\ b[n + 1] = e[1]
  /\ (k = 2 => b[n + 2] = e[2]) /\ (k = 1 /\ Len(r) > 0 => b[n + 2] = r[1] /\ r # <<>>)
  /\ SubSeq(b, 1, n) = l /\ S!From(b, n + k + 1) = r

\* A line as it is typed: its text, its end and what follows, byte by byte.
LEMMA TypedIs ==
  ASSUME NEW l \in S!Bytes, NEW e \in LineEnds, NEW r \in S!Bytes
  PROVE  Layout(Typed(l, e, r), l, e, r, Len(l), Len(e))
<1> DEFINE X == 0 .. 255
<1>1. l \in Seq(X) /\ r \in Seq(X) /\ Len(l) \in Nat /\ Len(r) \in Nat
  BY LenProperties DEF S!Bytes
<1>2. e \in Seq(X) /\ Len(e) \in {1, 2}
  <2>1. /\ <<13>> \in Seq(0 .. 255) /\ <<10>> \in Seq(0 .. 255) /\ <<13, 10>> \in Seq(0 .. 255)
        /\ Len(<<13>>) = 1 /\ Len(<<10>>) = 1 /\ Len(<<13, 10>>) = 2
    OBVIOUS
  <2>2. e = <<13>> \/ e = <<10>> \/ e = <<13, 10>>
    BY DEF LineEnds, S!CR, S!LF
  <2> QED BY <2>1, <2>2, Zenon
<1> HIDE DEF X
<1>3. PICK t, b : t = l \o e /\ b = t \o r
  OBVIOUS
<1>4. PICK n, k, m : n = Len(l) /\ k = Len(e) /\ m = Len(r)
  OBVIOUS
<1>5. n \in Nat /\ k \in {1, 2} /\ m \in Nat
  BY <1>1, <1>2, <1>4
<1>6. /\ t \in Seq(X) /\ Len(t) = n + k
      /\ \A i \in 1 .. n + k : t[i] = IF i <= n THEN l[i] ELSE e[i - n]
  BY <1>1, <1>2, <1>3, <1>4, ConcatProperties
<1>7. /\ b \in Seq(X) /\ Len(b) = n + k + m
      /\ \A i \in 1 .. n + k + m : b[i] = IF i <= n + k THEN t[i] ELSE r[i - (n + k)]
  <2>1. PICK v : v = n + k
    OBVIOUS
  <2>2. /\ b \in Seq(X) /\ Len(b) = Len(t) + Len(r)
        /\ \A i \in 1 .. Len(t) + Len(r) : b[i] = IF i <= Len(t) THEN t[i] ELSE r[i - Len(t)]
    BY <1>1, <1>3, <1>6, ConcatProperties
  <2>3. Len(t) = v /\ Len(r) = m
    BY <1>4, <1>6, <2>1
  <2>4. /\ b \in Seq(X) /\ Len(b) = v + m
        /\ \A i \in 1 .. v + m : b[i] = IF i <= v THEN t[i] ELSE r[i - v]
    BY <2>2, <2>3, Zenon
  <2> QED BY <2>1, <2>4, Zenon
<1>8. ASSUME NEW j \in 1 .. n PROVE b[j] = l[j]
  <2>1. j \in 1 .. n + k /\ j <= n + k /\ j \in 1 .. n + k + m /\ j <= n
    BY <1>5
  <2> QED BY <1>6, <1>7, <2>1
<1>9. b[n + 1] = e[1] /\ (k = 2 => b[n + 2] = e[2])
  <2>1. ASSUME NEW j \in 1 .. k PROVE b[n + j] = e[j]
    <3>1. n + j \in 1 .. n + k /\ n + j <= n + k /\ n + j \in 1 .. n + k + m /\ ~(n + j <= n) /\ n + j - n = j
      BY <1>5
    <3>2. PICK w : w = n + j
      OBVIOUS
    <3>3. b[w] = t[w]
      BY <1>7, <3>1, <3>2
    <3>4. t[w] = e[w - n]
      <4>1. w \in 1 .. n + k /\ ~(w <= n)
        BY <3>1, <3>2
      <4>2. t[w] = IF w <= n THEN l[w] ELSE e[w - n]
        BY <1>6, <4>1, Zenon
      <4> QED BY <4>1, <4>2, Zenon
    <3>5. w - n = j
      BY <1>5, <3>2
    <3> QED BY <3>2, <3>3, <3>4, <3>5
  <2>2. 1 \in 1 .. k /\ (k = 2 => 2 \in 1 .. k)
    BY <1>5
  <2> QED BY <2>1, <2>2
<1>10. ASSUME k = 1, m > 0 PROVE b[n + 2] = r[1] /\ r # <<>>
  <2>1. n + 2 \in 1 .. n + k + m /\ ~(n + 2 <= n + k) /\ n + 2 - (n + k) = 1
    BY <1>5, <1>10
  <2>2. r # <<>>
    BY <1>4, <1>10
  <2>3. PICK w : w = n + 2
    OBVIOUS
  <2>4. b[w] = r[w - (n + k)]
    <3>1. w \in 1 .. n + k + m /\ ~(w <= n + k)
      BY <2>1, <2>3
    <3>2. b[w] = IF w <= n + k THEN t[w] ELSE r[w - (n + k)]
      BY <1>7, <3>1, Zenon
    <3> QED BY <3>1, <3>2, Zenon
  <2>5. w - (n + k) = 1
    BY <1>5, <1>10, <2>3
  <2> QED BY <2>2, <2>3, <2>4, <2>5
<1>11. SubSeq(b, 1, n) = l
  <2>1. PICK a : a = 1
    OBVIOUS
  <2>2. a \in 1 .. Len(b) + 1 /\ n \in a - 1 .. Len(b) /\ n - a + 1 = Len(l)
    BY <1>4, <1>5, <1>7, <2>1
  <2>3. \A i \in 1 .. Len(l) : b[a + i - 1] = l[i]
    <3>1. \A i \in 1 .. n : a + i - 1 = i
      BY <1>5, <2>1
    <3> QED BY <1>4, <1>8, <3>1
  <2>4. SubSeq(b, a, n) = l
    BY <1>1, <1>7, <2>2, <2>3, Middle
  <2> QED BY <2>1, <2>4
<1>12. S!From(b, n + k + 1) = r
  <2>1. S!From(t \o r, Len(t) + 1) = r
    BY <1>1, <1>6, RestOf
  <2> QED BY <1>3, <1>6, <2>1
<1>13. Typed(l, e, r) = b
  BY <1>3 DEF Typed
<1> HIDE DEF X
<1>14. b \in S!Bytes
  BY <1>7 DEF X, S!Bytes
<1>15. Layout(b, l, e, r, n, k)
  BY <1>4, <1>5, <1>7, <1>8, <1>9, <1>10, <1>11, <1>12, <1>14 DEF Layout
<1> QED BY <1>4, <1>13, <1>15

\* What stands between a line and the next one is told from it: LF after a CR is
\* part of its end; and AX.25 looks for CR LF before it looks for either.
EndsThere(d, l, e, r) ==
  /\ e = <<S!CR>> => r = <<>> \/ r[1] # S!LF
  /\ e = <<S!CR, S!LF>> \/ OneWay(d, Typed(l, e, r))

\* The first line of what is typed is the one that was typed first.
LEMMA FirstTyped ==
  ASSUME NEW d, NEW l \in S!Bytes, NEW e \in LineEnds, NEW r \in S!Bytes,
         ~S!Has(l, Ending), EndsThere(d, l, e, r)
  PROVE  /\ S!Has(Typed(l, e, r), Ending) /\ TheLine(d, Typed(l, e, r))[1] = l
         /\ TheLine(d, Typed(l, e, r))[2] = r
<1>1. PICK b, n, k, i : b = Typed(l, e, r) /\ n = Len(l) /\ k = Len(e) /\ i = n + 1
  OBVIOUS
<1>2. /\ b \in S!Bytes /\ n \in Nat /\ k \in {1, 2} /\ Len(r) \in Nat /\ Len(b) = n + k + Len(r)
      /\ (\A j \in 1 .. n : b[j] = l[j]) /\ b[n + 1] = e[1]
      /\ (k = 2 => b[n + 2] = e[2]) /\ (k = 1 /\ Len(r) > 0 => b[n + 2] = r[1] /\ r # <<>>)
      /\ SubSeq(b, 1, n) = l /\ S!From(b, n + k + 1) = r
  <2>1. Layout(b, l, e, r, n, k)
    BY <1>1, TypedIs
  <2> QED BY <2>1 DEF Layout
<1>3. /\ e = <<S!CR>> \/ e = <<S!LF>> \/ e = <<S!CR, S!LF>>
      /\ (e = <<S!CR>> \/ e = <<S!LF>> => k = 1) /\ (e = <<S!CR, S!LF>> => k = 2)
      /\ e[1] \in Ending /\ (e[1] = S!LF => e = <<S!LF>>) /\ (k = 2 => e[1] = S!CR /\ e[2] = S!LF)
  BY <1>1 DEF LineEnds, Ending, S!CR, S!LF
<1>4. i \in 1 .. Len(b) /\ b[i] = e[1] /\ b \in Seq(0 .. 255) /\ Len(b) \in Nat
  <2>1. b \in Seq(0 .. 255) /\ Len(b) \in Nat
    BY <1>2, LenProperties DEF S!Bytes
  <2> QED BY <1>1, <1>2, <2>1
<1>5. \A j \in 1 .. i - 1 : b[j] \notin Ending
  <2>1. ASSUME NEW j \in 1 .. i - 1 PROVE b[j] \notin Ending
    <3>1. j \in 1 .. n
      BY <1>1, <1>2
    <3> QED BY <1>1, <1>2, <3>1 DEF S!Has
  <2> QED BY <2>1
<1>6. S!Has(b, Ending) /\ S!First(b, Ending) = i
  <2>1. b[i] \in Ending
    BY <1>3, <1>4
  <2> QED BY <1>4, <1>5, <2>1, FirstAt
<1>7. (IF b[i] = S!CR /\ i < Len(b) /\ b[i + 1] = S!LF THEN 2 ELSE 1) = k
  <2>1. i + 1 = n + 2
    BY <1>1, <1>2
  <2>2. CASE e = <<S!CR, S!LF>>
    <3>1. k = 2 /\ b[i] = S!CR /\ b[i + 1] = S!LF
      BY <1>2, <1>3, <1>4, <2>1, <2>2
    <3>2. i < Len(b)
      BY <1>1, <1>2, <3>1
    <3> QED BY <3>1, <3>2
  <2>3. CASE e = <<S!LF>>
    <3>1. k = 1 /\ b[i] = S!LF /\ S!LF # S!CR
      BY <1>3, <1>4, <2>3 DEF S!CR, S!LF
    <3> QED BY <3>1
  <2>4. CASE e = <<S!CR>>
    <3>1. k = 1 /\ (r = <<>> \/ r[1] # S!LF)
      BY <1>3, <2>4 DEF EndsThere
    <3>2. i < Len(b) => b[i + 1] # S!LF
      <4>1. i < Len(b) => Len(r) > 0
        BY <1>1, <1>2, <3>1
      <4> QED BY <1>2, <2>1, <3>1, <4>1
    <3> QED BY <3>1, <3>2
  <2> QED BY <1>3, <2>2, <2>3, <2>4
<1>8. i - 1 = n /\ i + k = n + k + 1
  BY <1>1, <1>2
<1>9. S!ExtractLine(b) = <<l, r>>
  <2>1. S!ExtractLine(b) = <<SubSeq(b, 1, i - 1), S!From(b, i + k)>>
    BY <1>6, <1>7, Zenon DEF S!ExtractLine, Ending
  <2> QED BY <1>2, <1>8, <2>1
<1>10. CASE OneWay(d, b)
  <2>1. TheLine(d, b) = <<l, r>>
    BY <1>2, <1>6, <1>9, <1>10, OneWayIs
  <2> QED BY <1>1, <1>6, <2>1
<1>11. CASE ~OneWay(d, b)
  <2>1. e = <<S!CR, S!LF>> /\ d # "telnet"
    BY <1>1, <1>11 DEF EndsThere, OneWay
  <2> DEFINE pairs == {j \in 1 .. Len(b) - 1 : b[j] = S!CR /\ b[j + 1] = S!LF}
  <2>2. i \in pairs
    <3>1. k = 2 /\ b[i] = S!CR /\ i + 1 = n + 2 /\ b[n + 2] = S!LF
      BY <1>1, <1>2, <1>3, <1>4, <2>1
    <3>2. i \in 1 .. Len(b) - 1
      BY <1>1, <1>2, <3>1
    <3> QED BY <3>1, <3>2
  <2>3. S!Min(pairs) = i
    <3> DEFINE j == S!Min(pairs)
    <3>1. pairs \in SUBSET Nat
      BY <1>4
    <3>2. j \in pairs /\ j <= i
      <4> HIDE DEF pairs
      <4> QED BY <2>2, <3>1, MinIs
    <3>3. j \in 1 .. Len(b) - 1 /\ b[j] = S!CR
      <4> HIDE DEF j
      <4> QED BY <3>2
    <3> HIDE DEF j, pairs
    <3>4. ~(j < i)
      <4>1. j < i => j \in 1 .. i - 1
        BY <1>4, <3>3
      <4>2. S!CR \in Ending
        BY DEF Ending
      <4> QED BY <1>5, <3>3, <4>1, <4>2
    <3>5. j = i
      BY <1>4, <3>2, <3>3, <3>4
    <3> QED BY <3>5 DEF j
  <2>4. S!AX25Line(b) = <<SubSeq(b, 1, i - 1), S!From(b, i + 2)>>
    BY <2>2, <2>3 DEF S!AX25Line
  <2>5. i + 2 = n + k + 1
    BY <1>1, <1>2, <1>3, <2>1
  <2>6. TheLine(d, b) = <<l, r>>
    BY <1>2, <1>8, <2>1, <2>4, <2>5 DEF TheLine
  <2> QED BY <1>1, <1>6, <2>6
<1> QED BY <1>10, <1>11

\* A line that is typed is read as it was typed, and what follows it as it would be
\* alone: over telnet whatever follows, but for an LF behind a CR, which belongs to
\* it; over AX.25 whatever follows a CR LF, and otherwise if no line ends in another
\* way (TelnetReader._extract_line; AX25Reader.readline, which takes any CR LF in
\* the buffer first).
THEOREM TypedLineComesBack ==
  \A d : \A l, r \in S!Bytes : \A e \in LineEnds :
    ~S!Has(l, Ending) /\ EndsThere(d, l, e, r) =>
      /\ S!Lines(d, l \o e \o r).buf = S!Lines(d, r).buf
      /\ S!Lines(d, l \o e \o r).out = <<l>> \o S!Lines(d, r).out
<1>1. ASSUME NEW d, NEW l \in S!Bytes, NEW r \in S!Bytes, NEW e \in LineEnds,
             ~S!Has(l, Ending), EndsThere(d, l, e, r)
      PROVE  /\ S!Lines(d, l \o e \o r).buf = S!Lines(d, r).buf
             /\ S!Lines(d, l \o e \o r).out = <<l>> \o S!Lines(d, r).out
  <2>1. PICK b : b = Typed(l, e, r)
    OBVIOUS
  <2>2. b \in S!Bytes /\ S!Has(b, Ending) /\ TheLine(d, b)[1] = l /\ TheLine(d, b)[2] = r
    <3>1. Layout(b, l, e, r, Len(l), Len(e))
      BY <1>1, <2>1, TypedIs
    <3>2. S!Has(b, Ending) /\ TheLine(d, b)[1] = l /\ TheLine(d, b)[2] = r
      BY <1>1, <2>1, FirstTyped
    <3> QED BY <3>1, <3>2 DEF Layout
  <2>3. LineRead(d)[b].buf = LineRead(d)[r].buf /\ LineRead(d)[b].out = <<l>> \o LineRead(d)[r].out
    <3>1. Taken(d, b, TheLine(d, b)[1], TheLine(d, b)[2])
      BY <2>2, LineTaken
    <3>2. Taken(d, b, l, r)
      BY <2>2, <3>1
    <3> QED BY <3>2 DEF Taken
  <2>4. S!Lines(d, b) = LineRead(d)[b] /\ S!Lines(d, r) = LineRead(d)[r]
    BY LinesAre
  <2>5. l \o e \o r = b
    BY <2>1 DEF Typed
  <2> QED BY <2>3, <2>4, <2>5
<1> QED BY <1>1
-----------------------------------------------------------------------------
(***************************************************************************)
(* All five parts together.                                                *)
(***************************************************************************)
AllTyped ==
  /\ ConfInv /\ ConfBounds /\ TxInv /\ TxBounds /\ SchedInv /\ SchedBounds
  /\ YappInv /\ YappBounds /\ StreamsInv

\* All five parts begin typed and within their bounds.
LEMMA AllTypedInitial == ServicesInit => AllTyped
<1>1. ServicesInit => ConfInv /\ ConfBounds
  BY ConfInitial, BoundsInitial DEF ServicesInit
<1> QED BY <1>1, TxInitial, SchedInitial, YappInitial, OthersInitial, StreamsInitial DEF AllTyped

\* A step of one part leaves all five typed and within their bounds.
LEMMA AllTypedMoves == AllTyped /\ [ServicesNext]_servicesVars => AllTyped'
<1> SUFFICES ASSUME AllTyped, [ServicesNext]_servicesVars PROVE AllTyped'
  OBVIOUS
<1>1. ConfInv' /\ ConfBounds'
  <2>1. [Next]_confVars
    BY DEF ServicesNext, ConferenceStep, StreamsStep, YappStep, TransmitterStep,
           ScheduleStep, servicesVars
  <2> QED BY <2>1, ConfMoves, BoundsMove DEF AllTyped
<1>2. TxInv' /\ TxBounds'
  BY TxStep, TxBounded DEF AllTyped
<1>3. SchedInv' /\ SchedBounds'
  BY SchedMoves, SchedBounded DEF AllTyped
<1>4. YappInv' /\ YappBounds'
  BY YappMoves, YappBounded DEF AllTyped
<1>5. StreamsInv'
  BY StreamsMove DEF AllTyped
<1> QED BY <1>1, <1>2, <1>3, <1>4, <1>5 DEF AllTyped

\* Every part's state has its type in every behaviour: the clients of the
\* conference are no more than there may be, the frames of the soundcard and the
\* calls of the scheduler are within their bounds, at most two lines of a
\* transfer are under way at once, and whatever bytes arrive each decoder leaves
\* bytes in its buffer (conference.py, _run_loop; afsk.py, _tx_loop;
\* scheduler.py, _tick; yapp.py, send_file; telnet.py, _process).
THEOREM ServicesTyped == ServicesSpec => []ServicesTypeOK
<1>1. AllTyped => ServicesTypeOK
  BY ConfType, TxType, SchedType, YappType, StreamsType DEF AllTyped, ServicesTypeOK
<1> QED BY <1>1, AllTypedInitial, AllTypedMoves, PTL DEF ServicesSpec

\* A reader's buffer holds no end of line (TelnetReader.readline,
\* AX25Reader.readline).
NoLineWaits == decoder \in {"telnet", "ax25 CR", "ax25 LF", "ax25 CRLF"} => ~S!Has(buf, {S!CR, S!LF})

\* No whole line waits in a reader's buffer: however a stream is cut, a line whose
\* end has been read has been handed on, and what stays has neither CR nor LF
\* (TelnetReader.readline, _extract_line, AX25Reader.readline).
THEOREM LinesHandedOn == ServicesSpec => []NoLineWaits
<1>1. AllTyped => NoLineWaits
  BY DEF AllTyped, StreamsInv, NoLineWaits, NoLine, ByLines
<1> QED BY <1>1, AllTypedInitial, AllTypedMoves, PTL DEF ServicesSpec
=============================================================================
