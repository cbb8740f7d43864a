-------------------------------- MODULE Yapp --------------------------------
(***************************************************************************)
(* A file transfer of src/pybulletin/transport/yapp.py inside a session of *)
(* the command engine: YG, where the board runs send_file, or YU, where it *)
(* runs receive_file.  The other half is the user's terminal program,      *)
(* which is taken to do as yapp.py documents: as a receiver it waits for   *)
(* the announcement, as a sender for (ok), and skips the lines before.     *)
(* Bytes are neither lost nor reordered, but on a bad path they may be     *)
(* damaged, and each wait may run out.                                     *)
(***************************************************************************)
EXTENDS Naturals, Sequences

CONSTANTS
  Sizes,      \* sizes of the file, in blocks
  MaxDamages  \* bound: things damaged on the way

VARIABLES
  size,      \* blocks of the file
  board,     \* the half the board runs: "sender" or "receiver"
  sender,    \* where the sender waits, or how it ended
  index,     \* i, the frame it has sent last
  receiver,  \* where the receiver waits, or how it ended
  data,      \* buf: blocks received
  stored,    \* what the receiver's file holds; NoFile if none was written
  counted,   \* downloads recorded by the board
  forth,     \* on the way to the receiver
  back,      \* on the way to the sender
  damages,   \* things damaged so far
  trouble    \* history: what disturbed the transfer

yappVars == <<size, board, sender, index, receiver, data, stored, counted, forth, back, damages, trouble>>

NoFile == <<0>>
File == [i \in 1 .. size |-> i]
WrongBlock == size + 1

\* How a damaged frame may be read: its first byte is no SOH; its length reads
\* zero, too short or too long; its checksum is wrong, or right by chance.
Misreadings == {"noise", "end", "cut", "more", "wrong", "unseen"}
Troubles == Misreadings \cup {"timeout", "stray", "words", "misheard", "unheard"}

\* encode_file: a frame for each block, then the EOF frame.
Frame(i) == [kind |-> IF i <= size THEN "data" ELSE "eof", block |-> i, good |-> TRUE]
LastFrame == size + 1
Line(l) == [kind |-> l, block |-> 0, good |-> TRUE]
Rest == [kind |-> "rest", block |-> 0, good |-> FALSE]

Over == {"done", "failed"}
Ended == sender \in Over /\ receiver \in Over
Troubled(t) == trouble' = trouble \cup t

\* _cmd_yapp_get and _cmd_yapp_upload tell the user how the board's half ended.
Told(half, q) == IF board = half THEN Append(q, Line("text")) ELSE q

\* The command is read.  When its line ended in CR LF and the LF is late, it is
\* the first thing the transfer reads.  YG says that it starts and announces the
\* file; YU says that it is ready, then (ok).
Init ==
  /\ size \in Sizes /\ index = 0 /\ data = <<>> /\ stored = NoFile /\ counted = 0
  /\ sender = "ok" /\ board \in {"sender", "receiver"} /\ damages = 0
  /\ \E stray \in BOOLEAN :
       /\ trouble = IF stray THEN {"stray"} ELSE {}
       /\ IF board = "sender"
          THEN /\ receiver = "announcement" /\ forth = <<Line("greeting"), Line("announcement")>>
               /\ back = IF stray THEN <<Line("lf")>> ELSE <<>>
          ELSE /\ receiver = "frame" /\ back = <<Line("greeting"), Line("ok")>>
               /\ forth = IF stray THEN <<Line("lf")>> ELSE <<>>

(***************************************************************************)
(* send_file, or the terminal program that sends.                          *)
(***************************************************************************)
SendFrame(i) ==
  /\ forth' = Append(forth, Frame(i))
  /\ index' = i
  /\ sender' = "ack"

\* readline: to the board any line but (ok) is a refusal.  A late LF of its CR LF
\* is left.
HearOk ==
  /\ sender = "ok" /\ back # <<>>
  /\ LET ok == Head(back).kind = "ok" /\ Head(back).good
     IN \E late \in IF ok /\ board = "sender" THEN BOOLEAN ELSE {FALSE} :
          /\ back' = (IF late THEN <<Line("lf")>> ELSE <<>>) \o Tail(back)
          /\ Troubled(IF late THEN {"stray"} ELSE IF Head(back).good THEN {} ELSE {"unheard"})
          /\ \/ ok /\ SendFrame(1)
             \/ ~ok /\ board = "sender" /\ sender' = "failed" /\ forth' = Told("sender", forth) /\ index' = index
             \/ ~ok /\ board = "receiver" /\ UNCHANGED <<sender, forth, index>>
  /\ UNCHANGED <<size, board, receiver, data, stored, counted, damages>>

\* _cmd_yapp_get counts a download that has succeeded.
Counts == counted' = IF board = "sender" THEN counted + 1 ELSE counted

\* One byte is read: CAN ends the transfer, any other is an acknowledgement, each
\* byte of a text too.
HearAck ==
  /\ sender = "ack" /\ back # <<>>
  /\ \E can, rest \in BOOLEAN :
       /\ Head(back).good => can = (Head(back).kind = "can")
       /\ rest => Head(back).kind = "text"
       /\ back' = IF rest THEN back ELSE Tail(back)
       /\ Troubled((IF can = (Head(back).kind = "can") THEN {} ELSE {"misheard"})
                     \cup (IF Head(back).kind = "text" THEN {"words"} ELSE {}))
       /\ \/ can /\ sender' = "failed" /\ forth' = Told("sender", forth) /\ UNCHANGED <<index, counted>>
          \/ ~can /\ index < LastFrame /\ SendFrame(index + 1) /\ UNCHANGED counted
          \/ /\ ~can /\ index = LastFrame
             /\ sender' = "done" /\ forth' = Told("sender", forth) /\ Counts /\ index' = index
  /\ UNCHANGED <<size, board, receiver, data, stored, damages>>

(***************************************************************************)
(* receive_file, or the terminal program that receives.                    *)
(***************************************************************************)
HearAnnouncement ==
  /\ receiver = "announcement" /\ forth # <<>>
  /\ forth' = Tail(forth)
  /\ IF Head(forth).kind = "announcement" /\ Head(forth).good
     THEN receiver' = "frame" /\ back' = Append(back, Line("ok"))
     ELSE UNCHANGED <<receiver, back>>
  /\ Troubled(IF Head(forth).good THEN {} ELSE {"unheard"})
  /\ UNCHANGED <<size, board, sender, index, data, stored, counted, damages>>

\* What the next thing is taken for.  A frame whose length reads too long also
\* takes what comes after it; the checksum of the EOF frame is not looked at.
Readings(x) ==
  CASE receiver = "more" -> {"more", "cut", "wrong", "unseen"}
    [] receiver = "frame" /\ x.good ->
         {CASE x.kind = "data" -> "block" [] x.kind = "eof" -> "end" [] OTHER -> "noise"}
    [] OTHER -> IF x.kind = "eof" THEN {"noise", "end", "more"} ELSE Misreadings
AsSent(r, x) == receiver = "frame" /\ (x.good \/ (x.kind = "eof" /\ r = "end"))

\* Whether bytes of the frame are left for the next read: once.
Leaves(r, x) ==
  IF AsSent(r, x) \/ r \in {"more", "wrong"} \/ x.kind \notin {"data", "eof"} THEN {FALSE}
  ELSE IF x.kind = "data" /\ r # "unseen" THEN {TRUE} ELSE BOOLEAN

Receives(b) ==
  /\ data' = Append(data, b) /\ back' = Append(back, Line("ack"))
  /\ receiver' = "frame" /\ stored' = stored
\* _cmd_yapp_upload writes the file that has come.
Stores ==
  /\ receiver' = "done" /\ stored' = data /\ data' = data
  /\ back' = Told("receiver", Append(back, Line("ack")))

\* Faulty variants: what is wrong is acknowledged and dropped, or the receiver
\* gives up without a word.
GivesUp_Drops(answer) ==
  /\ UNCHANGED <<receiver, data, stored>>
  /\ back' = Append(back, Line("ack"))
GivesUp_Silent(answer) ==
  /\ receiver' = "failed" /\ UNCHANGED <<data, stored>>
  /\ back' = Told("receiver", back)

GivesUp(answer) ==
  /\ receiver' = "failed" /\ UNCHANGED <<data, stored>>
  /\ back' = Told("receiver", back \o answer)

\* A frame that is right is acknowledged; a wrong checksum ends it with CAN, a
\* byte that is not SOH without an answer.
Takes(r, x) ==
  \/ r = "block" /\ Receives(x.block)
  \/ r = "unseen" /\ Receives(WrongBlock)
  \/ r = "end" /\ Stores
  \/ r \in {"cut", "wrong"} /\ GivesUp(<<Line("can")>>)
  \/ r = "noise" /\ GivesUp(<<>>)
  \/ r = "more" /\ receiver' = "more" /\ UNCHANGED <<back, data, stored>>

HearFrame ==
  /\ receiver \in {"frame", "more"} /\ forth # <<>>
  /\ \E r \in Readings(Head(forth)) :
       /\ \E left \in Leaves(r, Head(forth)) :
            forth' = (IF left THEN <<Rest>> ELSE <<>>) \o Tail(forth)
       /\ Takes(r, Head(forth))
       /\ Troubled(IF AsSent(r, Head(forth)) THEN {} ELSE {r})
  /\ UNCHANGED <<size, board, sender, index, counted, damages>>

(***************************************************************************)
(* The path, the user and the clock.                                       *)
(***************************************************************************)
Damage ==
  /\ damages < MaxDamages /\ damages' = damages + 1
  /\ \/ \E i \in 1 .. Len(forth) : forth[i].good /\ forth' = [forth EXCEPT ![i].good = FALSE] /\ back' = back
     \/ \E i \in 1 .. Len(back) : back[i].good /\ back' = [back EXCEPT ![i].good = FALSE] /\ forth' = forth
  /\ UNCHANGED <<size, board, sender, index, receiver, data, stored, counted, trouble>>

\* When the terminal program's half is over, its user may type: one line stands
\* for all of them.
Types ==
  /\ LET typed(half, q) == half \in Over /\ \A i \in 1 .. Len(q) : q[i].kind # "text"
     IN \/ /\ board = "sender" /\ typed(receiver, back)
           /\ back' = Append(back, Line("text")) /\ forth' = forth
        \/ /\ board = "receiver" /\ typed(sender, forth)
           /\ forth' = Append(forth, Line("text")) /\ back' = back
  /\ UNCHANGED <<size, board, sender, index, receiver, data, stored, counted, damages, trouble>>

\* wait_for runs out, or the connection is gone: the half that waits fails.
SenderTimeout ==
  /\ sender \notin Over
  /\ sender' = "failed" /\ forth' = Told("sender", forth) /\ Troubled({"timeout"})
  /\ UNCHANGED <<size, board, index, receiver, data, stored, counted, back, damages>>
ReceiverTimeout ==
  /\ receiver \notin Over
  /\ receiver' = "failed" /\ back' = Told("receiver", back) /\ Troubled({"timeout"})
  /\ UNCHANGED <<size, board, sender, index, data, stored, counted, forth, damages>>

Next ==
  \/ HearOk \/ HearAck \/ HearAnnouncement \/ HearFrame
  \/ Damage \/ Types \/ SenderTimeout \/ ReceiverTimeout

Spec == Init /\ [][Next]_yappVars

-----------------------------------------------------------------------------
Things(kinds) == [kind : kinds, block : Nat, good : BOOLEAN]
TypeOK ==
  /\ size \in Sizes /\ board \in {"sender", "receiver"} /\ index \in 0 .. size + 1
  /\ sender \in {"ok", "ack"} \cup Over /\ receiver \in {"announcement", "frame", "more"} \cup Over
  /\ data \in Seq(Nat) /\ stored \in Seq(Nat) /\ counted \in 0 .. 1
  /\ forth \in Seq(Things({"greeting", "announcement", "lf", "data", "eof", "rest", "text"}))
  /\ back \in Seq(Things({"greeting", "lf", "ok", "ack", "can", "text"}))
  /\ damages \in Nat /\ trouble \subseteq Troubles

\* A file is stored whole or not at all, whatever times out or is damaged: but
\* the one whose frame was read as the last ends there, and a checksum may miss
\* the damage (receive_file, _cmd_yapp_upload).
StoredIsWhole ==
  \/ stored \in {NoFile, File}
  \/ "end" \in trouble /\ \E n \in 0 .. size : stored = SubSeq(File, 1, n)
  \/ "unseen" \in trouble

\* What an acknowledgement that is none needs: a line end that came late, a text
\* or a damaged CAN taken for one, or damage that the checksum misses.
Mistakes == {"stray", "words", "misheard", "unseen"}

\* The sender reports success only of a file the other end has, so that every
\* download counted was one, unless it mistook something for an acknowledgement.
SuccessIsStored == trouble \cap Mistakes = {} /\ (sender = "done" \/ counted > 0) => stored = File

\* Nothing ran out and no damage was met but a checksum that told it: then both
\* halves agree, and nothing of the transfer is left for the board's prompt to
\* read as a command (send_file, receive_file, _cmd_yapp_get, _cmd_yapp_upload).
Undisturbed == trouble \subseteq {"wrong", "cut"}
ForPrompt == IF board = "sender" THEN back ELSE forth
BothAgree ==
  Undisturbed /\ Ended =>
    /\ (sender = "done" <=> stored = File) /\ sender = receiver
    /\ \A i \in 1 .. Len(ForPrompt) : ForPrompt[i].kind = "text" \/ "cut" \in trouble

\* No half waits for what will not come, so that the clock has to end it: while
\* nothing else disturbs the transfer, what one of the two waits for is on its
\* way (send_file, receive_file).
SomethingOnTheWay ==
  Undisturbed /\ ~Ended =>
    \/ sender \notin Over /\ back # <<>>
    \/ receiver \notin Over /\ forth # <<>>
=============================================================================
