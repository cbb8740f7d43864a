--------------------------- MODULE ForwardSession ---------------------------
(***************************************************************************)
(* Forwarding sessions between two boards (forward/session.py): who says   *)
(* which line when, what each board's store records of it, and what is     *)
(* left of it when a connection breaks, a board dies, or an answer comes   *)
(* after the reader's timeout.                                             *)
(*                                                                         *)
(* An end that runs this program takes the steps of ForwardSession._run.   *)
(* A foreign end follows the session flow that module documents: it waits  *)
(* for the other's proposals, answers them with an FS line, and makes its  *)
(* own.  Sessions follow each other; what concurrent ones do to the store  *)
(* is another module's subject.                                            *)
(*                                                                         *)
(* Messages are bulletins in a category that both boards list for each     *)
(* other, known by their BID.                                              *)
(***************************************************************************)
EXTENDS Integers, Sequences, SequencesExt

CONSTANTS
  CallerMail, CalledMail,  \* BIDs of the messages each board has at first
  TooBig,                  \* those of more than _MAX_MSG_BYTES
  Peers,                   \* the choices of which ends are foreign
  MaxSessions,             \* bound: connections made
  MaxFaults                \* bound: connections cut and boards that die

ASSUME ForwardAssumption ==
  /\ CallerMail \subseteq Nat \ {0} /\ IsFiniteSet(CallerMail)
  /\ CalledMail \subseteq Nat \ {0} /\ IsFiniteSet(CalledMail)
  /\ TooBig \subseteq CallerMail \cup CalledMail
  /\ Peers \subseteq SUBSET {"caller", "called"}
  /\ MaxSessions \in Nat /\ MaxFaults \in Nat

VARIABLES
  foreign,   \* the ends that do not run this program
  store,     \* store[e][m]: status of message m on board e
  path,      \* path[e][m]: the boards in its forward_path
  sess,      \* sess[e]: e's ForwardSession
  wire,      \* wire[e]: lines e has sent that the other end has not read
  cut,       \* the connection is broken, or the other end of it dead
  flawed,    \* history: the session was cut, or a timeout came before the line
  granted,   \* history: granted[e]: messages of e the other end said + to
  sessions, faults

vars == <<foreign, store, path, sess, wire, cut, flawed, granted, sessions, faults>>

End == {"caller", "called"}
Other(e) == IF e = "caller" THEN "called" ELSE "caller"

None == 0
Msg == CallerMail \cup CalledMail
Mail(e) == IF e = "caller" THEN CallerMail ELSE CalledMail

Statuses == {"absent", "N", "F"}
Answers  == {"+", "=", "-"}

\* A message travels as one block.  The kind "" is what readline returns at the
\* end of the input and at a timeout.
Line == [kind : {"", "SID", ">", "FB", "FF", "FS", "BLOCK", "FQ"},
         msg : Msg \cup {None}, answers : Seq(Answers)]

Text(kind) == [kind |-> kind, msg |-> None, answers |-> <<>>]
FB(m)      == [kind |-> "FB", msg |-> m, answers |-> <<>>]
Block(m)   == [kind |-> "BLOCK", msg |-> m, answers |-> <<>>]
FS(as)     == [kind |-> "FS", msg |-> None, answers |-> as]

(***************************************************************************)
(* A session: where it is, its proposals, those of them still to be sent,  *)
(* and the other end's proposals, from the answer on those it accepted.    *)
(***************************************************************************)
Stages == {"idle", "sid", "prompt", "propose", "answer", "proposals",
           "send", "record", "path", "greet"}

Session == [at : Stages, out : Seq(Msg), ok : Seq(Msg), inc : Seq(Msg)]

Init ==
  /\ foreign \in Peers
  /\ store = [e \in End |-> [m \in Msg |-> IF m \in Mail(e) THEN "N" ELSE "absent"]]
  /\ path = [e \in End |-> [m \in Msg |-> {}]]
  /\ sess = [e \in End |-> [at |-> "idle", out |-> <<>>, ok |-> <<>>, inc |-> <<>>]]
  /\ wire = [e \in End |-> <<>>]
  /\ cut = FALSE /\ flawed = FALSE
  /\ granted = [e \in End |-> {}]
  /\ sessions = 0 /\ faults = 0

-----------------------------------------------------------------------------
(***************************************************************************)
(* Reading and writing lines.  A line written to a connection that is      *)
(* broken, or to an end that has closed it, is gone.                       *)
(***************************************************************************)
Heard(e) == IF wire[Other(e)] = <<>> THEN Text("") ELSE Head(wire[Other(e)])

Waits(e) ==
  /\ wire[Other(e)] = <<>>
  /\ \/ sess[e].at \in {"sid", "prompt", "answer", "proposals"}
     \/ sess[e].at = "send" /\ sess[e].ok = <<>> /\ sess[e].inc # <<>>

\* The other end would still have sent something: the timeout came too soon.
TooSoon(e) ==
  wire[Other(e)] = <<>> /\ sess[Other(e)].at # "idle" /\ ~Waits(Other(e))

Sent(e, lines) ==
  IF cut \/ sess[Other(e)].at = "idle" THEN wire[e] ELSE wire[e] \o lines

\* End e goes on as s and writes lines, having read a line or not.
Write(e, s, lines) ==
  /\ sess' = [sess EXCEPT ![e] = s]
  /\ wire' = [wire EXCEPT ![e] = Sent(e, lines)]
  /\ UNCHANGED <<foreign, cut, flawed, sessions, faults>>

Read(e, s, lines) ==
  /\ sess' = [sess EXCEPT ![e] = s]
  /\ wire' = [wire EXCEPT ![e] = Sent(e, lines),
                          ![Other(e)] = IF @ = <<>> THEN @ ELSE Tail(@)]
  /\ flawed' = (flawed \/ TooSoon(e))
  /\ UNCHANGED <<foreign, cut, sessions, faults>>

records == <<store, path, granted>>

\* Messages are listed, proposed and sent in the order of their numbers.
Ordered(S) ==
  CHOOSE q \in [1 .. Cardinality(S) -> S] : \A i, j \in DOMAIN q : i < j => q[i] < q[j]

-----------------------------------------------------------------------------
(***************************************************************************)
(* The opening: run_outgoing connects; each end sends its SID, the called  *)
(* end when it has read the caller's; the caller waits for the prompt.     *)
(***************************************************************************)
Opening(e) ==
  IF e \notin foreign THEN "sid" ELSE IF e = "called" THEN "greet" ELSE "proposals"

Connect ==
  /\ \A e \in End : sess[e].at = "idle"
  /\ sessions < MaxSessions
  /\ sessions' = sessions + 1
  /\ sess' = [e \in End |-> [at |-> Opening(e), out |-> <<>>, ok |-> <<>>, inc |-> <<>>]]
  /\ wire' = [e \in End |-> IF e = "caller" THEN <<Text("SID")>> ELSE <<>>]
  /\ cut' = FALSE /\ flawed' = FALSE
  /\ UNCHANGED <<records, foreign, faults>>

\* A caller that hears no SID goes on all the same; a called end hangs up.
ReadSID(e) ==
  /\ sess[e].at = "sid"
  /\ IF e = "caller"
     THEN Read(e, [sess[e] EXCEPT !.at = "prompt"], <<>>)
     ELSE IF Heard(e).kind = ""
     THEN Read(e, [sess[e] EXCEPT !.at = "idle"], <<>>)
     ELSE Read(e, [sess[e] EXCEPT !.at = "propose"], <<Text("SID"), Text(">")>>)
  /\ UNCHANGED records

AwaitPrompt(e) ==
  /\ sess[e].at = "prompt"
  /\ Read(e, [sess[e] EXCEPT !.at = CASE Heard(e).kind = ">" -> "propose"
                                      [] Heard(e).kind = ""  -> "idle"
                                      [] OTHER               -> @], <<>>)
  /\ UNCHANGED records

-----------------------------------------------------------------------------
(***************************************************************************)
(* Proposals and answers.                                                  *)
(***************************************************************************)
\* _select_outgoing: new here, and neither this board nor the other in its path.
Selected(e) ==
  {m \in Msg : store[e][m] = "N" /\ e \notin path[e][m] /\ Other(e) \notin path[e][m]}

Proposals(out) == [i \in DOMAIN out |-> FB(out[i])] \o <<Text("FF")>>

Propose(e) ==
  /\ sess[e].at = "propose"
  /\ LET out == Ordered(Selected(e)) IN
     Write(e, [sess[e] EXCEPT !.at = "answer", !.out = out], Proposals(out))
  /\ UNCHANGED records

\* Faulty variants: what the other end has is sent all the same, or the last
\* answer is overlooked.
PlusOrEqual(out, as) == Ordered({out[i] : i \in {j \in DOMAIN out : j <= Len(as) /\ as[j] # "-"}})
AllButLast(out, as) == Ordered({out[i] : i \in {j \in DOMAIN out : j < Len(as) /\ as[j] = "+"}})

\* A line that is no FS line grants nothing (its answers are <<>>), and what has
\* no answer is not granted.
Accepted(out, as) == Ordered({out[i] : i \in {j \in DOMAIN out : j <= Len(as) /\ as[j] = "+"}})

\* This program then reads the other's proposals, a foreign end has heard them.
ReadAnswer(e) ==
  /\ sess[e].at = "answer"
  /\ Read(e, [sess[e] EXCEPT !.at = IF e \in foreign THEN "send" ELSE "proposals",
                             !.ok = Accepted(sess[e].out, Heard(e).answers)], <<>>)
  /\ UNCHANGED records

\* A faulty variant: any line is taken for a proposal.
HearAnyLine(e) ==
  /\ sess[e].at = "proposals" /\ wire[Other(e)] # <<>>
  /\ Read(e, [sess[e] EXCEPT !.inc = Append(@, Heard(e).msg)], <<>>)
  /\ UNCHANGED records

HearProposal(e) ==
  /\ sess[e].at = "proposals" /\ Heard(e).kind = "FB"
  /\ Read(e, [sess[e] EXCEPT !.inc = Append(@, Heard(e).msg)], <<>>)
  /\ UNCHANGED records

\* A faulty variant: the end of the input does not end the proposals.
EndsUnlessEmpty == {"FF", "FQ"}

EndsProposals == {"FF", "FQ", ""}

HearOther(e) ==
  /\ sess[e].at = "proposals" /\ Heard(e).kind \notin EndsProposals \cup {"FB"}
  /\ Read(e, sess[e], <<>>)
  /\ UNCHANGED records

\* A faulty variant: the board's own store is not asked.
AnswerUnasked(e, m) == IF m \in TooBig THEN "-" ELSE "+"

AnswerTo(e, m) ==
  IF store[e][m] # "absent" THEN "=" ELSE IF m \in TooBig THEN "-" ELSE "+"

Responses(e) == [i \in DOMAIN sess[e].inc |-> AnswerTo(e, sess[e].inc[i])]

Wanted(e) ==
  LET inc  == sess[e].inc
      kept == Ordered({i \in DOMAIN inc : AnswerTo(e, inc[i]) = "+"})
  IN  [k \in DOMAIN kept |-> inc[kept[k]]]

Grants(e) == [granted EXCEPT ![Other(e)] = @ \cup Range(Wanted(e))]

\* _respond_to_proposals: nothing is said to no proposals.
Respond(e) ==
  /\ e \notin foreign
  /\ sess[e].at = "proposals" /\ Heard(e).kind \in EndsProposals
  /\ Read(e, [sess[e] EXCEPT !.at = "send", !.inc = Wanted(e)],
          IF sess[e].inc = <<>> THEN <<>> ELSE <<FS(Responses(e))>>)
  /\ granted' = Grants(e)
  /\ UNCHANGED <<store, path>>

-----------------------------------------------------------------------------
(***************************************************************************)
(* The transfer.                                                           *)
(***************************************************************************)
\* The block of the next accepted message is in the socket buffer ...
Send(e) ==
  /\ sess[e].at = "send" /\ sess[e].ok # <<>>
  /\ Write(e, [sess[e] EXCEPT !.at = "record"], <<Block(Head(sess[e].ok))>>)
  /\ UNCHANGED records

\* ... and then the store is told.
Record(e) ==
  /\ sess[e].at = "record"
  /\ LET m == Head(sess[e].ok) IN
     /\ store' = [store EXCEPT ![e][m] = "F"]
     /\ path' = [path EXCEPT ![e][m] = @ \cup {e}]
  /\ Write(e, [sess[e] EXCEPT !.at = "send", !.ok = Tail(@)], <<>>)
  /\ UNCHANGED granted

\* One block for each accepted proposal; any other line in its place is dropped,
\* and so is a message that is here already.
New(e) == Heard(e).kind = "BLOCK" /\ store[e][Heard(e).msg] = "absent"

Receive(e) ==
  /\ sess[e].at = "send" /\ sess[e].ok = <<>> /\ sess[e].inc # <<>>
  /\ IF New(e)
     THEN /\ store' = [store EXCEPT ![e][Heard(e).msg] = "N"]
          /\ Read(e, [sess[e] EXCEPT !.at = "path", !.ok = <<Heard(e).msg>>, !.inc = Tail(@)],
                  <<>>)
     ELSE /\ Read(e, [sess[e] EXCEPT !.inc = Tail(@)], <<>>)
          /\ UNCHANGED store
  /\ UNCHANGED <<path, granted>>

AppendPath(e) ==
  /\ sess[e].at = "path"
  /\ path' = [path EXCEPT ![e][Head(sess[e].ok)] = @ \cup {Other(e)}]
  /\ Write(e, [sess[e] EXCEPT !.at = "send", !.ok = <<>>], <<>>)
  /\ UNCHANGED <<store, granted>>

Finish(e) ==
  /\ sess[e].at = "send" /\ sess[e].ok = <<>> /\ sess[e].inc = <<>>
  /\ Write(e, [sess[e] EXCEPT !.at = "idle"], <<Text("FQ")>>)
  /\ UNCHANGED records

-----------------------------------------------------------------------------
(***************************************************************************)
(* A foreign end.                                                          *)
(***************************************************************************)
Greet(e) ==
  /\ sess[e].at = "greet"
  /\ Write(e, [sess[e] EXCEPT !.at = "proposals"], <<Text("SID"), Text(">")>>)
  /\ UNCHANGED records

ForeignAnswer(e) ==
  /\ e \in foreign /\ sess[e].at = "proposals" /\ Heard(e).kind = "FF"
  /\ LET out == Ordered(Selected(e)) IN
     Read(e, [sess[e] EXCEPT !.at = IF out = <<>> THEN "send" ELSE "answer",
                             !.out = out, !.inc = Wanted(e)],
          <<FS(Responses(e))>> \o Proposals(out))
  /\ granted' = Grants(e)
  /\ UNCHANGED <<store, path>>

\* It hangs up when it hears that the session is over before its turn.
Leave(e) ==
  /\ e \in foreign /\ sess[e].at = "proposals" /\ Heard(e).kind \in {"FQ", ""}
  /\ cut \/ sess[Other(e)].at = "idle"
  /\ Read(e, [sess[e] EXCEPT !.at = "idle"], <<>>)
  /\ UNCHANGED records

-----------------------------------------------------------------------------
(***************************************************************************)
(* Faults.                                                                 *)
(***************************************************************************)
Broken(e) == cut \/ (flawed /\ sess[Other(e)].at = "idle")

\* The connection breaks, and only some of what was on the way still arrives.
Breaks ==
  /\ faults < MaxFaults /\ faults' = faults + 1
  /\ cut' = TRUE /\ flawed' = TRUE
  /\ \E a \in Prefixes(wire["caller"]), b \in Prefixes(wire["called"]) :
       wire' = [e \in End |-> IF e = "caller" THEN a ELSE b]
  /\ UNCHANGED <<foreign, records, sessions>>

Cut ==
  /\ \E e \in End : sess[e].at # "idle"
  /\ ~cut /\ Breaks /\ UNCHANGED sess

\* The board's process dies; its store remains.
Crash(e) ==
  /\ sess[e].at # "idle"
  /\ Breaks /\ sess' = [sess EXCEPT ![e].at = "idle"]

\* An exception from the connection ends the session.
Abort(e) ==
  /\ Broken(e) /\ sess[e].at # "idle"
  /\ sess' = [sess EXCEPT ![e].at = "idle"]
  /\ UNCHANGED <<foreign, records, wire, cut, flawed, sessions, faults>>

\* One that comes while a block is sent is caught: the message stays as it is.
SendFails(e) ==
  /\ Broken(e) /\ sess[e].at = "send" /\ sess[e].ok # <<>>
  /\ Write(e, [sess[e] EXCEPT !.ok = Tail(@)], <<>>)
  /\ UNCHANGED records

-----------------------------------------------------------------------------
Step(e) ==
  \/ ReadSID(e) \/ AwaitPrompt(e) \/ Propose(e) \/ ReadAnswer(e)
  \/ HearProposal(e) \/ HearOther(e) \/ Respond(e)
  \/ Send(e) \/ Record(e) \/ Receive(e) \/ AppendPath(e) \/ Finish(e)

Next ==
  \/ Connect \/ Cut
  \/ \E e \in End :
       \/ Step(e) \/ Greet(e) \/ ForeignAnswer(e) \/ Leave(e)
       \/ Crash(e) \/ Abort(e) \/ SendFails(e)

Spec == Init /\ [][Next]_vars

\* The next step of e puts a line on the connection.
Writing(e) == ENABLED (Step(e) /\ wire'[e] # wire[e])

\* asyncio resumes a session that has a line to read, has waited long enough for
\* one (_readline), or waits for its store.  A write ends when the other end
\* reads: drain has no timeout, and no write is assumed to end.  Nothing is
\* assumed of a foreign end.
FairSpec ==
  Spec /\ \A e \in End : WF_vars(e \notin foreign /\ Step(e) /\ wire'[e] = wire[e])

-----------------------------------------------------------------------------
(***************************************************************************)
(* What forwarding promises.                                               *)
(***************************************************************************)
\* Stores, sessions and lines have the values the code gives them.
TypeOK ==
  /\ foreign \in Peers
  /\ store \in [End -> [Msg -> Statuses]]
  /\ path \in [End -> [Msg -> SUBSET End]]
  /\ sess \in [End -> Session]
  /\ wire \in [End -> Seq(Line)]
  /\ cut \in BOOLEAN /\ flawed \in BOOLEAN
  /\ granted \in [End -> SUBSET Msg]
  /\ sessions \in 0 .. MaxSessions /\ faults \in 0 .. MaxFaults

\* A message is marked forwarded only if the other board asked for that very
\* message, whatever was cut, answered late or left unanswered (ReadAnswer pairs
\* the answers with the proposals by position).
MarkedWasGranted ==
  \A e \in End : \A m \in Msg : store[e][m] = "F" => m \in granted[e]

\* No block is sent to a board that has the message: not on a second try after
\* the record of the first was lost, and not back to where it came from when a
\* crash has left it without its path.
NoneSentTwice ==
  \A e \in End : sess[e].at = "send" =>
    \A i \in DOMAIN sess[e].ok : store[Other(e)][sess[e].ok[i]] = "absent"

\* A session that nothing disturbed has done its work: of what either board
\* proposed, all that is not too big is on the other.
UnbrokenDelivers ==
  (\A e \in End : sess[e].at = "idle") /\ ~flawed =>
    \A e \in End : \A m \in Range(sess[e].out) \ TooBig : store[Other(e)][m] # "absent"

\* Every session ends, whenever the other end falls silent or the connection
\* breaks, but for one that waits for a write for ever: the other end does not
\* read (_writeline, _send_message).  One that never stops sending lines before
\* the prompt or in its proposals is not in the model (_run).
SessionEnds ==
  \A e \in End : []<>(e \in foreign \/ sess[e].at = "idle") \/ <>[]Writing(e)
=============================================================================
