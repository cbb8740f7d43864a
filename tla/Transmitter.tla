---------------------------- MODULE Transmitter ----------------------------
(***************************************************************************)
(* The transmitting half of the soundcard modem (transport/afsk.py): the   *)
(* task _tx_loop keys the transmitter, plays a frame and releases it; _run *)
(* ends it when the link stops.  Keying and closing are done in threads.   *)
(* A thread is not stopped by the cancellation of the task that awaits it: *)
(* it goes on beside the event loop.                                       *)
(***************************************************************************)
EXTENDS Naturals

CONSTANTS
  Controls,    \* the kinds of PTT control that are checked
  MaxFrames,   \* bound: frames queued at a time
  MaxFailures  \* bound: operations of the control that fail

VARIABLES
  ptt,       \* the control: [kind, open: its port or pin is held, on: the transmitter is keyed]
  frames,    \* frames in _tx_queue
  tx,        \* where _tx_loop is suspended
  keyed,     \* its variable
  keying,    \* the thread that keys
  link,      \* _run: up, stopping (the tx task is cancelled), or how far close() is
  failures,
  unreleased, \* history: the last release of the transmitter failed
  outrun     \* history: close() began while the thread was still keying

txVars == <<ptt, frames, tx, keyed, keying, link, failures, unreleased, outrun>>

Sending == {"key", "lead", "audio", "tail"}

\* Serial RTS and the GPIO controls hold a port or a pin; a CM108 is opened for
\* every write.
Held == ptt.kind \in {"rts", "gpio"}

Init ==
  /\ ptt \in [kind : Controls, open : {FALSE}, on : {FALSE}]
  /\ frames = 0 /\ tx = "get" /\ keyed = FALSE /\ keying = "none" /\ link = "up"
  /\ failures = 0 /\ unreleased = FALSE /\ outrun = FALSE

Fails == failures < MaxFailures /\ failures' = failures + 1

\* send_frame.
SendFrame ==
  /\ frames < MaxFrames /\ frames' = frames + 1
  /\ UNCHANGED <<ptt, tx, keyed, keying, link, failures, unreleased, outrun>>

\* A frame is taken from the queue, and a thread begins to key.
Take ==
  /\ link = "up" /\ tx = "get" /\ frames > 0
  /\ frames' = frames - 1
  /\ tx' = "key" /\ keyed' = FALSE /\ keying' = "begun"
  /\ UNCHANGED <<ptt, link, failures, unreleased, outrun>>

\* The thread: _ensure_open, when the port or pin is not held,
ThreadOpens ==
  /\ keying = "begun"
  /\ \/ /\ keying' = "opened" /\ UNCHANGED failures
        /\ ptt' = [ptt EXCEPT !.open = Held]
     \/ /\ Held /\ ~ptt.open /\ Fails
        /\ keying' = "failed" /\ UNCHANGED ptt
  /\ UNCHANGED <<frames, tx, keyed, link, unreleased, outrun>>

\* and _set_keyed_sync, which raises if close() has let it go since.
ThreadKeys ==
  /\ keying = "opened"
  /\ IF Held /\ ~ptt.open
     THEN keying' = "failed" /\ UNCHANGED <<ptt, failures>>
     ELSE \/ keying' = "done" /\ ptt' = [ptt EXCEPT !.on = TRUE] /\ UNCHANGED failures
          \/ keying' = "failed" /\ Fails /\ UNCHANGED ptt
  /\ UNCHANGED <<frames, tx, keyed, link, unreleased, outrun>>

\* The task goes on when its thread is done, or logs why it failed.
Keyed ==
  /\ link = "up" /\ tx = "key" /\ keying \in {"done", "failed"}
  /\ keyed' = (keying = "done") /\ keying' = "none"
  /\ tx' = IF keying = "done" THEN "lead" ELSE "get"
  /\ UNCHANGED <<ptt, frames, link, failures, unreleased, outrun>>

\* set_keyed_blocking(False), whose exceptions are suppressed.
Release ==
  \/ /\ ptt' = [ptt EXCEPT !.on = FALSE]
     /\ unreleased' = FALSE /\ UNCHANGED failures
  \/ Fails /\ unreleased' = TRUE /\ UNCHANGED ptt

\* A pause, the frame, and another pause.
Plays ==
  /\ link = "up" /\ tx \in {"lead", "audio"}
  /\ tx' = IF tx = "lead" THEN "audio" ELSE "tail"
  /\ UNCHANGED <<ptt, frames, keyed, keying, link, failures, unreleased, outrun>>

Sent ==
  /\ link = "up" /\ tx = "tail"
  /\ tx' = "get" /\ keyed' = FALSE /\ Release
  /\ UNCHANGED <<frames, keying, link, outrun>>

\* A faulty variant: the frame that fails is logged, and nothing else.
AudioFails_Logged ==
  /\ link = "up" /\ tx = "audio"
  /\ tx' = "get" /\ keyed' = FALSE
  /\ UNCHANGED <<ptt, frames, keying, link, failures, unreleased, outrun>>

\* Playing raises: the finally clause releases too.
AudioFails ==
  /\ link = "up" /\ tx = "audio"
  /\ tx' = "get" /\ keyed' = FALSE /\ Release
  /\ UNCHANGED <<frames, keying, link, outrun>>

\* stop(), or an input device that raises: _run cancels the tx task.
Stop ==
  /\ link = "up" /\ link' = "stopping"
  /\ UNCHANGED <<ptt, frames, tx, keyed, keying, failures, unreleased, outrun>>

\* The tx task ends; here a release fails when two attempts have.  The thread
\* that was keying goes on, unless the pool had not started it.
Cancelled ==
  /\ link = "stopping" /\ tx # "over"
  /\ tx' = "over"
  /\ IF keyed THEN Release ELSE UNCHANGED <<ptt, failures, unreleased>>
  /\ keying' \in {keying} \cup (IF keying = "begun" THEN {"none"} ELSE {})
  /\ UNCHANGED <<frames, keyed, link, outrun>>

\* ptt.close() begins: a port is let go before a thread closes it.
Close ==
  /\ link = "stopping" /\ tx = "over"
  /\ outrun' = (keying \in {"begun", "opened"})
  /\ link' = IF Held /\ ~ptt.open THEN "closed" ELSE "closing"
  /\ ptt' = IF ptt.kind = "rts" THEN [ptt EXCEPT !.open = FALSE] ELSE ptt
  /\ UNCHANGED <<frames, tx, keyed, keying, failures, unreleased>>

\* Its thread: closing a port drops RTS; the others are released.
Closes ==
  /\ link = "closing"
  /\ IF ptt.kind = "rts"
     THEN ptt' = [ptt EXCEPT !.on = FALSE] /\ unreleased' = FALSE /\ UNCHANGED failures
     ELSE Release
  /\ link' = IF ptt.kind = "gpio" THEN "released" ELSE "closed"
  /\ UNCHANGED <<frames, tx, keyed, keying, outrun>>

\* A pin is let go after that, and a second thread cleans it up.
LetGo ==
  /\ link = "released" /\ link' = "cleanup"
  /\ ptt' = [ptt EXCEPT !.open = FALSE]
  /\ UNCHANGED <<frames, tx, keyed, keying, failures, unreleased, outrun>>
CleansUp ==
  /\ link = "cleanup" /\ link' = "closed"
  /\ ptt' = [ptt EXCEPT !.open = FALSE, !.on = FALSE] /\ unreleased' = FALSE
  /\ UNCHANGED <<frames, tx, keyed, keying, failures, outrun>>

Next ==
  \/ SendFrame \/ Take \/ ThreadOpens \/ ThreadKeys \/ Keyed \/ Plays \/ Sent \/ AudioFails
  \/ Stop \/ Cancelled \/ Close \/ Closes \/ LetGo \/ CleansUp
Spec == Init /\ [][Next]_txVars

-----------------------------------------------------------------------------
TypeOK ==
  /\ ptt \in [kind : Controls, open : BOOLEAN, on : BOOLEAN]
  /\ frames \in 0 .. MaxFrames /\ failures \in 0 .. MaxFailures
  /\ tx \in Sending \cup {"get", "over"} /\ keyed \in BOOLEAN
  /\ keying \in {"none", "begun", "opened", "done", "failed"}
  /\ link \in {"up", "stopping", "closing", "released", "cleanup", "closed"}
  /\ unreleased \in BOOLEAN /\ outrun \in BOOLEAN

\* The transmitter is keyed while a frame is sent and at no other time: not after
\* a frame that failed, not after the link has stopped, at whatever moment it was
\* stopped.  Two things defeat it: a release that fails, and a thread that is
\* still keying when close() begins (_tx_loop, set_keyed_blocking, close).
TransmitterReleased ==
  ptt.on => \/ tx \in Sending
            \/ unreleased
            \/ outrun
            \/ link # "closed" /\ ~keyed /\ tx = "over"
=============================================================================
