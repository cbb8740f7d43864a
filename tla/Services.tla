------------------------------ MODULE Services ------------------------------
(***************************************************************************)
(* What goes on beside the mail and the accounts: the conference, the      *)
(* streams of the transports, file transfers, the soundcard's transmitter  *)
(* and the forward scheduler.  They share no state, so that what holds of  *)
(* each alone holds of all: in every behaviour one of them runs, and the   *)
(* others stay where they begin.                                           *)
(***************************************************************************)
EXTENDS Conference

CONSTANTS
  Decoders, MaxUnits,                                      \* of Streams
  Sizes, MaxDamages,                                       \* of Yapp
  Controls, MaxFrames, MaxFailures,                        \* of Transmitter
  Neighbours, Ticks, MinutesPerHour, HoursPerDay, Expressions, MaxMinutes, MaxLate,  \* of Schedule
  Parts                                                    \* those checked

AllParts == {"conference", "streams", "yapp", "transmitter", "schedule"}
ASSUME PartsAssumption == Parts \subseteq AllParts
ASSUME SizesAssumption == Sizes \subseteq Nat
ASSUME ClockAssumption ==
  /\ Ticks \in Nat \ {0} /\ MaxMinutes \in Nat
  /\ MinutesPerHour \in Nat \ {0} /\ HoursPerDay \in Nat \ {0}
  /\ Neighbours \subseteq Nat

VARIABLES
  part,  \* the one that runs
  decoder, wire, buf, got, sent, cut,
  size, board, sender, index, receiver, data, stored, counted, forth, back, damages, trouble,
  ptt, frames, tx, keyed, keying, link, failures, unreleased, outrun,
  schedule, enabled, now, loop, wake, todo, called, twice, spent, late

S == INSTANCE Streams
Y == INSTANCE Yapp
T == INSTANCE Transmitter
F == INSTANCE Schedule

ASSUME StreamsAssumption == Decoders \subseteq S!AllDecoders /\ MaxUnits \in Nat
ASSUME ExpressionsAssumption == Expressions \subseteq Seq(Seq(F!CronParts))
ASSUME LimitsAssumption == MaxFrames \in Nat /\ MaxFailures \in Nat

\* The schedules of the run.
C == INSTANCE Cron
Examples == C!Examples

streams_vars == <<decoder, wire, buf, got, sent, cut>>
yapp_vars == <<size, board, sender, index, receiver, data, stored, counted, forth, back, damages, trouble>>
tx_vars == <<ptt, frames, tx, keyed, keying, link, failures, unreleased, outrun>>
sched_vars == <<schedule, enabled, now, loop, wake, todo, called, twice, spent, late>>
servicesVars == <<part, confVars, streams_vars, yapp_vars, tx_vars, sched_vars>>

Runs(p) == part = p /\ UNCHANGED part

ServicesInit ==
  /\ part \in Parts
  /\ Init /\ S!Init /\ Y!Init /\ T!Init /\ F!Init
  /\ part # "streams" => decoder = "host"
  /\ part # "yapp" => size = 0 /\ board = "sender" /\ trouble = {}
  /\ part # "transmitter" => ptt.kind = "rts"
  /\ part # "schedule" => enabled = {} /\ now = 0

ConferenceStep == Runs("conference") /\ Next /\ UNCHANGED <<streams_vars, yapp_vars, tx_vars, sched_vars>>
StreamsStep == Runs("streams") /\ S!Next /\ UNCHANGED <<confVars, yapp_vars, tx_vars, sched_vars>>
YappStep == Runs("yapp") /\ Y!Next /\ UNCHANGED <<confVars, streams_vars, tx_vars, sched_vars>>
TransmitterStep == Runs("transmitter") /\ T!Next /\ UNCHANGED <<confVars, streams_vars, yapp_vars, sched_vars>>
ScheduleStep == Runs("schedule") /\ F!Next /\ UNCHANGED <<confVars, streams_vars, yapp_vars, tx_vars>>
ServicesNext == ConferenceStep \/ StreamsStep \/ YappStep \/ TransmitterStep \/ ScheduleStep

ServicesSpec == ServicesInit /\ [][ServicesNext]_servicesVars

\* With Conference's fairness: where it does not run, none of its clients is there.
ServicesFairSpec == ServicesSpec /\ Fairness

-----------------------------------------------------------------------------
\* The type invariants.
ServicesTypeOK == TypeOK /\ S!TypeOK /\ Y!TypeOK /\ T!TypeOK /\ F!TypeOK

\* Conference: a room's list tells who is in it, and events go to the browsers
\* that are there (run_session, enter_room, handle_ws).
ListsTellWhoIsThere == MembersArePresent /\ ListedAreOpen

\* Streams: readline hands on the lines that were typed, the frame decoders
\* the frames that were sent, however reads cut the stream.
ReadAsSent == S!LinesAsTyped /\ S!FramesAsSent

\* Yapp: a file is stored whole, success is reported only of one that was, and
\* both ends tell the same of the transfer, but for what the history names
\* (send_file, receive_file, _cmd_yapp_get, _cmd_yapp_upload).
StoredWholeAndAgreed == Y!StoredIsWhole /\ Y!SuccessIsStored /\ Y!BothAgree

\* Yapp: while nothing disturbs a transfer, no end waits for what never comes.
TransferMoves == Y!SomethingOnTheWay

\* Transmitter: it is keyed while a frame is sent and at no other time, unless a
\* release fails or the thread that keys outlives the link (_tx_loop, close).
TransmitterReleased == T!TransmitterReleased

\* Schedule: an enabled neighbour is called in every minute its schedule names,
\* once, and in no other, unless a session is on or the loop is late (run_once).
CalledWhenDue == F!CalledWhenDue
=============================================================================
