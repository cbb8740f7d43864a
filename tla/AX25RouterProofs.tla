-------------------------- MODULE AX25RouterProofs --------------------------
(***************************************************************************)
(* Theorems about AX25Router, for any number of calls, hang-ups, retries   *)
(* and any capacity of the path.                                           *)
(***************************************************************************)
EXTENDS AX25Router, TLAPS

\* The inductive invariant.  TablesAgree is what makes CancelledIsDown
\* inductive: the task cancelled is that of the connection just found down.
RouterInv ==
  TypeOK /\ TablesAgree /\ ServedWhileConnected /\ CancelledIsDown /\ EndedIsReleased

LEMMA PutType ==
  ASSUME NEW S, NEW q \in Seq(S), NEW f \in S
  PROVE  Put(q, f) \in Seq(S)
  BY DEF Put

LEMMA IdsFacts == None \notin Ids /\ Ids \subseteq Nat
  BY RouterAssumption DEF Ids, None

LEMMA InitInv == Init => RouterInv
  BY RouterAssumption
  DEF Init, RouterInv, TypeOK, TablesAgree, ServedWhileConnected, CancelledIsDown,
      EndedIsReleased, Ids, None, Link, Tasks

\* What the router does with a frame keeps the invariant.
LEMMA FrameKeepsInv ==
  ASSUME RouterInv, HandleFrame
  PROVE  RouterInv'
  <1>1. /\ table \in Ids \cup {None} /\ sessTask = table
        /\ link \in [Ids -> Link] /\ task \in [Ids -> Tasks]
    BY DEF RouterInv, TypeOK, TablesAgree
  <1>2. toBBS # <<>> => Tail(toBBS) \in Seq({"SABM", "UA", "DM", "DISC", "BYE"})
    BY DEF RouterInv, TypeOK
  <1>3. \A f \in {"UA", "DM", "DISC", "I"} : Put(toPeer, f) \in Seq({"UA", "DM", "DISC", "I"})
    BY PutType DEF RouterInv, TypeOK
  <1>4. CASE SabmAgain
    <2>1. link' \in [Ids -> Link]
      BY <1>1, <1>4, RouterAssumption DEF SabmAgain, Link, Resets
    <2>2. TypeOK'
      BY <1>2, <1>3, <1>4, <2>1 DEF SabmAgain, Received, Reply, station, RouterInv, TypeOK
    <2>3. table \in Ids /\ link[table].state = "CONNECTED"
      BY <1>1, <1>4 DEF SabmAgain, Resets
    <2>4. \A j \in Ids : link'[j].state = "CONNECTED" => link[j].state = "CONNECTED"
      BY <1>1, <1>4, <2>3 DEF SabmAgain
    <2> QED
      BY <1>1, <1>4, <2>2, <2>3, <2>4
      DEF SabmAgain, RouterInv, TablesAgree, ServedWhileConnected, CancelledIsDown,
          EndedIsReleased
  <1>5. CASE SabmNew
    <2> DEFINE i == made + 1
    <2>1. i \in Ids /\ i \in 0 .. MaxCalls
      BY <1>5, RouterAssumption DEF SabmNew, RouterInv, TypeOK, Ids
    <2>2. link' \in [Ids -> Link] /\ task' \in [Ids -> Tasks]
      BY <1>1, <1>5, <2>1, RouterAssumption DEF SabmNew, Link, Tasks
    <2>3. TypeOK'
      BY <1>2, <1>3, <1>5, <2>1, <2>2
      DEF SabmNew, Received, Reply, station, RouterInv, TypeOK
    <2>4. table' = i /\ sessTask' = i /\ task'[i] = "running"
      BY <1>5, <2>1 DEF SabmNew
    <2>5. \A j \in Ids : j # i => link'[j] = link[j]
      BY <1>1, <1>5, <2>1 DEF SabmNew
    <2>6. \A j \in Ids :
            j # i => task'[j] = task[j] \/ (j = table /\ task'[j] = "cancelled")
      BY <1>1, <1>5, <2>1 DEF SabmNew
    <2>7. table \in Ids => link[table].state # "CONNECTED"
      BY <1>1, <1>5, IdsFacts DEF SabmNew, Resets
    <2> HIDE DEF i
    <2>8. CancelledIsDown' /\ EndedIsReleased'
      BY <2>4, <2>5, <2>6, <2>7 DEF RouterInv, CancelledIsDown, EndedIsReleased
    <2> QED
      BY <2>3, <2>4, <2>8 DEF RouterInv, TablesAgree, ServedWhileConnected
  <1>6. CASE NotListed
    BY <1>2, <1>3, <1>6
    DEF NotListed, Reply, bbs, station, RouterInv, TypeOK, TablesAgree,
        ServedWhileConnected, CancelledIsDown, EndedIsReleased
  <1>7. CASE Disc \/ Dm \/ Ua
    <2>1. Down(table) \/ UNCHANGED link  BY <1>7 DEF Disc, Dm, Ua
    <2>2. table \in Ids  BY <1>1, <1>7 DEF Disc, Dm, Ua
    <2>3. link' \in [Ids -> Link]  BY <1>1, <2>1, <2>2 DEF Down, Link
    <2>4. \A j \in Ids : link'[j].state = "CONNECTED" => link[j].state = "CONNECTED"
      BY <1>1, <2>1, <2>2 DEF Down, Link
    <2>5. /\ UNCHANGED <<table, sessTask, made, task, bye, peer, calls, hangups>>
          /\ toBBS # <<>> /\ toBBS' = Tail(toBBS)
          /\ toPeer' = toPeer \/ toPeer' = Put(toPeer, "UA")
      BY <1>7 DEF Disc, Dm, Ua, Received, Reply, Quiet, station
    <2>6. TypeOK'  BY <1>2, <1>3, <2>3, <2>5 DEF RouterInv, TypeOK
    <2> QED
      BY <2>2, <2>4, <2>5, <2>6
      DEF RouterInv, TablesAgree, ServedWhileConnected, CancelledIsDown, EndedIsReleased
  <1>8. CASE Line
    <2>1. bye' \in [Ids -> BOOLEAN]
      BY <1>1, <1>8 DEF Line, RouterInv, TypeOK
    <2>2. /\ UNCHANGED <<table, sessTask, made, link, task, peer, calls, hangups>>
          /\ toBBS # <<>> /\ toBBS' = Tail(toBBS)
          /\ toPeer' = toPeer \/ toPeer' = Put(toPeer, "DM")
      BY <1>8 DEF Line, Received, Reply, Quiet, station
    <2> QED
      BY <1>2, <1>3, <2>1, <2>2
      DEF RouterInv, TypeOK, TablesAgree, ServedWhileConnected, CancelledIsDown,
          EndedIsReleased
  <1> QED  BY <1>4, <1>5, <1>6, <1>7, <1>8 DEF HandleFrame

\* What session tasks, their callbacks and the timers do keeps the invariant.
LEMMA TaskKeepsInv ==
  ASSUME RouterInv, NEW i \in Ids, Session(i) \/ Timer(i)
  PROVE  RouterInv'
  <1>1. /\ table \in Ids \cup {None} /\ sessTask = table
        /\ link \in [Ids -> Link] /\ task \in [Ids -> Tasks] /\ bye \in [Ids -> BOOLEAN]
    BY DEF RouterInv, TypeOK, TablesAgree
  <1>2. \A f \in {"UA", "DM", "DISC", "I"} : Put(toPeer, f) \in Seq({"UA", "DM", "DISC", "I"})
    BY PutType DEF RouterInv, TypeOK
  <1>3. /\ link' \in [Ids -> Link] /\ toPeer' \in Seq({"UA", "DM", "DISC", "I"})
        /\ \A j \in Ids : link'[j].state = "CONNECTED" => link[j].state = "CONNECTED"
    <2>1. toPeer' = toPeer \/ toPeer' = Put(toPeer, "DISC") \/ toPeer' = Put(toPeer, "I")
      BY DEF Session, Finish, Cancelled, Release, Cleanup, Timer, Transmit, T1Release,
             LinkFailure
    <2>2. toPeer' \in Seq({"UA", "DM", "DISC", "I"})
      BY <1>2, <2>1 DEF RouterInv, TypeOK
    <2>3. \/ UNCHANGED link
          \/ link' = [link EXCEPT ![i].state = "AWAITING_RELEASE"]
          \/ link' = [link EXCEPT ![i].state = "DISCONNECTED"]
          \/ /\ link[i].state = "AWAITING_RELEASE" /\ link[i].retry < MaxRetries
             /\ link' = [link EXCEPT ![i].retry = link[i].retry + 1]
      BY <1>1
      DEF Session, Finish, Cancelled, Release, Cleanup, Timer, Transmit, T1Release,
          LinkFailure, Down, bbs
    <2>4. link' \in [Ids -> Link]
      BY <1>1, <2>3, RouterAssumption DEF Link
    <2>5. \A j \in Ids : link'[j].state = "CONNECTED" => link[j].state = "CONNECTED"
      BY <1>1, <2>3 DEF Link
    <2> QED  BY <2>2, <2>4, <2>5
  <1>4. CASE Finish(i) \/ Cancelled(i)
    <2>1. /\ task' = [task EXCEPT ![i] = "done"]
          /\ UNCHANGED <<table, sessTask, made, peer, calls, hangups, toBBS>>
          /\ bye' \in [Ids -> BOOLEAN]
      BY <1>1, <1>4 DEF Finish, Cancelled, station
    <2>2. link'[i].state # "CONNECTED"
      BY <1>1, <1>4 DEF Finish, Cancelled, Release, Link
    <2>3. task' \in [Ids -> Tasks]  BY <1>1, <2>1 DEF Tasks
    <2>4. TypeOK'  BY <1>3, <2>1, <2>3 DEF RouterInv, TypeOK
    <2>5. CancelledIsDown' /\ EndedIsReleased'
      BY <1>1, <1>3, <2>1, <2>2 DEF RouterInv, CancelledIsDown, EndedIsReleased
    <2>6. ServedWhileConnected' /\ TablesAgree'
      BY <1>1, <1>3, <2>1, <2>2 DEF RouterInv, ServedWhileConnected, TablesAgree
    <2> QED  BY <2>4, <2>5, <2>6 DEF RouterInv
  <1>5. CASE Cleanup(i)
    <2>1. /\ task' = [task EXCEPT ![i] = "reaped"] /\ task[i] = "done"
          /\ table' = None /\ sessTask' = None
          /\ UNCHANGED <<made, bye, peer, calls, hangups, toBBS>>
      BY <1>5 DEF Cleanup, station
    <2>2. task' \in [Ids -> Tasks]  BY <1>1, <2>1 DEF Tasks
    <2> QED
      BY <1>1, <1>3, <2>1, <2>2
      DEF RouterInv, TypeOK, TablesAgree, ServedWhileConnected, CancelledIsDown,
          EndedIsReleased
  <1>6. CASE Timer(i)
    <2>1. UNCHANGED <<table, sessTask, made, task, bye, peer, calls, hangups, toBBS>>
      BY <1>6 DEF Timer, Transmit, T1Release, LinkFailure, bbs, station
    <2> QED
      BY <1>1, <1>3, <2>1
      DEF RouterInv, TypeOK, TablesAgree, ServedWhileConnected, CancelledIsDown,
          EndedIsReleased
  <1> QED  BY <1>4, <1>5, <1>6 DEF Session

\* The station and the path do not touch the router's state.
LEMMA OutsideKeepsInv ==
  ASSUME RouterInv, Station \/ LosePeerBound \/ LoseBBSBound
  PROVE  RouterInv'
  <1> DEFINE B == {"SABM", "UA", "DM", "DISC", "BYE"}
             P == {"UA", "DM", "DISC", "I"}
  <1>1. UNCHANGED bbs
    BY DEF Station, Call, SayBye, HangUp, Vanish, Hears, Says, LosePeerBound, LoseBBSBound
  <1>2. toBBS \in Seq(B) /\ toPeer \in Seq(P)  BY DEF RouterInv, TypeOK
  <1>3. \A f \in B : Put(toBBS, f) \in Seq(B)  BY <1>2, PutType
  <1>4. toPeer # <<>> => Tail(toPeer) \in Seq(P)  BY <1>2
  <1>5. toBBS # <<>> => Tail(toBBS) \in Seq(B)  BY <1>2
  <1>6. toPeer' \in Seq(P)
    BY <1>2, <1>4
    DEF Station, Call, SayBye, HangUp, Vanish, Hears, Says, LosePeerBound, LoseBBSBound
  <1>7. toBBS' \in Seq(B)
    BY <1>2, <1>3, <1>5
    DEF Station, Call, SayBye, HangUp, Vanish, Hears, Says, LosePeerBound, LoseBBSBound
  <1>8. /\ peer' \in {"down", "calling", "up", "releasing"}
        /\ calls' \in 0 .. MaxCalls /\ hangups' \in 0 .. MaxHangups
    BY RouterAssumption
    DEF Station, Call, SayBye, HangUp, Vanish, Hears, LosePeerBound, LoseBBSBound,
        station, RouterInv, TypeOK
  <1>9. TypeOK'  BY <1>1, <1>6, <1>7, <1>8 DEF bbs, RouterInv, TypeOK
  <1> QED
    BY <1>1, <1>9
    DEF bbs, RouterInv, TablesAgree, ServedWhileConnected, CancelledIsDown, EndedIsReleased

LEMMA StepKeepsInv == RouterInv /\ [Next]_vars => RouterInv'
  <1> SUFFICES ASSUME RouterInv, [Next]_vars PROVE RouterInv'  OBVIOUS
  <1>1. CASE UNCHANGED vars
    BY <1>1
    DEF vars, RouterInv, TypeOK, TablesAgree, ServedWhileConnected, CancelledIsDown,
        EndedIsReleased
  <1> QED  BY <1>1, FrameKeepsInv, TaskKeepsInv, OutsideKeepsInv DEF Next

\* The inductive invariant holds in every state of every behaviour.
THEOREM Invariance == Spec => []RouterInv
  <1> QED  BY InitInv, StepKeepsInv, PTL DEF Spec

\* The tables list only connections that were made, and the path only carries
\* frames the two ends send.
THEOREM TypeCorrect == Spec => []TypeOK
  <1>1. RouterInv => TypeOK  BY DEF RouterInv
  <1> QED  BY <1>1, Invariance, PTL

\* A connection the router lists as up has a running session, and it is the
\* session whose task is listed.
THEOREM Served == Spec => []ServedWhileConnected
  <1>1. RouterInv => ServedWhileConnected  BY DEF RouterInv
  <1> QED  BY <1>1, Invariance, PTL

\* The session a new call replaces has no link left to hang up.
THEOREM CancelledDown == Spec => []CancelledIsDown
  <1>1. RouterInv => CancelledIsDown  BY DEF RouterInv
  <1> QED  BY <1>1, Invariance, PTL

\* No session ends with its link left up, by whichever way it ends.
THEOREM EndedReleased == Spec => []EndedIsReleased
  <1>1. RouterInv => EndedIsReleased  BY DEF RouterInv
  <1> QED  BY <1>1, Invariance, PTL
=============================================================================
