---------------------------- MODULE ReliableLink ----------------------------
(***************************************************************************)
(* What a connected AX.25 link promises the two sessions that use it: each *)
(* end reads what the other end sent, from the first chunk on, in order,   *)
(* once.  The promise lasts while the link is up; it comes up with nothing *)
(* read, and when it goes down nothing is said of what was on the way.     *)
(***************************************************************************)
EXTENDS Integers, Sequences

CONSTANT Station

VARIABLES
  up,     \* both ends agree that they are connected to each other
  sent,   \* sent[s]: what s has handed to the link since it came up
  got     \* got[s]: what s has read from the link since it came up

vars == <<up, sent, got>>

Other(s) == CHOOSE p \in Station : p # s

Nothing == [s \in Station |-> <<>>]

Init == up = FALSE /\ sent = Nothing /\ got = Nothing

\* The end that answered may have sent before the end that called is up.
Open ==
  /\ ~up /\ up'
  /\ sent' \in [Station -> Seq(Nat)]
  /\ got' = Nothing

Close == up /\ ~up' /\ sent' = Nothing /\ got' = Nothing

\* One end reads the next chunk, or sends some, or both.
Transfer(s) ==
  /\ up /\ up'
  /\ \A p \in Station \ {s} : sent'[p] = sent[p] /\ got'[p] = got[p]
  /\ Len(sent'[s]) >= Len(sent[s])
  /\ SubSeq(sent'[s], 1, Len(sent[s])) = sent[s]
  /\ \/ got'[s] = got[s]
     \/ /\ Len(got[s]) < Len(sent[Other(s)])
        /\ got'[s] = Append(got[s], sent[Other(s)][Len(got[s]) + 1])

Next == Open \/ Close \/ \E s \in Station : Transfer(s)

Spec == Init /\ [][Next]_vars
=============================================================================
