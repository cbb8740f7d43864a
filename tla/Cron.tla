--------------------------------- MODULE Cron ---------------------------------
(***************************************************************************)
(* One field of a schedule (forward/cron.py): "*" or a list of parts, each *)
(* */n, n-m, n or a text that int() refuses.                               *)
(***************************************************************************)
EXTENDS Integers, Sequences

Part(kind, a, b) == [kind |-> kind, a |-> a, b |-> b]
Any == <<Part("any", 0, 0)>>
StepOf(n) == Part("step", n, 0)
RangeOf(a, b) == Part("range", a, b)
Just(n) == Part("exact", n, n)
Bad == Part("bad", 0, 0)

\* A part as it is read: a list has numbers where the text has digits.
CronParts ==
  {p \in [kind : {"any", "step", "range", "exact", "bad"}, a : Int, b : Int] :
     (p.kind = "exact" => p.a = p.b) /\ (p.kind = "bad" => p = Bad)}

\* One expression for each way of a field, one that int() refuses in its hour and one
\* with too few fields.
Examples ==
  {<<<<StepOf(2)>>, Any, Any>>, <<Any, <<RangeOf(0, 1)>>, Any>>,
   <<<<Just(0), Just(1)>>, <<Just(1)>>, Any>>, <<Any, Any, <<StepOf(2)>>>>,
   <<<<Just(1)>>, <<Bad>>, Any>>, <<Any>>}

\* A faulty variant: the end of a range is left out.
Verdict_Exclusive(part, v, lo) ==
  CASE part.kind = "any"   -> "yes"
    [] part.kind = "step"  -> IF part.a > 0 /\ (v - lo) % part.a = 0 THEN "yes" ELSE "no"
    [] part.kind = "range" -> IF part.a <= v /\ v < part.b THEN "yes" ELSE "no"
    [] part.kind = "exact" -> IF part.a = v THEN "yes" ELSE "no"
    [] part.kind = "bad"   -> "error"

Verdict(part, v, lo) ==
  CASE part.kind = "any"   -> "yes"
    [] part.kind = "step"  -> IF part.a > 0 /\ (v - lo) % part.a = 0 THEN "yes" ELSE "no"
    [] part.kind = "range" -> IF part.a <= v /\ v <= part.b THEN "yes" ELSE "no"
    [] part.kind = "exact" -> IF part.a = v THEN "yes" ELSE "no"
    [] part.kind = "bad"   -> "error"

MinSet(S) == CHOOSE x \in S : \A y \in S : x <= y

\* The first verdict of a sequence that is not the one passed over.
Decides(verdicts, over) ==
  LET open == {i \in DOMAIN verdicts : verdicts[i] # over}
  IN IF open = {} THEN over ELSE verdicts[MinSet(open)]

\* _field: parts are tried until one matches.
Field(spec, v, lo) == Decides([i \in DOMAIN spec |-> Verdict(spec[i], v, lo)], "no")

-----------------------------------------------------------------------------
\* What an expression says, from the grammar at the head of cron.py; a step is
\* taken from the first value of its field.
Meant(spec, v, lo) ==
  \E i \in DOMAIN spec : \/ spec[i].kind = "any"
                         \/ spec[i].kind = "step" /\ \E k \in 0 .. v : v = lo + k * spec[i].a
                         \/ spec[i].kind \in {"range", "exact"} /\ v \in spec[i].a .. spec[i].b
Sound(part) == part # Bad /\ (part.kind = "step" => part.a > 0)
=============================================================================
