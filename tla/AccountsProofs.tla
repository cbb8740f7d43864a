---------------------------- MODULE AccountsProofs ----------------------------
(***************************************************************************)
(* Theorems about Accounts, for any callsigns, passwords, connections and  *)
(* tokens, and any number of changes and of writes that fail.              *)
(***************************************************************************)
EXTENDS Accounts, TLAPS

\* A row r of callsign c that is stored, or that somebody holds and will write back;
\* g are the callsigns made sysops, w those whose row may be without a password.
RowSound(c, r, g, w) ==
  /\ c \in Calls /\ r \in Row
  /\ r.priv = "sysop" => c \in g
  /\ r.pw # "" \/ c \in w

\* A session r: the copy of its user's row from the moment it has read it, and the
\* row that its dialogue has in hand.  Only a sysop is in a dialogue on a row.
SessionSound(r, g, w) ==
  /\ r \in Session
  /\ r.at = "call" => r.tries < 3
  /\ r.at = "record" => r.call \in Calls
  /\ IF r.at \in {"upsert", "cmd", "edit", "wpedit"} THEN RowSound(r.call, r.user, g, w)
                                                     ELSE r.user.priv # "sysop"
  /\ IF r.at = "edit" THEN RowSound(r.target, r.hand, g, w) /\ r.call \in g
                      ELSE r.hand.priv # "sysop"
  /\ r.at = "wpedit" => r.target \in Calls

\* A token.
WebSound(w, g) ==
  /\ w \in [call : Calls, priv : Privileges, left : -1 .. Ttl]
  /\ w.priv = "sysop" => w.call \in g

\* On an open node anybody; on one that requires passwords, whoever has logged in
\* while the row was being deleted.
Excused == IF required THEN raced ELSE Calls

UsersSound == \A c \in Registered : RowSound(c, users[c], granted, Excused)

TermSound ==
  /\ term \in [Terminals -> Session]
  /\ \A s \in Terminals : SessionSound(term[s], granted, Excused)

ReqSound ==
  /\ req \in [call : Calls \cup {""}, row : Row]
  /\ IF req = NoRequest THEN req.row.priv # "sysop"
                        ELSE RowSound(req.call, req.row, granted, Excused)

TokensSound ==
  /\ DOMAIN web \subseteq Tokens /\ out \subseteq Tokens
  /\ \A t \in DOMAIN web : WebSound(web[t], granted)

PagesSound == DOMAIN wp \subseteq Calls /\ \A c \in DOMAIN wp : wp[c] \in Names \cup {0}

RestSound ==
  /\ required \in BOOLEAN
  /\ changes \in 0 .. MaxChanges /\ faults \in 0 .. MaxFaults
  /\ granted \subseteq Calls /\ raced \subseteq Calls /\ differs \subseteq Terminals

AccountsInv ==
  /\ UsersSound /\ TermSound /\ ReqSound /\ TokensSound /\ PagesSound /\ RestSound
  /\ SavedUnlessOvertaken

-----------------------------------------------------------------------------
(***************************************************************************)
(* What the invariant says of the properties, and the model's operators.   *)
(***************************************************************************)
LEMMA RowFacts ==
  /\ NoRow \in Row /\ NoRow.priv = "" /\ NoRow.pw = ""
  /\ \A p \in Privileges, w \in Passwords \cup {""} :
       NewRow(p, w) \in Row /\ NewRow(p, w).priv = p /\ NewRow(p, w).pw = w
  BY DEF NoRow, NewRow, Row, Privileges

LEMMA RowFields ==
  ASSUME NEW r \in Row
  PROVE  /\ r.priv \in Privileges /\ r.pw \in Passwords \cup {""}
         /\ r.name \in Names \cup {0} /\ r.rest \in Names \cup {0}
  BY Zenon DEF Row

\* A row with other columns, as one term.
Renamed(r, v, p) == [r EXCEPT !.name = v, !.priv = p]
WithPassword(r, p) == [r EXCEPT !.pw = p]

\* One column of a row is set.
LEMMA RowSet ==
  ASSUME NEW r \in Row
  PROVE  /\ \A v \in Names \cup {0} :
              LET q == [r EXCEPT !.name = v]
              IN q \in Row /\ q.priv = r.priv /\ q.pw = r.pw
         /\ \A v \in Names \cup {0} :
              LET q == [r EXCEPT !.rest = v]
              IN q \in Row /\ q.priv = r.priv /\ q.pw = r.pw
         /\ \A v \in Passwords \cup {""} :
              LET q == [r EXCEPT !.pw = v]
              IN q \in Row /\ q.priv = r.priv /\ q.pw = v
         /\ \A v \in Privileges :
              LET q == [r EXCEPT !.priv = v]
              IN q \in Row /\ q.priv = v /\ q.pw = r.pw
  BY DEF Row

LEMMA RowEdit ==
  ASSUME NEW r \in Row, NEW v \in Names \cup {0}, NEW p \in Privileges
  PROVE  /\ Renamed(r, v, p) \in Row
         /\ Renamed(r, v, p).priv = p /\ Renamed(r, v, p).pw = r.pw
  BY DEF Row, Renamed

LEMMA RowPassword ==
  ASSUME NEW r \in Row, NEW p \in Passwords \cup {""}
  PROVE  /\ WithPassword(r, p) \in Row
         /\ WithPassword(r, p).priv = r.priv /\ WithPassword(r, p).pw = p
  BY DEF Row, WithPassword

\* The fields of a session, and what becomes of the others when one has moved.
LEMMA SessionFields ==
  ASSUME NEW r \in Session
  PROVE  /\ r.at \in {"call", "record", "upsert", "cmd", "edit", "wpedit", "gone"}
         /\ r.tries \in 0 .. 3 /\ r.call \in Calls \cup {""} /\ r.user \in Row
         /\ r.target \in Calls \cup {""} /\ r.hand \in Row
  BY Zenon DEF Session

LEMMA ConnectedFacts ==
  /\ Connected \in Session
  /\ Connected.at = "call" /\ Connected.tries = 0 /\ Connected.call = ""
  /\ Connected.user = NoRow /\ Connected.hand = NoRow /\ Connected.target = ""
  <1>1. "call" \in {"call", "record", "upsert", "cmd", "edit", "wpedit", "gone"}
        /\ 0 \in 0 .. 3 /\ "" \in Calls \cup {""}
    OBVIOUS
  <1>2. Connected \in Session
    BY <1>1, RowFacts, Zenon DEF Connected, Session
  <1> QED  BY <1>2 DEF Connected

LEMMA BecomesFacts ==
  ASSUME TermSound, NEW s \in Terminals, NEW r, Becomes(s, r)
  PROVE  /\ term'[s] = r
         /\ \A x \in Terminals : x # s => term'[x] = term[x]
         /\ r \in Session => term' \in [Terminals -> Session]
  BY DEF TermSound, Becomes

\* Those whose copy of the row of c another writer overtakes.
Overtaken(c, s) == {x \in Terminals \ {s} : LoggedIn(x) /\ term[x].call = c}

\* upsert_user changes one row.
LEMMA UpsertFacts ==
  ASSUME NEW c, NEW r, NEW s, upsert_user(c, r, s)
  PROVE  /\ DOMAIN users' = DOMAIN users \cup {c}
         /\ users'[c] = r
         /\ \A x \in DOMAIN users : x # c => users'[x] = users[x]
         /\ differs' = (differs \ {s}) \cup Overtaken(c, s)
  BY DEF upsert_user, With, Overtaken

\* What was sound stays so when more callsigns are sysops, or are excused.
LEMMA SoundGrows ==
  ASSUME NEW g, NEW w, NEW h, NEW v, g \subseteq h, w \subseteq v
  PROVE  /\ \A c, r : RowSound(c, r, g, w) => RowSound(c, r, h, v)
         /\ \A r : SessionSound(r, g, w) => SessionSound(r, h, v)
         /\ \A t : WebSound(t, g) => WebSound(t, h)
  <1>1. \A c, r : RowSound(c, r, g, w) => RowSound(c, r, h, v)
    BY DEF RowSound
  <1>2. \A r : SessionSound(r, g, w) => SessionSound(r, h, v)
    BY <1>1, Zenon DEF SessionSound
  <1>3. \A t : WebSound(t, g) => WebSound(t, h)
    BY DEF WebSound
  <1> QED  BY <1>1, <1>2, <1>3

LEMMA ExcusedGrows ==
  ASSUME required' = required, raced \subseteq raced'
  PROVE  Excused \subseteq Excused'
  BY DEF Excused

\* The invariant gives the type and the properties.
LEMMA InvImplies ==
  ASSUME AccountsInv
  PROVE  TypeOK /\ PrivilegeWasGranted /\ EveryAccountHasPassword
  <1>1. UsersSound /\ TermSound /\ ReqSound /\ TokensSound /\ PagesSound /\ RestSound
    BY DEF AccountsInv
  <1>2. TypeOK
    <2>1. Registered \subseteq Calls /\ \A c \in Registered : users[c] \in Row
      BY <1>1 DEF UsersSound, RowSound
    <2>2. term \in [Terminals -> Session]
          /\ \A s \in Terminals : term[s].at = "call" => term[s].tries < 3
      BY <1>1 DEF TermSound, SessionSound
    <2>3. \A t \in DOMAIN web :
            web[t] \in [call : Calls, priv : Privileges, left : -1 .. Ttl]
      BY <1>1, Zenon DEF TokensSound, WebSound
    <2> QED
      BY <1>1, <2>1, <2>2, <2>3 DEF TypeOK, ReqSound, TokensSound, PagesSound, RestSound
  <1>3. PrivilegeWasGranted
    <2>1. \A c \in Registered : users[c].priv = "sysop" => c \in granted
      BY <1>1 DEF UsersSound, RowSound
    <2>2. \A s \in Terminals :
            /\ term[s].user.priv = "sysop" => term[s].call \in granted
            /\ term[s].hand.priv = "sysop" => term[s].target \in granted
      BY <1>1, Zenon DEF TermSound, SessionSound, RowSound
    <2>3. \A t \in DOMAIN web : web[t].priv = "sysop" => web[t].call \in granted
      BY <1>1 DEF TokensSound, WebSound
    <2> QED  BY <2>1, <2>2, <2>3 DEF PrivilegeWasGranted
  <1>4. EveryAccountHasPassword
    BY <1>1 DEF UsersSound, RowSound, Excused, EveryAccountHasPassword
  <1> QED  BY <1>2, <1>3, <1>4

LEMMA InitInv == Init => AccountsInv
  <1> SUFFICES ASSUME Init PROVE AccountsInv  OBVIOUS
  <1>1. \A s \in Terminals : term[s] = Connected  BY DEF Init
  <1>2. UsersSound
    <2> SUFFICES ASSUME NEW c \in Known
                 PROVE  RowSound(c, users[c], granted, Excused)
      BY DEF UsersSound, Registered, Init
    <2>1. PICK p \in Privileges :
            users[c] = NewRow(p, First) /\ (p = "sysop" => c = Operator)
      BY DEF Init, Privileges
    <2>2. First \in Passwords \cup {""}  BY AccountsAssumption
    <2>3. users[c] \in Row /\ users[c].pw = First /\ users[c].priv = p
      <3>1. /\ NewRow(p, First) \in Row /\ NewRow(p, First).priv = p
            /\ NewRow(p, First).pw = First
        BY <2>2, RowFacts
      <3> QED  BY <2>1, <3>1
    <2> QED  BY <2>1, <2>3, AccountsAssumption DEF RowSound, Init
  <1>3. TermSound
    <2>1. SessionSound(Connected, granted, Excused)
      <3>1. /\ Connected \in Session /\ Connected.at = "call" /\ Connected.tries < 3
            /\ Connected.user.priv = "" /\ Connected.hand.priv = ""
        <4>1. Connected.tries < 3
          <5>1. Connected.tries = 0  BY ConnectedFacts
          <5> QED  BY <5>1
        <4> QED  BY <4>1, ConnectedFacts, RowFacts, Zenon
      <3> QED  BY <3>1, Zenon DEF SessionSound
    <2> QED  BY <1>1, <2>1, ConnectedFacts DEF TermSound, Init
  <1>4. ReqSound
    <2>1. req = NoRequest /\ req.row.priv = "" /\ req.row \in Row /\ req.call = ""
      BY RowFacts DEF Init, NoRequest
    <2>2. NoRequest \in [call : Calls \cup {""}, row : Row]
      BY RowFacts DEF NoRequest
    <2> QED  BY <2>1, <2>2 DEF ReqSound
  <1>5. TokensSound /\ PagesSound
    BY DEF TokensSound, PagesSound, Init
  <1>6. RestSound
    <2>1. MaxChanges \in Nat /\ MaxFaults \in Nat  BY AccountsAssumption
    <2>2. required \in BOOLEAN /\ granted \subseteq Calls
      BY AccountsAssumption DEF Init
    <2> QED  BY <2>1, <2>2 DEF RestSound, Init
  <1>7. SavedUnlessOvertaken
    BY <1>1, ConnectedFacts DEF SavedUnlessOvertaken, LoggedIn
  <1> QED  BY <1>2, <1>3, <1>4, <1>5, <1>6, <1>7 DEF AccountsInv

-----------------------------------------------------------------------------
(***************************************************************************)
(* Steps: what is not touched stays sound; a session moves; a row is       *)
(* written.                                                                *)
(***************************************************************************)
LEMMA Kept ==
  ASSUME AccountsInv, required' = required, granted \subseteq granted', raced \subseteq raced'
  PROVE  /\ UNCHANGED users => UsersSound'
         /\ UNCHANGED term => TermSound'
         /\ UNCHANGED req => ReqSound'
         /\ UNCHANGED <<web, out>> => TokensSound'
         /\ UNCHANGED wp => PagesSound'
  <1>1. Excused \subseteq Excused'  BY ExcusedGrows
  <1>2. /\ \A c, r : RowSound(c, r, granted, Excused) => RowSound(c, r, granted', Excused')
        /\ \A r : SessionSound(r, granted, Excused) => SessionSound(r, granted', Excused')
        /\ \A t : WebSound(t, granted) => WebSound(t, granted')
    BY <1>1, SoundGrows
  <1>3. UNCHANGED users => UsersSound'
    BY <1>2 DEF AccountsInv, UsersSound, Registered
  <1>4. UNCHANGED term => TermSound'
    BY <1>2 DEF AccountsInv, TermSound
  <1>5. UNCHANGED req => ReqSound'
    BY <1>2 DEF AccountsInv, ReqSound
  <1>6. UNCHANGED <<web, out>> => TokensSound'
    BY <1>2 DEF AccountsInv, TokensSound
  <1>7. UNCHANGED wp => PagesSound'
    BY DEF AccountsInv, PagesSound
  <1> QED  BY <1>3, <1>4, <1>5, <1>6, <1>7

LEMMA TermMoves ==
  ASSUME AccountsInv, NEW s \in Terminals, NEW r, Becomes(s, r),
         required' = required, granted \subseteq granted', raced \subseteq raced',
         SessionSound(r, granted', Excused')
  PROVE  TermSound'
  <1>1. Excused \subseteq Excused'  BY ExcusedGrows
  <1>2. \A x \in Terminals : SessionSound(term[x], granted', Excused')
    BY <1>1, SoundGrows DEF AccountsInv, TermSound
  <1>3. /\ term'[s] = r
        /\ \A x \in Terminals : x # s => term'[x] = term[x]
        /\ r \in Session => term' \in [Terminals -> Session]
    BY BecomesFacts DEF AccountsInv
  <1>4. r \in Session  BY DEF SessionSound
  <1>5. \A x \in Terminals : SessionSound(term'[x], granted', Excused')
    BY <1>2, <1>3
  <1> QED  BY <1>3, <1>4, <1>5 DEF TermSound

\* The table stays, and a session that goes on being logged in keeps its copy.
LEMMA SavedKept ==
  ASSUME AccountsInv, users' = users, differs \subseteq differs',
         \A x \in Terminals : LoggedIn(x)' /\ x \notin differs' =>
           LoggedIn(x) /\ term'[x].call = term[x].call /\ term'[x].user = term[x].user
  PROVE  SavedUnlessOvertaken'
  BY DEF AccountsInv, SavedUnlessOvertaken, Registered

\* The row of c becomes q, written by session w or, if w is none, by another.
LEMMA Written ==
  ASSUME AccountsInv, NEW c, NEW q, NEW w, upsert_user(c, q, w),
         required' = required, granted \subseteq granted', raced \subseteq raced',
         RowSound(c, q, granted', Excused'),
         \A x \in Terminals \ {w} : LoggedIn(x)' =>
           LoggedIn(x) /\ term'[x].call = term[x].call /\ term'[x].user = term[x].user,
         w \in Terminals => term'[w].call = c /\ term'[w].user = q
  PROVE  UsersSound' /\ SavedUnlessOvertaken' /\ differs' \subseteq Terminals
  <1>1. /\ DOMAIN users' = DOMAIN users \cup {c}
        /\ users'[c] = q
        /\ \A x \in DOMAIN users : x # c => users'[x] = users[x]
        /\ differs' = (differs \ {w}) \cup Overtaken(c, w)
    BY UpsertFacts
  <1>2. UsersSound'
    <2>1. Excused \subseteq Excused'  BY ExcusedGrows
    <2>2. \A x \in DOMAIN users : RowSound(x, users[x], granted', Excused')
      BY <2>1, SoundGrows DEF AccountsInv, UsersSound, Registered
    <2> QED  BY <1>1, <2>2 DEF UsersSound, Registered
  <1>3. SavedUnlessOvertaken'
    <2> SUFFICES ASSUME NEW x \in Terminals, x \notin differs', LoggedIn(x)'
                 PROVE  term'[x].call \in DOMAIN users' /\ users'[term'[x].call] = term'[x].user
      BY DEF SavedUnlessOvertaken, Registered
    <2>1. CASE x = w  BY <1>1, <2>1
    <2>2. CASE x # w
      <3>1. /\ LoggedIn(x) /\ x \notin differs
            /\ term'[x].call = term[x].call /\ term'[x].user = term[x].user
        BY <1>1, <2>2
      <3>2. term[x].call # c  BY <1>1, <2>2, <3>1 DEF Overtaken
      <3>3. term[x].call \in DOMAIN users /\ users[term[x].call] = term[x].user
        BY <3>1 DEF AccountsInv, SavedUnlessOvertaken, Registered
      <3> QED  BY <1>1, <3>1, <3>2, <3>3
    <2> QED  BY <2>1, <2>2
  <1>4. differs' \subseteq Terminals  BY <1>1 DEF AccountsInv, RestSound, Overtaken
  <1> QED  BY <1>2, <1>3, <1>4

-----------------------------------------------------------------------------
(***************************************************************************)
(* Logging in and leaving.                                                 *)
(***************************************************************************)

\* A session that has no row: before its login, or gone.
LEMMA FreshSound ==
  ASSUME NEW n \in 0 .. 3, NEW a \in {"call", "record", "gone"}, NEW c \in Calls, NEW g, NEW w
  PROVE  /\ a = "gone" \/ (a = "call" /\ n < 3) =>
              SessionSound([Connected EXCEPT !.tries = n, !.at = a], g, w)
         /\ SessionSound([Connected EXCEPT !.at = "record", !.call = c], g, w)
         /\ SessionSound([Connected EXCEPT !.at = "gone"], g, w)
         /\ [Connected EXCEPT !.tries = n, !.at = a].at = a
         /\ [Connected EXCEPT !.at = "record", !.call = c].at = "record"
         /\ [Connected EXCEPT !.at = "gone"].at = "gone"
  <1> DEFINE p == [Connected EXCEPT !.tries = n, !.at = a]
             q == [Connected EXCEPT !.at = "record", !.call = c]
             r == [Connected EXCEPT !.at = "gone"]
             Ats == {"call", "record", "upsert", "cmd", "edit", "wpedit", "gone"}
  <1>1. a \in Ats /\ "record" \in Ats /\ "gone" \in Ats  OBVIOUS
  <1>2. p \in Session  BY <1>1, ConnectedFacts, Zenon DEF Session
  <1>3. q \in Session  BY <1>1, ConnectedFacts, Zenon DEF Session
  <1>4. r \in Session  BY <1>1, ConnectedFacts, Zenon DEF Session
  <1>5. /\ p.at = a /\ p.tries = n /\ p.user.priv = "" /\ p.hand.priv = ""
        /\ q.at = "record" /\ q.call = c /\ q.user.priv = "" /\ q.hand.priv = ""
        /\ r.at = "gone" /\ r.user.priv = "" /\ r.hand.priv = ""
    BY RowFacts DEF Connected
  <1> HIDE DEF p, q, r
  <1>6. /\ a = "gone" \/ (a = "call" /\ n < 3) => SessionSound(p, g, w)
        /\ SessionSound(q, g, w) /\ SessionSound(r, g, w)
    BY <1>2, <1>3, <1>4, <1>5 DEF SessionSound
  <1> QED  BY <1>5, <1>6 DEF p, q, r

LEMMA AttemptInv ==
  ASSUME AccountsInv, NEW s \in Terminals, Attempt(s)
  PROVE  AccountsInv'
  <1>1. PICK r : Becomes(s, r) /\ SessionSound(r, granted, Excused)
                 /\ r.at \notin {"cmd", "edit", "wpedit"}
    <2>1. CASE Failed(s)
      <3> DEFINE n == term[s].tries + 1
                 a == IF n = 3 THEN "gone" ELSE "call"
      <3>1. term[s].tries \in 0 .. 3 /\ term[s].tries < 3
        BY SessionFields DEF AccountsInv, TermSound, SessionSound, Attempt
      <3>2. n \in 0 .. 3 /\ (n # 3 => n < 3)
        <4> SUFFICES ASSUME NEW m \in 0 .. 3, m < 3
                     PROVE  m + 1 \in 0 .. 3 /\ (m + 1 # 3 => m + 1 < 3)
          BY <3>1
        <4> QED  OBVIOUS
      <3>3. Becomes(s, [Connected EXCEPT !.tries = n, !.at = a])  BY <2>1 DEF Failed
      <3>4. a = "gone" \/ (a = "call" /\ n < 3)  BY <3>2
      <3>5. a \in {"call", "record", "gone"}  OBVIOUS
      <3>6. Operator \in Calls  BY AccountsAssumption
      <3> HIDE DEF n, a
      <3> QED  BY <3>2, <3>3, <3>4, <3>5, <3>6, FreshSound
    <2>2. CASE ~Failed(s)
      <3>1. PICK c \in Calls : Becomes(s, [Connected EXCEPT !.at = "record", !.call = c])
        BY <2>2 DEF Attempt
      <3>2. 0 \in 0 .. 3  OBVIOUS
      <3> QED  BY <3>1, <3>2, FreshSound
    <2> QED  BY <2>1, <2>2
  <1>2. UNCHANGED <<required, users, wp, web, req, out, granted, differs, raced, changes, faults>>
    BY DEF Attempt, web_vars
  <1>3. UsersSound' /\ ReqSound' /\ TokensSound' /\ PagesSound'
    BY <1>2, Kept
  <1>4. Excused' = Excused  BY <1>2 DEF Excused
  <1>5. TermSound'  BY <1>1, <1>2, <1>4, TermMoves
  <1>6. RestSound'  BY <1>2 DEF AccountsInv, RestSound
  <1>7. SavedUnlessOvertaken'
    <2>1. term'[s] = r /\ \A x \in Terminals : x # s => term'[x] = term[x]
      BY <1>1, BecomesFacts DEF AccountsInv
    <2> QED  BY <1>1, <1>2, <2>1, SavedKept DEF LoggedIn
  <1> QED  BY <1>3, <1>5, <1>6, <1>7 DEF AccountsInv

LEMMA LeaveInv ==
  ASSUME AccountsInv, NEW s \in Terminals, Leave(s)
  PROVE  AccountsInv'
  <1> DEFINE r == [Connected EXCEPT !.at = "gone"]
  <1>1. Becomes(s, r) /\ SessionSound(r, granted, Excused) /\ r.at = "gone"
    <2>1. Becomes(s, r)  BY DEF Leave
    <2>2. 0 \in 0 .. 3  OBVIOUS
    <2>3. Operator \in Calls  BY AccountsAssumption
    <2>4. SessionSound(r, granted, Excused) /\ r.at = "gone"
      BY <2>2, <2>3, FreshSound
    <2> QED  BY <2>1, <2>4
  <1> HIDE DEF r
  <1>2. UNCHANGED <<required, users, wp, web, req, out, granted, raced, changes, faults>>
    BY DEF Leave, web_vars
  <1>3. UsersSound' /\ ReqSound' /\ TokensSound' /\ PagesSound'
    BY <1>2, Kept
  <1>4. Excused' = Excused  BY <1>2 DEF Excused
  <1>5. TermSound'  BY <1>1, <1>2, <1>4, TermMoves
  <1>6. RestSound'  BY <1>2 DEF AccountsInv, RestSound, Leave
  <1>7. SavedUnlessOvertaken'
    <2>1. term'[s] = r /\ \A x \in Terminals : x # s => term'[x] = term[x]
      BY <1>1, BecomesFacts DEF AccountsInv
    <2>2. differs' = differs \ {s}  BY DEF Leave
    <2> QED
      BY <1>1, <1>2, <2>1, <2>2
      DEF AccountsInv, SavedUnlessOvertaken, LoggedIn, Registered
  <1> QED  BY <1>3, <1>5, <1>6, <1>7 DEF AccountsInv

LEMMA LoginReadsInv ==
  ASSUME AccountsInv, NEW s \in Terminals, LoginReads(s)
  PROVE  AccountsInv'
  <1> DEFINE c == term[s].call
             u == IF c \in Registered THEN users[c] ELSE NewRow("user", "")
             r == [term[s] EXCEPT !.at = "upsert", !.user = u]
  <1>1. /\ Becomes(s, r) /\ raced' = raced \cup ({c} \ Registered)
        /\ UNCHANGED <<required, users, wp, web, req, out, granted, differs, changes, faults>>
    BY DEF LoginReads, web_vars
  <1>2. term[s] \in Session /\ c \in Calls /\ term[s].hand.priv # "sysop"
    BY DEF LoginReads, AccountsInv, TermSound, SessionSound
  <1>3. Excused \subseteq Excused'  BY <1>1, ExcusedGrows
  <1>4. RowSound(c, u, granted', Excused')
    <2>1. CASE c \in Registered
      BY <1>1, <1>3, <2>1, SoundGrows DEF AccountsInv, UsersSound
    <2>2. CASE c \notin Registered
      <3>1. "user" \in Privileges  BY DEF Privileges
      <3>2. u \in Row /\ u.priv = "user"  BY <2>2, <3>1, RowFacts
      <3>3. c \in Excused'  BY <1>1, <1>2, <2>2 DEF Excused
      <3> QED  BY <1>2, <3>2, <3>3 DEF RowSound
    <2> QED  BY <2>1, <2>2
  <1> HIDE DEF u
  <1>5. SessionSound(r, granted', Excused') /\ r.at = "upsert"
    <2>1. r.at = "upsert" /\ r.call = c /\ r.user = u /\ r.hand = term[s].hand
      BY <1>2 DEF Session
    <2>2. "upsert" \in {"call", "record", "upsert", "cmd", "edit", "wpedit", "gone"}
      OBVIOUS
    <2>3. r \in Session  BY <1>2, <1>4, <2>2, Zenon DEF Session, RowSound
    <2> HIDE DEF r
    <2> QED  BY <1>2, <1>4, <2>1, <2>3 DEF SessionSound
  <1> HIDE DEF r
  <1>6. UsersSound' /\ ReqSound' /\ TokensSound' /\ PagesSound'
    BY <1>1, Kept
  <1>7. TermSound'  BY <1>1, <1>5, TermMoves
  <1>8. RestSound'  BY <1>1, <1>2 DEF AccountsInv, RestSound
  <1>9. SavedUnlessOvertaken'
    <2>1. term'[s] = r /\ \A x \in Terminals : x # s => term'[x] = term[x]
      BY <1>1, BecomesFacts DEF AccountsInv
    <2> QED  BY <1>1, <1>5, <2>1, SavedKept DEF LoggedIn
  <1> QED  BY <1>6, <1>7, <1>8, <1>9 DEF AccountsInv

LEMMA LoginWritesInv ==
  ASSUME AccountsInv, NEW s \in Terminals, LoginWrites(s)
  PROVE  AccountsInv'
  <1> DEFINE c == term[s].call
             u == term[s].user
             r == [term[s] EXCEPT !.at = "cmd", !.user = u]
  <1>1. /\ Becomes(s, r) /\ upsert_user(c, u, s)
        /\ UNCHANGED <<required, wp, web, req, out, granted, raced, changes, faults>>
    BY DEF LoginWrites, web_vars, Recorded
  <1>2. term[s] \in Session /\ RowSound(c, u, granted, Excused) /\ term[s].hand.priv # "sysop"
    BY DEF LoginWrites, AccountsInv, TermSound, SessionSound
  <1>3. Excused' = Excused  BY <1>1 DEF Excused
  <1>4. SessionSound(r, granted, Excused) /\ r.call = c /\ r.user = u
    <2>1. r.at = "cmd" /\ r.call = c /\ r.user = u /\ r.hand = term[s].hand
      BY <1>2 DEF Session
    <2>2. "cmd" \in {"call", "record", "upsert", "cmd", "edit", "wpedit", "gone"}
      OBVIOUS
    <2>3. r \in Session  BY <1>2, <2>2, Zenon DEF Session, RowSound
    <2> HIDE DEF r
    <2> QED  BY <1>2, <2>1, <2>3 DEF SessionSound
  <1> HIDE DEF r
  <1>5. ReqSound' /\ TokensSound' /\ PagesSound'
    BY <1>1, Kept
  <1>6. TermSound'  BY <1>1, <1>3, <1>4, TermMoves
  <1>7. UsersSound' /\ SavedUnlessOvertaken' /\ differs' \subseteq Terminals
    <2>1. term'[s] = r /\ \A x \in Terminals : x # s => term'[x] = term[x]
      BY <1>1, BecomesFacts DEF AccountsInv
    <2>2. \A x \in Terminals \ {s} : LoggedIn(x)' =>
            LoggedIn(x) /\ term'[x].call = term[x].call /\ term'[x].user = term[x].user
      BY <2>1 DEF LoggedIn
    <2>3. term'[s].call = c /\ term'[s].user = u  BY <1>4, <2>1
    <2> HIDE DEF c, u
    <2> QED  BY <1>1, <1>2, <1>3, <2>2, <2>3, Written
  <1>8. RestSound'  BY <1>1, <1>7 DEF AccountsInv, RestSound
  <1> QED  BY <1>5, <1>6, <1>7, <1>8 DEF AccountsInv

-----------------------------------------------------------------------------
(***************************************************************************)
(* A user's commands.                                                      *)
(***************************************************************************)

\* The copy becomes q, and so does the row if the write does not fail.
LEMMA SavesInv ==
  ASSUME AccountsInv, NEW s \in Terminals, NEW q, term[s].at = "cmd", Saves(s, q),
         RowSound(term[s].call, q, granted, Excused), Changes, PagesSound',
         UNCHANGED <<required, web, req, out, granted, raced>>
  PROVE  AccountsInv'
  <1> DEFINE c == term[s].call
             r == [term[s] EXCEPT !.user = q]
  <1>1. Becomes(s, r)  BY DEF Saves
  <1>2. term[s] \in Session /\ term[s].hand.priv # "sysop"
    BY DEF AccountsInv, TermSound, SessionSound
  <1>3. Excused' = Excused  BY DEF Excused
  <1>4. SessionSound(r, granted, Excused) /\ r.at = "cmd" /\ r.call = c /\ r.user = q
    <2>1. r.at = "cmd" /\ r.call = c /\ r.user = q /\ r.hand = term[s].hand
      BY <1>2 DEF Session
    <2>2. r \in Session  BY <1>2, Zenon DEF Session, RowSound
    <2> HIDE DEF r
    <2> QED  BY <1>2, <2>1, <2>2 DEF SessionSound
  <1> HIDE DEF r
  <1>5. ReqSound' /\ TokensSound'
    BY Kept
  <1>6. TermSound'  BY <1>1, <1>3, <1>4, TermMoves
  <1>7. term'[s] = r /\ \A x \in Terminals : x # s => term'[x] = term[x]
    BY <1>1, BecomesFacts DEF AccountsInv
  <1>8. \A x \in Terminals \ {s} : LoggedIn(x)' =>
          LoggedIn(x) /\ term'[x].call = term[x].call /\ term'[x].user = term[x].user
    BY <1>7 DEF LoggedIn
  <1>9. /\ UsersSound' /\ SavedUnlessOvertaken' /\ differs' \subseteq Terminals
        /\ faults' \in 0 .. MaxFaults
    <2>1. CASE upsert_user(c, q, s) /\ UNCHANGED faults
      <3>1. term'[s].call = c /\ term'[s].user = q  BY <1>4, <1>7
      <3>2. faults' \in 0 .. MaxFaults  BY <2>1 DEF AccountsInv, RestSound
      <3> HIDE DEF c
      <3> QED  BY <1>3, <1>8, <2>1, <3>1, <3>2, Written DEF c
    <2>2. CASE /\ faults < MaxFaults /\ faults' = faults + 1
               /\ differs' = differs \cup {s} /\ UNCHANGED users
      <3>1. UsersSound'  BY <2>2, Kept
      <3>2. SavedUnlessOvertaken'
        BY <1>8, <2>2, SavedKept
      <3>3. differs' \subseteq Terminals  BY <2>2 DEF AccountsInv, RestSound
      <3>4. faults' \in 0 .. MaxFaults
        <4>1. faults \in 0 .. MaxFaults /\ MaxFaults \in Nat
          BY AccountsAssumption DEF AccountsInv, RestSound
        <4> QED  BY <2>2, <4>1
      <3> QED  BY <3>1, <3>2, <3>3, <3>4
    <2> QED  BY <2>1, <2>2 DEF Saves
  <1>10. RestSound'
    <2>1. changes' \in 0 .. MaxChanges
      <3>1. changes \in 0 .. MaxChanges /\ MaxChanges \in Nat
        BY AccountsAssumption DEF AccountsInv, RestSound
      <3> QED  BY <3>1 DEF Changes
    <2> QED  BY <1>9, <2>1 DEF AccountsInv, RestSound
  <1> QED  BY <1>5, <1>6, <1>9, <1>10 DEF AccountsInv

LEMMA PagesUpsert ==
  ASSUME AccountsInv, NEW c \in Calls, NEW v \in Names \cup {0}, wp' = upsert_wp_entry(c, v)
  PROVE  PagesSound'
  BY DEF AccountsInv, PagesSound, upsert_wp_entry, With

LEMMA CommandsInv ==
  ASSUME AccountsInv, NEW s \in Terminals,
         SetName(s) \/ SetProfile(s) \/ SetOption(s) \/ ChangePassword(s)
  PROVE  AccountsInv'
  <1> DEFINE c == term[s].call
             u == term[s].user
  <1>1. /\ term[s].at = "cmd" /\ Changes
        /\ UNCHANGED <<required, web, req, out, granted, raced>>
    BY Zenon DEF SetName, SetProfile, SetOption, ChangePassword, Commands, own_commands, web_vars
  <1>2. RowSound(c, u, granted, Excused)
    BY <1>1 DEF AccountsInv, TermSound, SessionSound
  <1>3. c \in Calls /\ u \in Row  BY <1>2 DEF RowSound
  <1>4. \A q \in Row : q.priv = u.priv /\ (q.pw = u.pw \/ q.pw # "") =>
          RowSound(c, q, granted, Excused)
    BY <1>2 DEF RowSound
  <1>5. UNCHANGED wp => PagesSound'
    BY <1>1, Kept
  <1> HIDE DEF c, u
  <1>6. CASE SetName(s)
    <2>1. PICK v \in Names : /\ Saves(s, [u EXCEPT !.name = v])
                             /\ wp' = IF faults' = faults THEN upsert_wp_entry(c, v) ELSE wp
      BY <1>6, Zenon DEF SetName, u, c
    <2>2. RowSound(c, [u EXCEPT !.name = v], granted, Excused)
      BY <1>3, <1>4, RowSet
    <2>3. PagesSound'  BY <1>3, <1>5, <2>1, PagesUpsert
    <2> QED  BY <1>1, <2>1, <2>2, <2>3, SavesInv DEF c
  <1>7. CASE SetProfile(s)
    <2>1. PICK v \in Names : Saves(s, [u EXCEPT !.rest = v])
      BY <1>7, Zenon DEF SetProfile, u
    <2>2. RowSound(c, [u EXCEPT !.rest = v], granted, Excused)
      BY <1>3, <1>4, RowSet
    <2>3. UNCHANGED wp \/ wp' = upsert_wp_entry(c, 0)
      BY <1>7, Zenon DEF SetProfile, c
    <2>4. PagesSound'  BY <1>3, <1>5, <2>3, PagesUpsert
    <2> QED  BY <1>1, <2>1, <2>2, <2>4, SavesInv DEF c
  <1>8. CASE SetOption(s)
    <2>1. PICK v \in Names \cup {0} : Saves(s, [u EXCEPT !.rest = v])
      BY <1>8, Zenon DEF SetOption, u
    <2>2. RowSound(c, [u EXCEPT !.rest = v], granted, Excused)
      BY <1>3, <1>4, RowSet
    <2>3. PagesSound'  BY <1>5, <1>8 DEF SetOption
    <2> QED  BY <1>1, <2>1, <2>2, <2>3, SavesInv DEF c
  <1>9. CASE ChangePassword(s)
    <2>1. PICK p \in Passwords : Saves(s, [u EXCEPT !.pw = p])
      BY <1>9, Zenon DEF ChangePassword, u
    <2>2. p # ""  BY AccountsAssumption
    <2>3. RowSound(c, [u EXCEPT !.pw = p], granted, Excused)
      <3> DEFINE q == [u EXCEPT !.pw = p]
      <3>1. p \in Passwords \cup {""}  OBVIOUS
      <3>2. q \in Row /\ q.priv = u.priv /\ q.pw = p  BY <1>3, <3>1, RowSet
      <3> HIDE DEF q
      <3>3. RowSound(c, q, granted, Excused)  BY <1>4, <2>2, <3>2
      <3> QED  BY <3>3 DEF q
    <2>4. PagesSound'  BY <1>5, <1>9 DEF ChangePassword
    <2> QED  BY <1>1, <2>1, <2>3, <2>4, SavesInv DEF c
  <1> QED  BY <1>6, <1>7, <1>8, <1>9

-----------------------------------------------------------------------------
(***************************************************************************)
(* The sysop's dialogues.                                                  *)
(***************************************************************************)
LEMMA ChangesBounded ==
  ASSUME AccountsInv, Changes
  PROVE  changes' \in 0 .. MaxChanges
  <1>1. changes \in 0 .. MaxChanges /\ MaxChanges \in Nat
    BY AccountsAssumption DEF AccountsInv, RestSound
  <1> QED  BY <1>1 DEF Changes

LEMMA EditUserInv ==
  ASSUME AccountsInv, NEW s \in Terminals, EditUser(s)
  PROVE  AccountsInv'
  <1>1. PICK c \in Registered :
          Becomes(s, [term[s] EXCEPT !.at = "edit", !.target = c, !.hand = users[c]])
    BY DEF EditUser
  <1>2. /\ term[s].at = "cmd" /\ term[s].user.priv = "sysop" /\ Changes
        /\ UNCHANGED <<required, users, wp, web, req, out, granted, differs, raced, faults>>
    BY DEF EditUser, Commands, MayEdit, web_vars
  <1>3. /\ term[s] \in Session /\ RowSound(term[s].call, term[s].user, granted, Excused)
        /\ RowSound(c, users[c], granted, Excused)
    BY <1>2 DEF AccountsInv, TermSound, SessionSound, UsersSound
  <1> DEFINE r == [term[s] EXCEPT !.at = "edit", !.target = c, !.hand = users[c]]
  <1>4. /\ SessionSound(r, granted, Excused)
        /\ r.at = "edit" /\ r.call = term[s].call /\ r.user = term[s].user
    <2>1. /\ r.at = "edit" /\ r.call = term[s].call /\ r.user = term[s].user
          /\ r.target = c /\ r.hand = users[c]
      BY <1>3 DEF Session
    <2>2. "edit" \in {"call", "record", "upsert", "cmd", "edit", "wpedit", "gone"}
      OBVIOUS
    <2>3. r \in Session  BY <1>3, <2>2, Zenon DEF Session, RowSound
    <2>4. term[s].call \in granted  BY <1>2, <1>3 DEF RowSound
    <2> HIDE DEF r
    <2> QED  BY <1>3, <2>1, <2>3, <2>4 DEF SessionSound
  <1> HIDE DEF r
  <1>5. Becomes(s, r)  BY <1>1 DEF r
  <1>6. Excused' = Excused  BY <1>2 DEF Excused
  <1>7. UsersSound' /\ ReqSound' /\ TokensSound' /\ PagesSound'
    BY <1>2, Kept
  <1>8. TermSound'  BY <1>2, <1>4, <1>5, <1>6, TermMoves
  <1>9. RestSound'  BY <1>2, ChangesBounded DEF AccountsInv, RestSound
  <1>10. SavedUnlessOvertaken'
    <2>1. term'[s] = r /\ \A x \in Terminals : x # s => term'[x] = term[x]
      BY <1>5, BecomesFacts DEF AccountsInv
    <2> QED  BY <1>2, <1>4, <2>1, SavedKept DEF LoggedIn
  <1> QED  BY <1>7, <1>8, <1>9, <1>10 DEF AccountsInv

LEMMA EditPagesInv ==
  ASSUME AccountsInv, NEW s \in Terminals, EditPages(s)
  PROVE  AccountsInv'
  <1>1. PICK c \in Calls :
          Becomes(s, [term[s] EXCEPT !.at = "wpedit", !.target = c,
                                     !.hand.name = IF c \in DOMAIN wp THEN wp[c] ELSE 0])
    BY DEF EditPages
  <1>2. /\ term[s].at = "cmd" /\ Changes
        /\ UNCHANGED <<required, users, wp, web, req, out, granted, differs, raced, faults>>
    BY DEF EditPages, Commands, web_vars
  <1>3. /\ term[s] \in Session /\ RowSound(term[s].call, term[s].user, granted, Excused)
        /\ term[s].hand.priv # "sysop"
    BY <1>2 DEF AccountsInv, TermSound, SessionSound
  <1> DEFINE v == IF c \in DOMAIN wp THEN wp[c] ELSE 0
             h == [term[s].hand EXCEPT !.name = v]
             r == [term[s] EXCEPT !.at = "wpedit", !.target = c, !.hand = h]
  <1>4. h \in Row /\ h.priv = term[s].hand.priv
    <2>1. v \in Names \cup {0}  BY DEF AccountsInv, PagesSound
    <2> HIDE DEF v
    <2> QED  BY <1>3, <2>1, SessionFields, RowSet
  <1>5. Becomes(s, r)
    BY <1>1
  <1> HIDE DEF h
  <1>6. /\ SessionSound(r, granted, Excused)
        /\ r.at = "wpedit" /\ r.call = term[s].call /\ r.user = term[s].user
    <2>1. /\ r.at = "wpedit" /\ r.call = term[s].call /\ r.user = term[s].user
          /\ r.target = c /\ r.hand = h
      BY <1>3 DEF Session
    <2>2. "wpedit" \in {"call", "record", "upsert", "cmd", "edit", "wpedit", "gone"}
      OBVIOUS
    <2>3. r \in Session  BY <1>3, <1>4, <2>2, Zenon DEF Session
    <2> HIDE DEF r
    <2> QED  BY <1>3, <1>4, <2>1, <2>3 DEF SessionSound
  <1> HIDE DEF r
  <1>7. Excused' = Excused  BY <1>2 DEF Excused
  <1>8. UsersSound' /\ ReqSound' /\ TokensSound' /\ PagesSound'
    BY <1>2, Kept
  <1>9. TermSound'  BY <1>2, <1>5, <1>6, <1>7, TermMoves
  <1>10. RestSound'  BY <1>2, ChangesBounded DEF AccountsInv, RestSound
  <1>11. SavedUnlessOvertaken'
    <2>1. term'[s] = r /\ \A x \in Terminals : x # s => term'[x] = term[x]
      BY <1>5, BecomesFacts DEF AccountsInv
    <2> QED  BY <1>2, <1>6, <2>1, SavedKept DEF LoggedIn
  <1> QED  BY <1>8, <1>9, <1>10, <1>11 DEF AccountsInv

\* A dialogue is over: the session is back at its prompt.
LEMMA BackSound ==
  ASSUME AccountsInv, NEW s \in Terminals, term[s].at \in {"edit", "wpedit"}, NEW g, NEW w,
         granted \subseteq g, Excused \subseteq w
  PROVE  LET r == [term[s] EXCEPT !.at = "cmd", !.target = "", !.hand = NoRow]
         IN  /\ SessionSound(r, g, w)
             /\ r.at = "cmd" /\ r.call = term[s].call /\ r.user = term[s].user
  <1> DEFINE r == [term[s] EXCEPT !.at = "cmd", !.target = "", !.hand = NoRow]
  <1>1. term[s] \in Session /\ RowSound(term[s].call, term[s].user, g, w)
    <2>1. term[s] \in Session /\ SessionSound(term[s], g, w)
      BY SoundGrows DEF AccountsInv, TermSound
    <2> QED  BY <2>1 DEF SessionSound
  <1>2. /\ r.at = "cmd" /\ r.call = term[s].call /\ r.user = term[s].user
        /\ r.hand = NoRow
    BY <1>1 DEF Session
  <1>3. "cmd" \in {"call", "record", "upsert", "cmd", "edit", "wpedit", "gone"}
        /\ "" \in Calls \cup {""}
    OBVIOUS
  <1>4. r \in Session  BY <1>1, <1>3, RowFacts, Zenon DEF Session
  <1> HIDE DEF r
  <1>5. SessionSound(r, g, w)  BY <1>1, <1>2, <1>4, RowFacts DEF SessionSound
  <1> QED  BY <1>2, <1>5 DEF r

LEMMA EditedUserInv ==
  ASSUME AccountsInv, NEW s \in Terminals, EditedUser(s)
  PROVE  AccountsInv'
  <1> DEFINE c == term[s].target
             h == term[s].hand
             r == [term[s] EXCEPT !.at = "cmd", !.target = "", !.hand = NoRow]
  <1>1. /\ term[s].at = "edit" /\ Becomes(s, r)
        /\ UNCHANGED <<required, wp, web, req, out, raced, changes, faults>>
    BY DEF EditedUser, web_vars
  <1>2. PICK v \in Names \cup {h.name}, p \in {"user", "sysop", h.priv} :
          /\ upsert_user(c, [h EXCEPT !.name = v, !.priv = p], "nobody")
          /\ granted' = IF p = h.priv THEN granted ELSE Grants(term[s].call, c, p)
    BY DEF EditedUser
  <1>3. RowSound(c, h, granted, Excused) /\ term[s].call \in granted
    BY <1>1 DEF AccountsInv, TermSound, SessionSound
  <1>4. c \in Calls /\ h \in Row  BY <1>3 DEF RowSound
  <1> DEFINE q == [h EXCEPT !.name = v, !.priv = p]
  <1>5. q \in Row /\ q.priv = p /\ q.pw = h.pw
    <2>1. h.priv \in Privileges /\ h.name \in Names \cup {0}  BY <1>4, RowFields
    <2>2. v \in Names \cup {0}  BY <2>1
    <2>3. p \in Privileges  BY <2>1 DEF Privileges
    <2>4. q = Renamed(h, v, p)  BY DEF Renamed
    <2> HIDE DEF h, q
    <2> QED  BY <1>4, <2>2, <2>3, <2>4, RowEdit
  <1> HIDE DEF q
  <1>6. upsert_user(c, q, "nobody")  BY <1>2 DEF q
  <1>7. granted \subseteq granted' /\ granted' \subseteq granted \cup {c}
        /\ (p = "sysop" => c \in granted')
    <2>1. CASE p = h.priv  BY <1>2, <1>3, <2>1 DEF RowSound
    <2>2. CASE p # h.priv  BY <1>2, <1>3, <2>2 DEF Grants
    <2> QED  BY <2>1, <2>2
  <1>8. Excused' = Excused  BY <1>1 DEF Excused
  <1>9. RowSound(c, q, granted', Excused')
    BY <1>3, <1>5, <1>7, <1>8 DEF RowSound
  <1>10. /\ SessionSound(r, granted', Excused')
         /\ r.at = "cmd" /\ r.call = term[s].call /\ r.user = term[s].user
    BY <1>1, <1>7, <1>8, BackSound
  <1> HIDE DEF r, c, h
  <1>11. ReqSound' /\ TokensSound' /\ PagesSound'
    BY <1>1, <1>7, Kept
  <1>12. TermSound'  BY <1>1, <1>7, <1>10, TermMoves
  <1>13. UsersSound' /\ SavedUnlessOvertaken' /\ differs' \subseteq Terminals
    <2>1. term'[s] = r /\ \A x \in Terminals : x # s => term'[x] = term[x]
      BY <1>1, BecomesFacts DEF AccountsInv
    <2>2. \A x \in Terminals \ {"nobody"} : LoggedIn(x)' =>
            LoggedIn(x) /\ term'[x].call = term[x].call /\ term'[x].user = term[x].user
      BY <1>1, <1>10, <2>1 DEF LoggedIn
    <2>3. "nobody" \notin Terminals  BY AccountsAssumption
    <2> QED  BY <1>1, <1>6, <1>7, <1>9, <2>2, <2>3, Written
  <1>14. RestSound'  BY <1>1, <1>4, <1>7, <1>13 DEF AccountsInv, RestSound
  <1> QED  BY <1>11, <1>12, <1>13, <1>14 DEF AccountsInv

LEMMA EditedPagesInv ==
  ASSUME AccountsInv, NEW s \in Terminals, EditedPages(s)
  PROVE  AccountsInv'
  <1> DEFINE r == [term[s] EXCEPT !.at = "cmd", !.target = "", !.hand = NoRow]
  <1>1. /\ term[s].at = "wpedit" /\ Becomes(s, r)
        /\ UNCHANGED <<required, users, web, req, out, granted, differs, raced, changes, faults>>
    BY DEF EditedPages, web_vars
  <1>2. /\ SessionSound(r, granted, Excused)
        /\ r.at = "cmd" /\ r.call = term[s].call /\ r.user = term[s].user
    BY <1>1, BackSound
  <1>3. Excused' = Excused  BY <1>1 DEF Excused
  <1>4. PagesSound'
    <2>1. term[s].target \in Calls /\ term[s].hand \in Row
      BY <1>1, SessionFields DEF AccountsInv, TermSound, SessionSound
    <2>2. PICK v \in Names \cup {term[s].hand.name} :
            wp' = upsert_wp_entry(term[s].target, v)
      BY DEF EditedPages
    <2>3. v \in Names \cup {0}  BY <2>1, RowFields
    <2> QED  BY <2>1, <2>2, <2>3, PagesUpsert
  <1> HIDE DEF r
  <1>5. UsersSound' /\ ReqSound' /\ TokensSound'
    BY <1>1, Kept
  <1>6. TermSound'  BY <1>1, <1>2, <1>3, TermMoves
  <1>7. RestSound'  BY <1>1 DEF AccountsInv, RestSound
  <1>8. SavedUnlessOvertaken'
    <2>1. term'[s] = r /\ \A x \in Terminals : x # s => term'[x] = term[x]
      BY <1>1, BecomesFacts DEF AccountsInv
    <2> QED  BY <1>1, <1>2, <2>1, SavedKept DEF LoggedIn
  <1> QED  BY <1>4, <1>5, <1>6, <1>7, <1>8 DEF AccountsInv

-----------------------------------------------------------------------------
(***************************************************************************)
(* The web.                                                                *)
(***************************************************************************)

\* The steps that only change tokens.
LEMMA TokenStepInv ==
  ASSUME AccountsInv, Login \/ Logout \/ Prune \/ Refused \/ Tick
  PROVE  AccountsInv'
  <1>1. /\ UNCHANGED <<required, wp, term, users, req>>
        /\ UNCHANGED <<granted, differs, raced, changes, faults>>
    BY Zenon DEF Login, Logout, Prune, Refused, Tick, terms
  <1>2. UsersSound' /\ TermSound' /\ ReqSound' /\ PagesSound'
    BY <1>1, Kept
  <1>3. RestSound'  BY <1>1 DEF AccountsInv, RestSound
  <1>4. SavedUnlessOvertaken'
    BY <1>1 DEF AccountsInv, SavedUnlessOvertaken, LoggedIn, Registered
  <1>5. /\ DOMAIN web \subseteq Tokens /\ out \subseteq Tokens
        /\ \A t \in DOMAIN web : WebSound(web[t], granted)
    BY DEF AccountsInv, TokensSound
  <1>6. TokensSound'
    <2>1. CASE Login
      <3>1. PICK c \in Registered, t \in Tokens : web' = With(web, t, Created(c)) /\ out' = out \ {t}
        BY <2>1 DEF Login
      <3>2. RowSound(c, users[c], granted, Excused)
        BY DEF AccountsInv, UsersSound
      <3>3. WebSound(Created(c), granted)
        <4>1. users[c].priv \in Privileges  BY <3>2, RowFields DEF RowSound
        <4>2. Ttl \in Nat  BY AccountsAssumption
        <4>3. Ttl \in -1 .. Ttl  BY <4>2
        <4> QED  BY <3>2, <4>1, <4>3 DEF Created, WebSound, RowSound
      <3>4. /\ DOMAIN web' = DOMAIN web \cup {t} /\ web'[t] = Created(c)
            /\ \A x \in DOMAIN web : x # t => web'[x] = web[x]
        BY <3>1 DEF With
      <3> QED  BY <1>1, <1>5, <3>1, <3>3, <3>4 DEF TokensSound
    <2>2. CASE Logout \/ Prune \/ Refused
      <3>1. PICK T \in SUBSET DOMAIN web : web' = Without(T) /\ out' \subseteq out \cup T
        <4>1. CASE Logout  BY <4>1 DEF Logout
        <4>2. CASE Prune  BY <4>2 DEF Prune
        <4>3. CASE Refused  BY <4>3 DEF Refused
        <4> QED  BY <2>2, <4>1, <4>2, <4>3
      <3>2. DOMAIN web' \subseteq DOMAIN web /\ \A x \in DOMAIN web' : web'[x] = web[x]
        BY <3>1 DEF Without
      <3> QED  BY <1>1, <1>5, <3>1, <3>2 DEF TokensSound
    <2>3. CASE Tick
      <3>1. DOMAIN web' = DOMAIN web /\ out' = out
        BY <2>3 DEF Tick
      <3>2. ASSUME NEW t \in DOMAIN web PROVE WebSound(web'[t], granted)
        <4>1. WebSound(web[t], granted)  BY <1>5
        <4>2. web'[t] = [web[t] EXCEPT !.left = IF Expired(t) THEN @ ELSE @ - 1]
          BY <2>3 DEF Tick
        <4>3. web[t].left \in -1 .. Ttl  BY <4>1 DEF WebSound
        <4>4. (IF Expired(t) THEN web[t].left ELSE web[t].left - 1) \in -1 .. Ttl
          <5>1. Ttl \in Nat  BY AccountsAssumption
          <5> QED  BY <4>3, <5>1 DEF Expired
        <4>5. /\ web'[t] \in [call : Calls, priv : Privileges, left : -1 .. Ttl]
              /\ web'[t].priv = web[t].priv /\ web'[t].call = web[t].call
          BY <4>1, <4>2, <4>4 DEF WebSound
        <4> QED  BY <4>1, <4>5 DEF WebSound
      <3> QED  BY <1>1, <1>5, <3>1, <3>2 DEF TokensSound
    <2> QED  BY <2>1, <2>2, <2>3
  <1> QED  BY <1>2, <1>3, <1>4, <1>6 DEF AccountsInv

\* A sysop's token stands for one.
LEMMA AsksFacts ==
  ASSUME AccountsInv, NEW t, Asks(t)
  PROVE  web[t].call \in granted /\ changes' \in 0 .. MaxChanges /\ req = NoRequest
  BY ChangesBounded DEF AccountsInv, TokensSound, WebSound, Asks, WebRuns

LEMMA SetPrivilegeInv ==
  ASSUME AccountsInv, NEW t \in Tokens, SetPrivilege(t)
  PROVE  AccountsInv'
  <1>1. /\ web[t].call \in granted /\ changes' \in 0 .. MaxChanges
        /\ UNCHANGED <<required, wp, term, web, req, out, raced, faults>>
    BY AsksFacts DEF SetPrivilege, terms, web_vars
  <1>2. PICK c \in Registered, p \in Privileges :
          /\ upsert_user(c, [users[c] EXCEPT !.priv = p], "nobody")
          /\ granted' = Grants(web[t].call, c, p)
    BY DEF SetPrivilege
  <1>3. RowSound(c, users[c], granted, Excused)
    BY DEF AccountsInv, UsersSound
  <1> DEFINE q == [users[c] EXCEPT !.priv = p]
  <1>4. q \in Row /\ q.priv = p /\ q.pw = users[c].pw
    BY <1>3, RowSet DEF RowSound
  <1> HIDE DEF q
  <1>5. /\ granted \subseteq granted' /\ granted' \subseteq granted \cup {c}
        /\ (p = "sysop" => c \in granted')
    BY <1>1, <1>2 DEF Grants
  <1>6. Excused' = Excused  BY <1>1 DEF Excused
  <1>7. RowSound(c, q, granted', Excused')
    BY <1>3, <1>4, <1>5, <1>6 DEF RowSound
  <1>8. TermSound' /\ ReqSound' /\ TokensSound' /\ PagesSound'
    BY <1>1, <1>5, Kept
  <1>9. UsersSound' /\ SavedUnlessOvertaken' /\ differs' \subseteq Terminals
    <2>1. upsert_user(c, q, "nobody")  BY <1>2 DEF q
    <2>2. "nobody" \notin Terminals  BY AccountsAssumption
    <2>3. \A x \in Terminals \ {"nobody"} : LoggedIn(x)' =>
            LoggedIn(x) /\ term'[x].call = term[x].call /\ term'[x].user = term[x].user
      BY <1>1 DEF LoggedIn
    <2> QED  BY <1>1, <1>5, <1>7, <2>1, <2>2, <2>3, Written
  <1>10. RestSound'
    BY <1>1, <1>3, <1>5, <1>9 DEF AccountsInv, RestSound, RowSound
  <1> QED  BY <1>8, <1>9, <1>10 DEF AccountsInv

LEMMA DeleteUserInv ==
  ASSUME AccountsInv, NEW t \in Tokens, DeleteUser(t)
  PROVE  AccountsInv'
  <1>1. /\ changes' \in 0 .. MaxChanges
        /\ UNCHANGED <<required, wp, term, web, req, out, granted, raced, faults>>
    BY AsksFacts DEF DeleteUser, terms, web_vars
  <1>2. PICK c \in Registered :
          /\ users' = [x \in Registered \ {c} |-> users[x]]
          /\ differs' = differs \cup {s \in Terminals : LoggedIn(s) /\ term[s].call = c}
    BY DEF DeleteUser
  <1>3. /\ DOMAIN users' = DOMAIN users \ {c}
        /\ \A x \in DOMAIN users' : users'[x] = users[x]
    BY <1>2 DEF Registered
  <1>4. TermSound' /\ ReqSound' /\ TokensSound' /\ PagesSound'
    BY <1>1, Kept
  <1>5. UsersSound'
    <2>1. Excused' = Excused  BY <1>1 DEF Excused
    <2> QED  BY <1>1, <1>3, <2>1 DEF AccountsInv, UsersSound, Registered
  <1>6. SavedUnlessOvertaken'
    BY <1>1, <1>2, <1>3 DEF AccountsInv, SavedUnlessOvertaken, LoggedIn, Registered
  <1>7. RestSound'  BY <1>1, <1>2 DEF AccountsInv, RestSound
  <1> QED  BY <1>4, <1>5, <1>6, <1>7 DEF AccountsInv

\* A request has looked its user up.
LEMMA RequestReadsInv ==
  ASSUME AccountsInv, NEW t \in Tokens, CreateUser(t) \/ ResetPassword(t)
  PROVE  AccountsInv'
  <1>1. /\ web[t].call \in granted /\ changes' \in 0 .. MaxChanges
        /\ UNCHANGED <<required, wp, term, users, web, out, differs, raced, faults>>
    BY AsksFacts, Zenon DEF CreateUser, ResetPassword, terms
  <1>2. PICK c, q : /\ req' = [call |-> c, row |-> q] /\ RowSound(c, q, granted', Excused)
                    /\ granted \subseteq granted' /\ granted' \subseteq granted \cup {c}
    <2>1. CASE CreateUser(t)
      <3>1. PICK c \in Calls \ Registered, p \in Passwords, v \in Privileges :
              /\ req' = [call |-> c, row |-> NewRow(v, p)]
              /\ granted' = Grants(web[t].call, c, v)
        BY <2>1 DEF CreateUser
      <3>2. NewRow(v, p) \in Row /\ NewRow(v, p).priv = v /\ NewRow(v, p).pw = p
        BY RowFacts
      <3>3. /\ granted \subseteq granted' /\ granted' \subseteq granted \cup {c}
            /\ (v = "sysop" => c \in granted')
        BY <1>1, <3>1 DEF Grants
      <3>4. p # ""  BY AccountsAssumption
      <3>5. RowSound(c, NewRow(v, p), granted', Excused)
        BY <3>2, <3>3, <3>4 DEF RowSound
      <3> QED  BY <3>1, <3>3, <3>5
    <2>2. CASE ResetPassword(t)
      <3>1. PICK c \in Registered, p \in Passwords :
              req' = [call |-> c, row |-> [users[c] EXCEPT !.pw = p]]
        BY <2>2 DEF ResetPassword
      <3>2. RowSound(c, users[c], granted, Excused) /\ granted' = granted
        BY <2>2 DEF AccountsInv, UsersSound, ResetPassword
      <3> DEFINE q == [users[c] EXCEPT !.pw = p]
      <3>3. q \in Row /\ q.priv = users[c].priv /\ q.pw = p
        <4>1. users[c] \in Row  BY <3>2 DEF RowSound
        <4>2. q = WithPassword(users[c], p)  BY DEF WithPassword
        <4> HIDE DEF q
        <4> QED  BY <4>1, <4>2, RowPassword
      <3>4. p # ""  BY AccountsAssumption
      <3> HIDE DEF q
      <3>5. RowSound(c, q, granted', Excused)
        BY <3>2, <3>3, <3>4 DEF RowSound
      <3> QED  BY <3>1, <3>2, <3>5 DEF q
    <2> QED  BY <2>1, <2>2
  <1>3. Excused' = Excused  BY <1>1 DEF Excused
  <1>4. UsersSound' /\ TermSound' /\ TokensSound' /\ PagesSound'
    BY <1>1, <1>2, Kept
  <1>5. ReqSound'
    <2>1. q \in Row /\ c \in Calls  BY <1>2 DEF RowSound
    <2>2. req'.call = c /\ req'.row = q /\ req' \in [call : Calls \cup {""}, row : Row]
      BY <1>2, <2>1
    <2>3. NoRequest.row.priv = ""
      BY RowFacts DEF NoRequest
    <2>4. RowSound(req'.call, req'.row, granted', Excused')
      BY <1>2, <1>3, <2>2
    <2>5. req' = NoRequest => req'.row.priv # "sysop"  BY <2>3
    <2> QED  BY <2>2, <2>4, <2>5, Zenon DEF ReqSound
  <1>6. RestSound'
    BY <1>1, <1>2 DEF AccountsInv, RestSound, RowSound
  <1>7. SavedUnlessOvertaken'
    BY <1>1 DEF AccountsInv, SavedUnlessOvertaken, LoggedIn, Registered
  <1> QED  BY <1>4, <1>5, <1>6, <1>7 DEF AccountsInv

LEMMA RequestWritesInv ==
  ASSUME AccountsInv, RequestWrites
  PROVE  AccountsInv'
  <1>1. /\ req # NoRequest /\ upsert_user(req.call, req.row, "nobody") /\ req' = NoRequest
        /\ UNCHANGED <<required, wp, term, web, out, granted, raced, changes, faults>>
    BY DEF RequestWrites, terms
  <1>2. RowSound(req.call, req.row, granted, Excused)
    BY <1>1 DEF AccountsInv, ReqSound
  <1>3. Excused' = Excused  BY <1>1 DEF Excused
  <1>4. TermSound' /\ TokensSound' /\ PagesSound'
    BY <1>1, Kept
  <1>5. ReqSound'
    <2>1. NoRequest \in [call : Calls \cup {""}, row : Row] /\ NoRequest.row.priv = ""
      BY RowFacts DEF NoRequest
    <2> QED  BY <1>1, <2>1 DEF ReqSound
  <1>6. UsersSound' /\ SavedUnlessOvertaken' /\ differs' \subseteq Terminals
    <2>1. "nobody" \notin Terminals  BY AccountsAssumption
    <2>2. \A x \in Terminals \ {"nobody"} : LoggedIn(x)' =>
            LoggedIn(x) /\ term'[x].call = term[x].call /\ term'[x].user = term[x].user
      BY <1>1 DEF LoggedIn
    <2> QED  BY <1>1, <1>2, <1>3, <2>1, <2>2, Written
  <1>7. RestSound'  BY <1>1, <1>6 DEF AccountsInv, RestSound
  <1> QED  BY <1>4, <1>5, <1>6, <1>7 DEF AccountsInv

-----------------------------------------------------------------------------
(***************************************************************************)
(* The theorems.                                                           *)
(***************************************************************************)
LEMMA StepInv == AccountsInv /\ [Next]_vars => AccountsInv'
  <1> SUFFICES ASSUME AccountsInv, [Next]_vars PROVE AccountsInv'  OBVIOUS
  <1>1. CASE UNCHANGED vars
    <2>1. /\ UNCHANGED <<required, users, wp, term, web, req, out>>
          /\ UNCHANGED <<granted, differs, raced, changes, faults>>
      BY <1>1 DEF vars
    <2>2. UsersSound' /\ TermSound' /\ ReqSound' /\ TokensSound' /\ PagesSound'
      BY <2>1, Kept
    <2>3. RestSound' /\ SavedUnlessOvertaken'
      BY <2>1 DEF AccountsInv, RestSound, SavedUnlessOvertaken, LoggedIn, Registered
    <2> QED  BY <2>2, <2>3 DEF AccountsInv
  <1>2. ASSUME NEW s \in Terminals,
               \/ Attempt(s) \/ LoginReads(s) \/ LoginWrites(s) \/ Leave(s)
               \/ SetName(s) \/ SetProfile(s) \/ SetOption(s) \/ ChangePassword(s)
               \/ EditUser(s) \/ EditedUser(s) \/ EditPages(s) \/ EditedPages(s)
        PROVE  AccountsInv'
    BY <1>2, AttemptInv, LoginReadsInv, LoginWritesInv, LeaveInv, CommandsInv, EditUserInv,
       EditedUserInv, EditPagesInv, EditedPagesInv
  <1>3. CASE Login \/ Logout \/ Prune \/ Refused \/ Tick
    BY <1>3, TokenStepInv
  <1>4. ASSUME NEW t \in Tokens,
               SetPrivilege(t) \/ DeleteUser(t) \/ CreateUser(t) \/ ResetPassword(t)
        PROVE  AccountsInv'
    BY <1>4, SetPrivilegeInv, DeleteUserInv, RequestReadsInv
  <1>5. CASE RequestWrites
    BY <1>5, RequestWritesInv
  <1> QED  BY <1>1, <1>2, <1>3, <1>4, <1>5, Zenon DEF Next

LEMMA Invariance == Spec => []AccountsInv
  BY InitInv, StepInv, PTL DEF Spec

\* The tables, the copies of rows and the tokens have the types that Accounts gives
\* them, however many sessions and requests read and write them.
THEOREM TypeCorrect == Spec => []TypeOK
  <1>1. AccountsInv => TypeOK  BY InvImplies
  <1> QED  BY <1>1, Invariance, PTL

\* Whatever old copies sessions, dialogues and requests write back, nobody is a sysop
\* in the table, at a terminal or on the web whom no sysop ever made one
\* (store.upsert_user, engine.py's EU, web/app.py's users pages).
THEOREM NoPrivilegeFromCopies == Spec => []PrivilegeWasGranted
  <1>1. AccountsInv => PrivilegeWasGranted  BY InvImplies
  <1> QED  BY <1>1, Invariance, PTL

\* A session's copy of its user is the stored row unless somebody else wrote it since
\* or the session's last write failed (engine.py's commands, store.upsert_user).
THEOREM CopyIsStored == Spec => []SavedUnlessOvertaken
  <1>1. AccountsInv => SavedUnlessOvertaken  BY DEF AccountsInv
  <1> QED  BY <1>1, Invariance, PTL

\* Where passwords are required every row keeps one, but for a callsign whose row was
\* deleted while it logged in (store.record_login, web/app.py's delete).
THEOREM PasswordsStay == Spec => []EveryAccountHasPassword
  <1>1. AccountsInv => EveryAccountHasPassword  BY InvImplies
  <1> QED  BY <1>1, Invariance, PTL

\* No step takes away a web session that is neither logged out nor expired
\* (web/auth.py, SessionStore).
THEOREM LiveSessionsStay == Spec => NoLiveSessionLost
  <1> DEFINE Lost == \A t \in DOMAIN web \ DOMAIN web' : t \in out' \/ Expired(t)
  <1>1. Next => Lost
    <2> SUFFICES ASSUME Next PROVE Lost  OBVIOUS
    <2>1. CASE UNCHANGED web  BY <2>1
    <2>2. CASE Login  BY <2>2 DEF Login, With
    <2>3. CASE Logout  BY <2>3 DEF Logout, Without
    <2>4. CASE Prune  BY <2>4 DEF Prune, Without, Stale, Expired
    <2>5. CASE Refused  BY <2>5 DEF Refused, Without
    <2>6. CASE Tick  BY <2>6 DEF Tick
    <2>7. ASSUME NEW s \in Terminals,
                 \/ Attempt(s) \/ LoginReads(s) \/ LoginWrites(s) \/ Leave(s)
                 \/ SetName(s) \/ SetProfile(s) \/ SetOption(s) \/ ChangePassword(s)
                 \/ EditUser(s) \/ EditedUser(s) \/ EditPages(s) \/ EditedPages(s)
          PROVE  UNCHANGED web
      BY <2>7, Zenon
      DEF Attempt, LoginReads, LoginWrites, Leave, SetName, SetProfile, SetOption,
          ChangePassword, EditUser, EditedUser, EditPages, EditedPages, own_commands, web_vars
    <2>8. ASSUME NEW t \in Tokens,
                 SetPrivilege(t) \/ DeleteUser(t) \/ CreateUser(t) \/ ResetPassword(t)
          PROVE  UNCHANGED web
      BY <2>8, Zenon DEF SetPrivilege, DeleteUser, CreateUser, ResetPassword, web_vars
    <2>9. RequestWrites => UNCHANGED web  BY DEF RequestWrites
    <2> HIDE DEF Lost
    <2> QED  BY <2>1, <2>2, <2>3, <2>4, <2>5, <2>6, <2>7, <2>8, <2>9, Zenon DEF Next
  <1>2. UNCHANGED vars => Lost  BY DEF vars
  <1> QED  BY <1>1, <1>2, PTL DEF Spec, NoLiveSessionLost
===============================================================================
