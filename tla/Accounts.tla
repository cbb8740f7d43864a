------------------------------- MODULE Accounts -------------------------------
(***************************************************************************)
(* The users table and its readers and writers: the terminal sessions of   *)
(* the core process, each with a copy of its user's row that it took at    *)
(* login (session/session.py, command/engine.py), and the web process with *)
(* its login sessions (web/auth.py, web/app.py).                           *)
(*                                                                         *)
(* A row is written as a whole, whatever part of it the writer meant to    *)
(* change (store.upsert_user).  One step is one transaction, or the run of *)
(* a task that touches only its own memory; a task that has nothing to     *)
(* wait for keeps the other tasks of its process out.                      *)
(***************************************************************************)
EXTENDS Integers

CONSTANTS
  Calls, Operator,  \* callsigns; the one that is sysop from the beginning
  Known,            \* those that have a row at first
  Passwords, First, \* what can be typed as a password; everybody's at first
  Names,            \* values of a column a user may set
  Terminals,        \* connections to the core
  Tokens,           \* session tokens that the web hands out
  Ttl,              \* _SESSION_TTL, in ticks
  Modes,            \* the choices of cfg.node.require_password
  MaxChanges,       \* bound: changes asked for by users and sysops
  MaxFaults         \* bound: writes that fail

ASSUME AccountsAssumption ==
  /\ Operator \in Known /\ Known \subseteq Calls
  /\ "" \notin Passwords /\ First \in Passwords
  /\ "nobody" \notin Terminals
  /\ 0 \notin Names /\ Names \subseteq Nat
  /\ Modes \subseteq BOOLEAN
  /\ {Ttl, MaxChanges, MaxFaults} \subseteq Nat

VARIABLES
  required,  \* cfg.node.require_password
  users,     \* the users table
  wp,        \* the name in a callsign's white pages entry
  term,      \* term[s]: the session on connection s
  web,       \* SessionStore._sessions, with the time left until expires_at
  req,       \* the web request between its look and its write
  granted,   \* history: callsigns that a sysop has made sysop
  differs,   \* history: sessions whose user was written elsewhere since their last
             \* write, or whose last write failed
  raced,     \* history: callsigns that a login has found without a row
  out,       \* history: tokens that were logged out
  changes, faults

vars == <<required, users, wp, term, web, req, out, granted, differs, raced, changes, faults>>

Privileges == {"", "user", "sysop"}

\* "name" is the name of NH, "rest" every other column a user sets; 0 is its default.
Row == [priv : Privileges, pw : Passwords \cup {""}, name : Names \cup {0}, rest : Names \cup {0}]

NewRow(priv, pw) == [priv |-> priv, pw |-> pw, name |-> 0, rest |-> 0]
NoRow == NewRow("", "")

\* Where a session waits or has got to; its attempts to log in; the callsign it
\* gave and its copy of that row; the row an edit has in hand, and whose it is.
Session == [at : {"call", "record", "upsert", "cmd", "edit", "wpedit", "gone"},
            tries : 0 .. 3, call : Calls \cup {""}, user : Row,
            target : Calls \cup {""}, hand : Row]

Connected == [at |-> "call", tries |-> 0, call |-> "", user |-> NoRow,
              target |-> "", hand |-> NoRow]

NoRequest == [call |-> "", row |-> NoRow]

Init ==
  /\ required \in Modes
  /\ users = [c \in Known |-> NewRow(IF c = Operator THEN "sysop" ELSE "user", First)]
  /\ wp = [c \in {} |-> 0]
  /\ term = [s \in Terminals |-> Connected]
  /\ web = [t \in {} |-> 0] /\ req = NoRequest /\ out = {}
  /\ changes = 0 /\ faults = 0
  /\ granted = {Operator} /\ differs = {} /\ raced = {}

Registered == DOMAIN users
LoggedIn(s) == term[s].at \in {"cmd", "edit", "wpedit"}
Unbroken(s) == term[s].at \in {"record", "upsert"}

\* A step of session s, or of the web.
CoreRuns(s) == \A x \in Terminals \ {s} : ~Unbroken(x)
WebRuns     == req = NoRequest

Becomes(s, r) == term' = [term EXCEPT ![s] = r]

\* A table or dictionary f in which the entry of x is v.
With(f, x, v) == [y \in DOMAIN f \cup {x} |-> IF y = x THEN v ELSE f[y]]

\* upsert_user: the row of call c is r.  The other sessions of c are left with
\* an older copy; session s, if it writes the copy it keeps, is not.
upsert_user(c, r, s) ==
  /\ users' = With(users, c, r)
  /\ differs' = (differs \ {s}) \cup {x \in Terminals \ {s} : LoggedIn(x) /\ term[x].call = c}

\* upsert_wp_entry: the entry of call c has name v.
upsert_wp_entry(c, v) == With(wp, c, v)

web_vars == <<web, req, out>>
Changes  == changes < MaxChanges /\ changes' = changes + 1

-----------------------------------------------------------------------------
(***************************************************************************)
(* Logging in at a terminal: three attempts, an empty line counts as one.  *)
(***************************************************************************)

\* A faulty variant: the attempts go on.
Failed_Again(s) ==
  Becomes(s, [Connected EXCEPT !.tries = term[s].tries + 1])

Failed(s) ==
  LET n == term[s].tries + 1
  IN Becomes(s, [Connected EXCEPT !.tries = n, !.at = IF n = 3 THEN "gone" ELSE "call"])

\* An empty line, a callsign that is none, or a callsign and, where one is
\* required, its password.
Attempt(s) ==
  /\ term[s].at = "call" /\ CoreRuns(s)
  /\ \/ Failed(s)
     \/ \E c \in Calls :
          /\ required => c \in Registered /\ \E p \in Passwords : users[c].pw = p
          /\ Becomes(s, [Connected EXCEPT !.at = "record", !.call = c])
  /\ UNCHANGED <<required, users, wp, web_vars, granted, differs, raced, changes, faults>>

\* record_login: the row is read once more, or made for a callsign without one,
LoginReads(s) ==
  LET c == term[s].call IN
  /\ term[s].at = "record"
  /\ Becomes(s, [term[s] EXCEPT !.at = "upsert",
                                !.user = IF c \in Registered THEN users[c] ELSE NewRow("user", "")])
  /\ raced' = raced \cup ({c} \ Registered)
  /\ UNCHANGED <<required, users, wp, web_vars, granted, differs, changes, faults>>

\* A faulty variant: a new row bears the time of the login.
Recorded_Fresh(r) == NewRow(r.priv, "")

\* What is written: the columns of the last login are not kept here.
Recorded(r) == r

\* and written back with the time of the login.
LoginWrites(s) ==
  /\ term[s].at = "upsert"
  /\ upsert_user(term[s].call, Recorded(term[s].user), s)
  /\ Becomes(s, [term[s] EXCEPT !.at = "cmd", !.user = Recorded(@)])
  /\ UNCHANGED <<required, wp, web_vars, granted, raced, changes, faults>>

\* The session ends, by B or with its connection.
Leave(s) ==
  /\ term[s].at \notin {"gone", "record", "upsert"} /\ CoreRuns(s)
  /\ Becomes(s, [Connected EXCEPT !.at = "gone"])
  /\ differs' = differs \ {s}
  /\ UNCHANGED <<required, users, wp, web_vars, granted, raced, changes, faults>>

-----------------------------------------------------------------------------
(***************************************************************************)
(* A user's own commands: the copy is changed and then written as a whole. *)
(***************************************************************************)
Commands(s) == term[s].at = "cmd" /\ CoreRuns(s)

\* A faulty variant: the change is not written.
Saves_Later(s, r) ==
  /\ Becomes(s, [term[s] EXCEPT !.user = r])
  /\ UNCHANGED <<users, differs, faults>>

\* When the write fails, the session goes on with the changed copy.
Saves(s, r) ==
  /\ Becomes(s, [term[s] EXCEPT !.user = r])
  /\ \/ upsert_user(term[s].call, r, s) /\ UNCHANGED faults
     \/ /\ faults < MaxFaults /\ faults' = faults + 1
        /\ differs' = differs \cup {s}
        /\ UNCHANGED users

own_commands == <<required, web_vars, granted, raced>>

\* NH, with the white pages entry.
SetName(s) ==
  /\ Commands(s) /\ Changes
  /\ \E v \in Names :
       /\ Saves(s, [term[s].user EXCEPT !.name = v])
       /\ wp' = IF faults' = faults THEN upsert_wp_entry(term[s].call, v) ELSE wp
  /\ UNCHANGED own_commands

\* NL, NQ, NZ, and NB, that makes a white pages entry if there is none.
SetProfile(s) ==
  /\ Commands(s) /\ Changes
  /\ \E v \in Names : Saves(s, [term[s].user EXCEPT !.rest = v])
  /\ \/ UNCHANGED wp
     \/ /\ faults' = faults /\ term[s].call \notin DOMAIN wp
        /\ wp' = upsert_wp_entry(term[s].call, 0)
  /\ UNCHANGED own_commands

\* X, O and N toggle or set one of the other columns.
SetOption(s) ==
  /\ Commands(s) /\ Changes
  /\ \E v \in Names \cup {0} : Saves(s, [term[s].user EXCEPT !.rest = v])
  /\ UNCHANGED <<wp, own_commands>>

\* O PW: the old password is compared with the copy's.
ChangePassword(s) ==
  /\ Commands(s) /\ Changes
  /\ term[s].user.pw \in Passwords
  /\ \E p \in Passwords : Saves(s, [term[s].user EXCEPT !.pw = p])
  /\ UNCHANGED <<wp, own_commands>>

-----------------------------------------------------------------------------
(***************************************************************************)
(* The sysop's dialogues: a row is read, its columns are asked for one by  *)
(* one, and the row is written.                                            *)
(***************************************************************************)

\* A faulty variant: anyone may.
MayEdit_Anyone(s) == TRUE

MayEdit(s) == term[s].user.priv = "sysop"

\* The callsigns a grant of privilege p to c by callsign b makes sysops.
Grants(b, c, p) == granted \cup IF p = "sysop" /\ b \in granted THEN {c} ELSE {}

\* EU reads,
EditUser(s) ==
  /\ Commands(s) /\ Changes /\ MayEdit(s)
  /\ \E c \in Registered :
       Becomes(s, [term[s] EXCEPT !.at = "edit", !.target = c, !.hand = users[c]])
  /\ UNCHANGED <<required, users, wp, web_vars, granted, differs, raced, faults>>

\* and writes: a blank answer keeps the privilege that was read.  The sysop's own
\* copy is not the row in hand.
EditedUser(s) ==
  LET c == term[s].target IN
  /\ term[s].at = "edit" /\ CoreRuns(s)
  /\ \E v \in Names \cup {term[s].hand.name}, p \in {"user", "sysop", term[s].hand.priv} :
       /\ upsert_user(c, [term[s].hand EXCEPT !.name = v, !.priv = p], "nobody")
       /\ granted' = IF p = term[s].hand.priv THEN granted ELSE Grants(term[s].call, c, p)
  /\ Becomes(s, [term[s] EXCEPT !.at = "cmd", !.target = "", !.hand = NoRow])
  /\ UNCHANGED <<required, wp, web_vars, raced, changes, faults>>

\* IE likewise, on a white pages entry.
EditPages(s) ==
  /\ Commands(s) /\ Changes /\ MayEdit(s)
  /\ \E c \in Calls :
       Becomes(s, [term[s] EXCEPT !.at = "wpedit", !.target = c,
                                  !.hand.name = IF c \in DOMAIN wp THEN wp[c] ELSE 0])
  /\ UNCHANGED <<required, users, wp, web_vars, granted, differs, raced, faults>>

EditedPages(s) ==
  /\ term[s].at = "wpedit" /\ CoreRuns(s)
  /\ \E v \in Names \cup {term[s].hand.name} : wp' = upsert_wp_entry(term[s].target, v)
  /\ Becomes(s, [term[s] EXCEPT !.at = "cmd", !.target = "", !.hand = NoRow])
  /\ UNCHANGED <<required, users, web_vars, granted, differs, raced, changes, faults>>

-----------------------------------------------------------------------------
(***************************************************************************)
(* The web's sessions.                                                     *)
(***************************************************************************)
terms == <<required, wp, term>>

Expired(t) == web[t].left < 0

\* SessionStore.create: the privilege is that of the moment.
Created(c) == [call |-> c, priv |-> users[c].priv, left |-> Ttl]

\* A row without a password is not asked for one.
Login ==
  /\ WebRuns
  /\ \E c \in Registered, p \in Passwords, t \in Tokens \ DOMAIN web :
       /\ users[c].pw \in {"", p}
       /\ \A x \in Tokens \ DOMAIN web : t <= x
       /\ web' = With(web, t, Created(c))
       /\ out' = out \ {t}
  /\ UNCHANGED <<terms, users, req, granted, differs, raced, changes, faults>>

Without(T) == [t \in DOMAIN web \ T |-> web[t]]

Logout ==
  /\ WebRuns
  /\ \E t \in DOMAIN web : web' = Without({t}) /\ out' = out \cup {t}
  /\ UNCHANGED <<terms, users, req, granted, differs, raced, changes, faults>>

\* A faulty variant: a session goes in its last second.
Stale_Early(t) == web[t].left <= 0

Stale(t) == web[t].left < 0

\* _prune_loop, every _PRUNE_EVERY seconds.
Prune ==
  /\ WebRuns
  /\ \E t \in DOMAIN web : Stale(t)
  /\ web' = Without({t \in DOMAIN web : Stale(t)})
  /\ UNCHANGED <<terms, users, req, out, granted, differs, raced, changes, faults>>

\* A request with an expired token takes the token away.
Refused ==
  /\ WebRuns
  /\ \E t \in DOMAIN web : Expired(t) /\ web' = Without({t})
  /\ UNCHANGED <<terms, users, req, out, granted, differs, raced, changes, faults>>

\* A sysop's request with token t.
Asks(t) ==
  /\ WebRuns /\ Changes
  /\ t \in DOMAIN web /\ ~Expired(t) /\ web[t].priv = "sysop"

SetPrivilege(t) ==
  /\ Asks(t)
  /\ \E c \in Registered, p \in Privileges :
       /\ upsert_user(c, [users[c] EXCEPT !.priv = p], "nobody")
       /\ granted' = Grants(web[t].call, c, p)
  /\ UNCHANGED <<terms, web_vars, raced, faults>>

\* Sessions of the user stay, here and at the terminals.
DeleteUser(t) ==
  /\ Asks(t)
  /\ \E c \in Registered :
       /\ users' = [x \in Registered \ {c} |-> users[x]]
       /\ differs' = differs \cup {s \in Terminals : LoggedIn(s) /\ term[s].call = c}
  /\ UNCHANGED <<terms, web_vars, granted, raced, faults>>

\* create_user and reset_password look a row up, and then write it.
CreateUser(t) ==
  /\ Asks(t)
  /\ \E c \in Calls \ Registered, p \in Passwords, v \in Privileges :
       /\ req' = [call |-> c, row |-> NewRow(v, p)]
       /\ granted' = Grants(web[t].call, c, v)
  /\ UNCHANGED <<terms, users, web, out, differs, raced, faults>>

ResetPassword(t) ==
  /\ Asks(t)
  /\ \E c \in Registered, p \in Passwords :
       req' = [call |-> c, row |-> [users[c] EXCEPT !.pw = p]]
  /\ UNCHANGED <<terms, users, web, out, granted, differs, raced, faults>>

RequestWrites ==
  /\ req # NoRequest
  /\ upsert_user(req.call, req.row, "nobody")
  /\ req' = NoRequest
  /\ UNCHANGED <<terms, web, out, granted, raced, changes, faults>>

\* Time passes; what has expired has expired.
Tick ==
  /\ \E t \in DOMAIN web : ~Expired(t)
  /\ web' = [t \in DOMAIN web |-> [web[t] EXCEPT !.left = IF Expired(t) THEN @ ELSE @ - 1]]
  /\ UNCHANGED <<terms, users, req, out, granted, differs, raced, changes, faults>>

-----------------------------------------------------------------------------
Next ==
  \/ \E s \in Terminals :
       \/ Attempt(s) \/ LoginReads(s) \/ LoginWrites(s) \/ Leave(s)
       \/ SetName(s) \/ SetProfile(s) \/ SetOption(s) \/ ChangePassword(s)
       \/ EditUser(s) \/ EditedUser(s) \/ EditPages(s) \/ EditedPages(s)
  \/ Login \/ Logout \/ Prune \/ Refused
  \/ \E t \in Tokens :
       SetPrivilege(t) \/ DeleteUser(t) \/ CreateUser(t) \/ ResetPassword(t)
  \/ RequestWrites
  \/ Tick

Spec == Init /\ [][Next]_vars

TypeOK ==
  /\ required \in BOOLEAN
  /\ Registered \subseteq Calls /\ \A c \in Registered : users[c] \in Row
  /\ DOMAIN wp \subseteq Calls /\ \A c \in DOMAIN wp : wp[c] \in Names \cup {0}
  /\ term \in [Terminals -> Session] /\ \A s \in Terminals : term[s].at = "call" => term[s].tries < 3
  /\ DOMAIN web \subseteq Tokens
  /\ \A t \in DOMAIN web :
       web[t] \in [call : Calls, priv : Privileges, left : -1 .. Ttl]
  /\ req \in [call : Calls \cup {""}, row : Row]
  /\ changes \in 0 .. MaxChanges /\ faults \in 0 .. MaxFaults
  /\ out \subseteq Tokens /\ granted \subseteq Calls /\ raced \subseteq Calls /\ differs \subseteq Terminals

\* Copies of a row are kept for as long as a session, a dialogue or a token lives,
\* and written back whole: whatever they restore, nobody is a sysop, in the table,
\* at a terminal or on the web, whom no sysop ever made one.
PrivilegeWasGranted ==
  /\ \A c \in Registered : users[c].priv = "sysop" => c \in granted
  /\ \A s \in Terminals :
       /\ term[s].user.priv = "sysop" => term[s].call \in granted
       /\ term[s].hand.priv = "sysop" => term[s].target \in granted
  /\ \A t \in DOMAIN web : web[t].priv = "sysop" => web[t].call \in granted

\* A terminal session's copy of its user is the stored row, all columns of it,
\* unless somebody else wrote that row since the session last did or the last
\* write failed.
SavedUnlessOvertaken ==
  \A s \in Terminals \ differs :
    LoggedIn(s) => term[s].call \in Registered /\ users[term[s].call] = term[s].user

\* On a node that requires passwords every row keeps one, through sessions,
\* dialogues and requests that write old copies back, and through deletions:
\* but for a callsign whose row was deleted while it logged in.
EveryAccountHasPassword ==
  required => \A c \in Registered \ raced : users[c].pw # ""

\* A web session goes when it is logged out or has expired, and at no other time.
NoLiveSessionLost ==
  [][\A t \in DOMAIN web \ DOMAIN web' : t \in out' \/ Expired(t)]_vars
=============================================================================
