---------------------------- MODULE ComputeForm ----------------------------
(***************************************************************************)
(* The tab of the lab that keeps the credentials of the computing grid:    *)
(* secrets typed, saved encrypted and never shown again, and a test of the *)
(* connection the server runs with what it has. The tab may be left and    *)
(* opened again; the password stands for both secrets.                     *)
(***************************************************************************)
EXTENDS Integers

CONSTANTS Logins, Secrets, None,
  MaxMoves    \* bound on what the user does

VARIABLES
  stored,     \* the server's credential: login, secret, verdict of its test
  tests,      \* the secrets being tested by the server
  overlapped, \* whether a credential was saved while another was tested
  configured, known,   \* what the page has been told
  login, secret,       \* what is typed
  busy,       \* what the page waits for: None, "save", "test" or "refresh"
  asked,      \* the credential being saved
  moves

vars == <<stored, tests, overlapped, configured, known, login, secret, busy, asked, moves>>
server == <<stored, tests, overlapped>>
fields == <<login, secret>>

Init ==
  /\ stored = None /\ tests = {} /\ overlapped = FALSE
  /\ configured = TRUE /\ known = None /\ login = None /\ secret = None
  /\ busy = None /\ asked = None /\ moves = 0

Moved == moves < MaxMoves /\ moves' = moves + 1
TypeLogin(l) == Moved /\ configured /\ l # login /\ login' = l /\ UNCHANGED <<server, configured, known, secret, busy, asked>>
TypeSecret(s) == Moved /\ configured /\ s # secret /\ secret' = s /\ UNCHANGED <<server, configured, known, login, busy, asked>>

\* The refreshing fills the login with what is stored, whatever is typed.
Told ==
  /\ configured' = TRUE /\ known' = stored
  /\ login' = IF stored = None THEN login ELSE stored.login
Refresh ==
  /\ busy \in {None, "refresh"} /\ Told /\ busy' = None
  /\ known # stored \/ busy = "refresh" \/ ~configured
  /\ UNCHANGED <<server, secret, asked, moves>>
RefreshFails == busy = "refresh" /\ configured' = FALSE /\ busy' = None
  /\ UNCHANGED <<server, known, fields, asked, moves>>

Save ==
  /\ Moved /\ configured /\ busy = None /\ login # None
  /\ secret # None \/ known # None
  /\ busy' = "save" /\ asked' = [login |-> login, secret |-> secret]
  /\ UNCHANGED <<server, configured, known, fields>>
\* A bug: the verdict of the former secret stays.
VerdictKept(a) == [login |-> a.login, secret |-> a.secret, verdict |-> IF stored = None THEN None ELSE stored.verdict]
\* An absent secret leaves the stored one; any saving forgets the test.
Written(a) ==
  [login |-> a.login, secret |-> IF a.secret = None THEN stored.secret ELSE a.secret, verdict |-> None]
\* The secrets leave the browser with the saving, what was typed since included.
Saved ==
  /\ busy = "save" /\ (asked.secret # None \/ stored # None)
  /\ stored' = Written(asked) /\ overlapped' = (overlapped \/ tests # {})
  /\ secret' = None /\ busy' = "refresh" /\ asked' = None
  /\ UNCHANGED <<tests, configured, known, login, moves>>
SaveFails == busy = "save" /\ busy' = None /\ asked' = None
  /\ UNCHANGED <<server, configured, known, fields, moves>>

Test ==
  /\ Moved /\ known # None /\ busy = None /\ stored # None
  /\ busy' = "test" /\ tests' = tests \cup {stored.secret}
  /\ UNCHANGED <<stored, overlapped, configured, known, fields, asked>>
Tested(s) ==
  /\ tests' = tests \ {s} /\ stored' = [stored EXCEPT !.verdict = s]
  /\ busy' = IF busy = "test" THEN "refresh" ELSE busy
  /\ UNCHANGED <<overlapped, configured, known, fields, asked, moves>>
\* The tab left and opened again knows nothing of what it had asked.
Reopen ==
  /\ Moved /\ configured' = TRUE /\ known' = None /\ login' = None /\ secret' = None
  /\ asked' = None /\ busy' = None /\ busy # "save"
  /\ UNCHANGED server
Delete ==
  /\ Moved /\ stored # None /\ tests = {} /\ busy = None /\ stored' = None
  /\ UNCHANGED <<tests, overlapped, configured, known, fields, busy, asked>>

Next ==
  \/ \E l \in Logins : TypeLogin(l)
  \/ \E s \in Secrets : TypeSecret(s)
  \/ \E s \in tests : Tested(s)
  \/ Refresh \/ RefreshFails \/ Save \/ Saved \/ SaveFails \/ Test \/ Reopen \/ Delete
-----------------------------------------------------------------------------
\* The verdict kept with a credential is that of its secret, unless one was saved while
\* another was being tested, which the page prevents until it is left.
VerdictIsOfTheSecret ==
  stored # None /\ ~overlapped => stored.verdict \in {None, stored.secret}
\* Refuted by a test still running when its tab was left and a secret saved.
VerdictAlwaysOfTheSecret == stored # None => stored.verdict \in {None, stored.secret}
=============================================================================
