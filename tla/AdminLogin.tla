----------------------------- MODULE AdminLogin -----------------------------
(***************************************************************************)
(* The administrator's login (service/settings_auth_service.py and the      *)
(* login, logout and session routes): the failures of each client address   *)
(* and the open sessions, both in memory and both capped, under one lock.   *)
(* The credentials in force are replaced under another one, at any time.    *)
(***************************************************************************)
EXTENDS Naturals, SequencesExt

CONSTANTS Clients,      \* client addresses, one browser each
          Passwords,    \* what the credentials can be and what can be typed
          MaxFailures,  \* MAX_FAILURES
          LockTime,     \* LOCK_SECONDS
          SessionTime,  \* session_minutes
          MaxTracked,   \* MAX_TRACKED, of failures and of sessions
          MaxClock,     \* bound: time
          MaxLogins     \* bound: logins

ASSUME LimitsPositive ==
  /\ MaxFailures \in Nat \ {0} /\ LockTime \in Nat \ {0}
  /\ SessionTime \in Nat \ {0} /\ MaxTracked \in Nat \ {0}
ASSUME LoginBounds == MaxClock \in Nat \ {0} /\ MaxLogins \in Nat

VARIABLES now,       \* the clock
          cred,      \* the credentials in force
          failures,  \* the failures of the clients that are tracked
          sessions,  \* the open sessions, by their token
          checking,  \* the login that is being verified, if any
          cookie,    \* the session of each browser: 0 for none
          fresh,     \* the session a browser is about to be given
          logins,    \* logins so far; each has a token of its own number
          wrong      \* when each client failed since its last success

loginVars == <<now, cred, failures, sessions, checking, cookie, fresh, logins, wrong>>

Clock == 0..MaxClock
Tokens == 1..MaxLogins
Failure == [attempts: 0..MaxFailures, until: 0..(MaxClock + LockTime), last: Clock]
NoFailure == [attempts |-> 0, until |-> 0, last |-> 0]
Session == [until: 1..(MaxClock + SessionTime), cred: Passwords]

LoginInit ==
  /\ now = 1
  /\ cred \in Passwords
  /\ failures = <<>>
  /\ sessions = <<>>
  /\ checking = {}
  /\ cookie = [c \in Clients |-> 0]
  /\ fresh = [c \in Clients |-> 0]
  /\ logins = 0
  /\ wrong = [c \in Clients |-> <<>>]

-----------------------------------------------------------------------------
(* The failures of a client *)

(* Mutant of Tracked: at the cap every failure is forgotten, whether it     *)
(* still counts or not.                                                     *)
MutTrackedForgets(c) ==
  IF c \in DOMAIN failures \/ Cardinality(DOMAIN failures) < MaxTracked
    THEN failures
    ELSE <<>>

(* _get_active_failure: at the cap, failures that no longer count go.       *)
Tracked(c) ==
  IF c \in DOMAIN failures \/ Cardinality(DOMAIN failures) < MaxTracked
    THEN failures
    ELSE Restrict(failures, {d \in DOMAIN failures : now - failures[d].last < LockTime})

Full(c) == c \notin DOMAIN Tracked(c) /\ Cardinality(DOMAIN Tracked(c)) >= MaxTracked

Renewed(f) ==
  IF f.until # 0 /\ f.until <= now
    THEN [f EXCEPT !.attempts = 0, !.until = 0]
  ELSE IF f.attempts # 0 /\ now - f.last >= LockTime
    THEN [f EXCEPT !.attempts = 0]
  ELSE f

Active(c) == Renewed(IF c \in DOMAIN Tracked(c) THEN Tracked(c)[c] ELSE NoFailure)

With(c, f) == [d \in DOMAIN Tracked(c) \union {c} |-> IF d = c THEN f ELSE Tracked(c)[d]]

-----------------------------------------------------------------------------
(* Logging in *)

Refused(c) == Full(c) \/ Active(c).until > now

(* authenticate, when no attempt is looked at: 429.                         *)
Refuse(c) ==
  /\ checking = {}
  /\ Refused(c)
  /\ failures' = IF Full(c) THEN Tracked(c) ELSE With(c, Active(c))
  /\ UNCHANGED <<now, cred, sessions, checking, cookie, fresh, logins, wrong>>

(* authenticate: the attempt is looked at, with the credentials of this     *)
(* moment; the lock is held until it is known whether they match.           *)
Attempt(c, password) ==
  /\ checking = {}
  /\ fresh[c] = 0
  /\ logins < MaxLogins
  /\ ~ Refused(c)
  /\ failures' = With(c, Active(c))
  /\ checking' = {[client |-> c, right |-> password = cred, at |-> now]}
  /\ logins' = logins + 1
  /\ UNCHANGED <<now, cred, sessions, cookie, fresh, wrong>>

Mismatch(c) ==
  \E k \in checking :
    /\ k.client = c /\ ~ k.right
    /\ LET n == failures[c].attempts + 1 IN
       failures' = [failures EXCEPT ![c] =
         [attempts |-> n, last |-> k.at,
          until |-> IF n >= MaxFailures THEN k.at + LockTime ELSE @.until]]
    /\ wrong' = [wrong EXCEPT ![c] = Append(@, k.at)]
    /\ checking' = {}
    /\ UNCHANGED <<now, cred, sessions, cookie, fresh, logins>>

(* _cleanup_sessions *)
Unexpired(t) ==
  Restrict(sessions, {s \in DOMAIN sessions : sessions[s].until > t})

(* Mutant of Room: at the cap, the youngest goes. *)
MutRoomDropsYoungest(t) ==
  IF Cardinality(DOMAIN Unexpired(t)) >= MaxTracked
    THEN Restrict(sessions, DOMAIN Unexpired(t) \ {Max(DOMAIN Unexpired(t))})
    ELSE Unexpired(t)

(* Mutant of Room: only the expired sessions go. *)
MutRoomUncapped(t) == Unexpired(t)

(* Room for another session: the expired go, and at the cap the oldest,     *)
(* which is the one that was inserted first.                                *)
Room(t) ==
  IF Cardinality(DOMAIN Unexpired(t)) >= MaxTracked
    THEN Restrict(sessions, DOMAIN Unexpired(t) \ {Min(DOMAIN Unexpired(t))})
    ELSE Unexpired(t)

Insert(table, token, session) ==
  [s \in DOMAIN table \union {token} |-> IF s = token THEN session ELSE table[s]]

(* The session has the fingerprint of the credentials of this moment.       *)
Match(c) ==
  \E k \in checking :
    /\ k.client = c /\ k.right
    /\ failures' = Restrict(failures, DOMAIN failures \ {c})
    /\ sessions' = Insert(Room(k.at), logins, [until |-> k.at + SessionTime, cred |-> cred])
    /\ fresh' = [fresh EXCEPT ![c] = logins]
    /\ wrong' = [wrong EXCEPT ![c] = <<>>]
    /\ checking' = {}
    /\ UNCHANGED <<now, cred, cookie, logins>>

(* revoke *)
Without(token) == Restrict(sessions, DOMAIN sessions \ {token})

(* login, after authenticate: the browser's last session is revoked and the *)
(* new one takes its place.                                                 *)
Welcome(c) ==
  /\ checking = {}
  /\ fresh[c] # 0
  /\ sessions' = Without(cookie[c])
  /\ cookie' = [cookie EXCEPT ![c] = fresh[c]]
  /\ fresh' = [fresh EXCEPT ![c] = 0]
  /\ UNCHANGED <<now, cred, failures, checking, logins, wrong>>

Logout(c) ==
  /\ checking = {}
  /\ cookie[c] # 0
  /\ sessions' = Without(cookie[c])
  /\ cookie' = [cookie EXCEPT ![c] = 0]
  /\ UNCHANGED <<now, cred, failures, checking, fresh, logins, wrong>>

(* validate: the session is there, not expired, and opened under the        *)
(* credentials in force.                                                    *)
Valid(token) ==
  token \in DOMAIN sessions /\ sessions[token].until > now /\ sessions[token].cred = cred

(* validate, for any request of the browser: the expired sessions go.       *)
Validate(c) ==
  /\ checking = {}
  /\ cookie[c] # 0
  /\ sessions' = Unexpired(now)
  /\ UNCHANGED <<now, cred, failures, checking, cookie, fresh, logins, wrong>>

-----------------------------------------------------------------------------
(* The clock, the configuration and restarts *)

Tick ==
  /\ now < MaxClock
  /\ now' = now + 1
  /\ UNCHANGED <<cred, failures, sessions, checking, cookie, fresh, logins, wrong>>

(* replace_config with other credentials. *)
ReplaceCredentials ==
  /\ cred' \in Passwords \ {cred}
  /\ UNCHANGED <<now, failures, sessions, checking, cookie, fresh, logins, wrong>>

(* What is in memory is gone. *)
Reboot ==
  /\ failures' = <<>>
  /\ sessions' = <<>>
  /\ checking' = {}
  /\ fresh' = [c \in Clients |-> 0]
  /\ wrong' = [c \in Clients |-> <<>>]
  /\ UNCHANGED <<now, cred, cookie, logins>>

LoginNext ==
  \/ \E c \in Clients :
       \/ \E p \in Passwords : Attempt(c, p)
       \/ Refuse(c) \/ Mismatch(c) \/ Match(c) \/ Welcome(c) \/ Logout(c) \/ Validate(c)
  \/ Tick \/ ReplaceCredentials \/ Reboot

LoginSpec == LoginInit /\ [][LoginNext]_loginVars

-----------------------------------------------------------------------------
(* Properties *)

(* The variables have their types; neither table outgrows its cap. *)
LoginTypeOK ==
  /\ now \in Clock /\ cred \in Passwords
  /\ DOMAIN failures \subseteq Clients
  /\ \A c \in DOMAIN failures : failures[c] \in Failure
  /\ Cardinality(DOMAIN failures) <= MaxTracked
  /\ DOMAIN sessions \subseteq Tokens
  /\ \A s \in DOMAIN sessions : sessions[s] \in Session
  /\ Cardinality(DOMAIN sessions) <= MaxTracked
  /\ checking \subseteq [client: Clients, right: BOOLEAN, at: Clock]
  /\ Cardinality(checking) <= 1
  /\ cookie \in [Clients -> 0..MaxLogins] /\ fresh \in [Clients -> 0..MaxLogins]
  /\ logins \in 0..MaxLogins

(* No client has more than MAX_FAILURES attempts looked at within any       *)
(* LOCK_SECONDS, unless it logs in or the process starts anew: however the  *)
(* attempts are spread, whatever other clients do, and although the table   *)
(* of failures is cleared out when it is full.                              *)
LockoutHolds ==
  \A c \in Clients : \A t \in Clock :
    Cardinality({i \in DOMAIN wrong[c] : wrong[c][i] \in t..(t + LockTime - 1)}) <= MaxFailures

(* A session a browser holds, unexpired and of the credentials in force,    *)
(* is closed only when the browser logs out or in again, when the process   *)
(* starts anew, or when as many younger sessions are open as are kept:      *)
(* never by another browser's logout or by the clearing out.                *)
SessionsStand ==
  [][\A c \in Clients :
       Valid(cookie[c]) /\ cookie[c] \notin DOMAIN sessions' =>
         \/ cookie'[c] # cookie[c]
         \/ Reboot
         \/ Cardinality({s \in DOMAIN sessions' : s > cookie[c]}) >= MaxTracked]_loginVars
=============================================================================
