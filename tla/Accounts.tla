------------------------------ MODULE Accounts ------------------------------
(***************************************************************************)
(* Accounts, password logins with a lock, consumer sessions, refresh       *)
(* tokens, and what administrators do to accounts.                         *)
(*                                                                         *)
(* Requests run concurrently, each in a session of its own, with no lock   *)
(* on the row.  The slow call of this component is bcrypt: a request that  *)
(* hashes or verifies a password has read its row before and writes after. *)
(* These requests are two steps here; every other one is a single step.    *)
(* The ORM writes a column only if its value differs from the one loaded.  *)
(***************************************************************************)
EXTENDS Naturals, FiniteSets

CONSTANTS
    Names,        \* user names; for a consumer session, its session id
    NoName,       \* the name of a row that does not exist
    AdminName,    \* settings.default_admin_username
    Guessed,      \* bound: names whose passwords are tried wrongly
    Clients,      \* requests that may be in progress at a time
    Threshold,    \* settings.login_failure_lock_threshold
    MaxAccounts,  \* bound: rows of users
    MaxFailures,  \* bound: failed_login_count
    MaxTokens,    \* bound: refresh tokens that have not expired
    MaxChanges    \* bound: changes of accounts by administrators

ASSUME AccountsAssumption ==
    /\ NoName \notin Names
    /\ AdminName \in Names
    /\ Guessed \subseteq Names
    /\ IsFiniteSet(Clients)
    /\ Threshold \in Nat \ {0}
    /\ MaxAccounts \in Nat \ {0}
    /\ MaxFailures \in Nat
    /\ MaxTokens \in Nat
    /\ MaxChanges \in Nat

VARIABLES
    name, bySession, role, status, deleted,  \* users: who it is
    failures, lock,                          \* users: failed_login_count, locked_until
    token,      \* the account a refresh token was issued to, 0 for an unused one
    revoked,    \* revoked_refresh_tokens
    request,    \* the requests between their read and their write
    tries,      \* history: wrong passwords since the account was last reset or locked
    raced,      \* history: accounts whose count or lock was written from an outdated read
    changes

row == <<name, bySession, role, status, deleted>>
counter == <<failures, lock>>
tokens == <<token, revoked>>
history == <<tries, raced>>
vars == <<row, counter, tokens, request, history, changes>>

-----------------------------------------------------------------------------
(* Types *)

Accounts == 1 .. MaxAccounts
Tokens == 1 .. MaxTokens
Roles == {"admin", "user"}
Statuses == {"active", "disabled"}

\* locked_until: NULL, in the future, in the past.
Locks == {"none", "running", "past"}

\* What a request does after its call to bcrypt, and what it has read.
Request ==
    [pc : {"idle", "verify", "insert", "reset"}, account : 0 .. MaxAccounts,
     failures : 0 .. MaxFailures, lock : Locks,
     name : Names \cup {NoName}, role : Roles,
     kind : {"none", "register", "session", "create"}]

TypeOK ==
    /\ name \in [Accounts -> Names \cup {NoName}]
    /\ bySession \in [Accounts -> BOOLEAN]
    /\ role \in [Accounts -> Roles]
    /\ status \in [Accounts -> Statuses]
    /\ deleted \in [Accounts -> BOOLEAN]
    /\ failures \in [Accounts -> 0 .. MaxFailures]
    /\ lock \in [Accounts -> Locks]
    /\ token \in [Tokens -> 0 .. MaxAccounts]
    /\ revoked \in SUBSET Tokens
    /\ request \in [Clients -> Request]
    /\ tries \in [Accounts -> Nat]
    /\ raced \in SUBSET Accounts
    /\ changes \in 0 .. MaxChanges

-----------------------------------------------------------------------------
(* Queries *)

\* get_user_by_id: rows that are not deleted.
Visible(i) == name[i] # NoName /\ ~deleted[i]

\* get_user_by_username
Named(n) == {i \in Accounts : Visible(i) /\ name[i] = n}

\* The row of a consumer session.
OfSession(n) == {i \in Named(n) : bySession[i]}

\* require_active_user
Active(i) == Visible(i) /\ status[i] # "disabled"

\* get_current_user of a request whose access token was issued with a refresh
\* token, and require_admin_user.
SignedIn(i) == Active(i) /\ \E t \in Tokens : token[t] = i
SomeAdmin == \E a \in Accounts : SignedIn(a) /\ role[a] = "admin"

Idle == [pc |-> "idle", account |-> 0, failures |-> 0, lock |-> "none",
         name |-> NoName, role |-> "user", kind |-> "none"]

\* A request that has read the row of an account, and one for a new account.
WithRow(pc, i) == [pc |-> pc, account |-> i, failures |-> failures[i], lock |-> lock[i],
                   name |-> NoName, role |-> "user", kind |-> "none"]
ForNew(n, r, kind) == [pc |-> "insert", account |-> 0, failures |-> 0, lock |-> "none",
                       name |-> n, role |-> r, kind |-> kind]

-----------------------------------------------------------------------------
(* Tokens *)

\* build_login_response: a refresh token that was never issued before.
Issue(i) ==
    \E t \in Tokens :
        /\ token[t] = 0
        /\ \A s \in Tokens : token[s] = 0 => t <= s
        /\ token' = [token EXCEPT ![t] = i]
        /\ UNCHANGED revoked

\* Faulty variant: the account behind the token is not looked up again.
RefreshUnchecked(t) ==
    /\ token[t] # 0
    /\ t \notin revoked
    /\ Issue(token[t])
    /\ UNCHANGED <<row, counter, request, history, changes>>

\* POST /auth/refresh: the token that is presented stays valid.
Refresh(t) ==
    /\ token[t] # 0
    /\ t \notin revoked
    /\ Active(token[t])
    /\ Issue(token[t])
    /\ UNCHANGED <<row, counter, request, history, changes>>

\* POST /auth/logout revokes the token that is presented, and no other.
Logout(t) ==
    /\ token[t] # 0
    /\ SignedIn(token[t])
    /\ t \notin revoked
    /\ revoked' = revoked \cup {t}
    /\ UNCHANGED <<row, counter, token, request, history, changes>>

\* After refresh_token_expire_days a token means nothing any more.
ExpireToken(t) ==
    /\ token[t] # 0
    /\ token' = [token EXCEPT ![t] = 0]
    /\ revoked' = revoked \ {t}
    /\ UNCHANGED <<row, counter, request, history, changes>>

-----------------------------------------------------------------------------
(* POST /auth/login: authenticate_user *)

\* The row is read; a lock that runs or a disabled account ends the request.
Login(c, i) ==
    /\ request[c].pc = "idle"
    /\ Visible(i)
    /\ lock[i] # "running"
    /\ status[i] # "disabled"
    /\ failures[i] < MaxFailures
    /\ request' = [request EXCEPT ![c] = WithRow("verify", i)]
    /\ UNCHANGED <<row, counter, tokens, history, changes>>

Done(c) == request' = [request EXCEPT ![c] = Idle]

\* What c has read of its account is no longer so.
Outdated(c) ==
    LET i == request[c].account IN
    request[c].failures # failures[i] \/ request[c].lock # lock[i]

RaceNoted(c) == raced' = IF Outdated(c) THEN raced \cup {request[c].account} ELSE raced

\* Faulty variant: the lock comes one wrong password late.
WrongPasswordLate(c) ==
    LET i == request[c].account
        count == request[c].failures + 1
        locks == count > Threshold
    IN
    /\ request[c].pc = "verify"
    /\ name[i] \in Guessed
    /\ failures' = [failures EXCEPT ![i] = count]
    /\ lock' = [lock EXCEPT ![i] = IF locks THEN "running" ELSE @]
    /\ tries' = [tries EXCEPT ![i] = IF locks THEN 0 ELSE @ + 1]
    /\ RaceNoted(c)
    /\ Done(c)
    /\ UNCHANGED <<row, tokens, changes>>

\* The count is the one that was read, plus one; the lock is set when it
\* reaches the threshold, and otherwise not written.
WrongPassword(c) ==
    LET i == request[c].account
        count == request[c].failures + 1
        locks == count >= Threshold
    IN
    /\ request[c].pc = "verify"
    /\ name[i] \in Guessed
    /\ failures' = [failures EXCEPT ![i] = count]
    /\ lock' = [lock EXCEPT ![i] = IF locks THEN "running" ELSE @]
    /\ tries' = [tries EXCEPT ![i] = IF locks THEN 0 ELSE @ + 1]
    /\ RaceNoted(c)
    /\ Done(c)
    /\ UNCHANGED <<row, tokens, changes>>

\* Faulty variant: both columns are written, as by an UPDATE of the whole row.
ClearedAlways(c) ==
    LET i == request[c].account IN
    /\ failures' = [failures EXCEPT ![i] = 0]
    /\ lock' = [lock EXCEPT ![i] = "none"]
    /\ tries' = [tries EXCEPT ![i] = 0]
    /\ RaceNoted(c)

\* failed_login_count = 0 and locked_until = None, each written only if c has
\* read another value.
Cleared(c) ==
    LET i == request[c].account IN
    /\ failures' = [failures EXCEPT ![i] = IF request[c].failures = 0 THEN @ ELSE 0]
    /\ lock' = [lock EXCEPT ![i] = IF request[c].lock = "none" THEN @ ELSE "none"]
    /\ tries' = [tries EXCEPT ![i] = 0]
    /\ RaceNoted(c)

RightPassword(c) ==
    /\ request[c].pc = "verify"
    /\ Cleared(c)
    /\ Issue(request[c].account)
    /\ Done(c)
    /\ UNCHANGED <<row, changes>>

\* The clock.
LockExpires(i) ==
    /\ lock[i] = "running"
    /\ lock' = [lock EXCEPT ![i] = "past"]
    /\ UNCHANGED <<row, failures, tokens, request, history, changes>>

-----------------------------------------------------------------------------
(* New accounts: checked, hashed, inserted *)

\* register_user and create_user: ensure_user_identity_available.
BeginRegister(c, n) ==
    /\ request[c].pc = "idle"
    /\ Named(n) = {}
    /\ request' = [request EXCEPT ![c] = ForNew(n, "user", "register")]
    /\ UNCHANGED <<row, counter, tokens, history, changes>>

BeginCreate(c, n, r) ==
    /\ request[c].pc = "idle"
    /\ SomeAdmin
    /\ changes < MaxChanges
    /\ changes' = changes + 1
    /\ Named(n) = {}
    /\ request' = [request EXCEPT ![c] = ForNew(n, r, "create")]
    /\ UNCHANGED <<row, counter, tokens, history>>

\* find_or_create_consumer_by_session_id without a row of that session.
BeginSession(c, n) ==
    /\ request[c].pc = "idle"
    /\ OfSession(n) = {}
    /\ request' = [request EXCEPT ![c] = ForNew(n, "user", "session")]
    /\ UNCHANGED <<row, counter, tokens, history, changes>>

\* Faulty variant: nothing but the check before the hash.
MayInsertChecked(n, kind) == TRUE

\* The unique indexes of users: names among rows that are not deleted (0019),
\* session ids among all rows (0018).
MayInsert(n, kind) ==
    /\ Named(n) = {}
    /\ kind = "session" => ~\E i \in Accounts : bySession[i] /\ name[i] = n

InsertAccount(c) ==
    LET new == request[c] IN
    /\ new.pc = "insert"
    /\ MayInsert(new.name, new.kind)
    /\ \E i \in Accounts :
        /\ name[i] = NoName
        /\ \A j \in Accounts : name[j] = NoName => i <= j
        /\ name' = [name EXCEPT ![i] = new.name]
        /\ bySession' = [bySession EXCEPT ![i] = new.kind = "session"]
        /\ role' = [role EXCEPT ![i] = new.role]
        /\ status' = [status EXCEPT ![i] = "active"]
        /\ IF new.kind = "create" THEN UNCHANGED tokens ELSE Issue(i)
    /\ Done(c)
    /\ UNCHANGED <<deleted, counter, history, changes>>

\* IntegrityError: rolled back, 409 or 500.
InsertRefused(c) ==
    /\ request[c].pc = "insert"
    /\ ~MayInsert(request[c].name, request[c].kind)
    /\ Done(c)
    /\ UNCHANGED <<row, counter, tokens, history, changes>>

-----------------------------------------------------------------------------
(* POST /auth/consumer-session *)

Unlocked(i) ==
    /\ failures' = [failures EXCEPT ![i] = 0]
    /\ lock' = [lock EXCEPT ![i] = "none"]
    /\ tries' = [tries EXCEPT ![i] = 0]
    /\ UNCHANGED raced

\* The row of a session: it is made active again, whatever it was.
ResumeSession(i) ==
    /\ Visible(i) /\ bySession[i]
    /\ role[i] = "user"
    /\ status' = [status EXCEPT ![i] = "active"]
    /\ Unlocked(i)
    /\ Issue(i)
    /\ UNCHANGED <<name, bySession, role, deleted, request, changes>>

\* A user picked by name.
ChooseUser(i) ==
    /\ Active(i)
    /\ role[i] = "user"
    /\ Unlocked(i)
    /\ Issue(i)
    /\ UNCHANGED <<row, request, changes>>

-----------------------------------------------------------------------------
(* What administrators do *)

AdminChange ==
    /\ SomeAdmin
    /\ changes < MaxChanges
    /\ changes' = changes + 1

\* Faulty variant: a role that the request does not name is written as NULL.
UpdateRoleAbsent(i, r) ==
    /\ AdminChange
    /\ Visible(i)
    /\ role' = [role EXCEPT ![i] = NoName]
    /\ UNCHANGED <<name, bySession, status, deleted, counter, tokens, request, history>>

\* The other fields of update_user are not looked at by anything here.
UpdateRole(i, r) ==
    /\ AdminChange
    /\ Visible(i)
    /\ role' = [role EXCEPT ![i] = r]
    /\ UNCHANGED <<name, bySession, status, deleted, counter, tokens, request, history>>

Disable(i) ==
    /\ AdminChange
    /\ Visible(i)
    /\ status' = [status EXCEPT ![i] = "disabled"]
    /\ UNCHANGED <<name, bySession, role, deleted, counter, tokens, request, history>>

\* Faulty variant: the lock is lifted and the count forgotten.
EnableKeepsCount(i) ==
    /\ AdminChange
    /\ Visible(i)
    /\ status' = [status EXCEPT ![i] = "active"]
    /\ lock' = [lock EXCEPT ![i] = "none"]
    /\ tries' = [tries EXCEPT ![i] = 0]
    /\ UNCHANGED <<name, bySession, role, deleted, failures, raced, tokens, request>>

Enable(i) ==
    /\ AdminChange
    /\ Visible(i)
    /\ status' = [status EXCEPT ![i] = "active"]
    /\ Unlocked(i)
    /\ UNCHANGED <<name, bySession, role, deleted, tokens, request>>

Delete(i) ==
    /\ AdminChange
    /\ Visible(i)
    /\ deleted' = [deleted EXCEPT ![i] = TRUE]
    /\ status' = [status EXCEPT ![i] = "disabled"]
    /\ UNCHANGED <<name, bySession, role, counter, tokens, request, history>>

\* reset_password: the row is read, the new password hashed, the row written.
BeginReset(c, i) ==
    /\ AdminChange
    /\ request[c].pc = "idle"
    /\ Visible(i)
    /\ request' = [request EXCEPT ![c] = WithRow("reset", i)]
    /\ UNCHANGED <<row, counter, tokens, history>>

ResetPassword(c) ==
    /\ request[c].pc = "reset"
    /\ Cleared(c)
    /\ Done(c)
    /\ UNCHANGED <<row, tokens, changes>>

-----------------------------------------------------------------------------
(* The process *)

\* It dies, and with it the requests; it starts again, and finds its default
\* administrator, or the deleted row of it, which it takes for one.
Crash ==
    /\ request # [c \in Clients |-> Idle]
    /\ request' = [c \in Clients |-> Idle]
    /\ UNCHANGED <<row, counter, tokens, history, changes>>

\* After the first start: create_default_admin.
Init ==
    /\ name = [i \in Accounts |-> IF i = 1 THEN AdminName ELSE NoName]
    /\ bySession = [i \in Accounts |-> FALSE]
    /\ role = [i \in Accounts |-> IF i = 1 THEN "admin" ELSE "user"]
    /\ status = [i \in Accounts |-> "active"]
    /\ deleted = [i \in Accounts |-> FALSE]
    /\ failures = [i \in Accounts |-> 0]
    /\ lock = [i \in Accounts |-> "none"]
    /\ token = [t \in Tokens |-> 0]
    /\ revoked = {}
    /\ request = [c \in Clients |-> Idle]
    /\ tries = [i \in Accounts |-> 0]
    /\ raced = {}
    /\ changes = 0

SignIn(c) ==
    \/ \E i \in Accounts : Login(c, i)
    \/ WrongPassword(c)
    \/ RightPassword(c)

SignUp(c) ==
    \/ \E n \in Names : BeginRegister(c, n) \/ BeginSession(c, n)
    \/ \E n \in Names, r \in Roles : BeginCreate(c, n, r)
    \/ InsertAccount(c)
    \/ InsertRefused(c)

Reset(c) == (\E i \in Accounts : BeginReset(c, i)) \/ ResetPassword(c)

OfToken(t) == Refresh(t) \/ Logout(t) \/ ExpireToken(t)

OfAccount(i) ==
    \/ LockExpires(i)
    \/ ResumeSession(i) \/ ChooseUser(i)
    \/ \E r \in Roles : UpdateRole(i, r)
    \/ Disable(i) \/ Enable(i) \/ Delete(i)

Next ==
    \/ \E c \in Clients : SignIn(c) \/ SignUp(c) \/ Reset(c)
    \/ \E t \in Tokens : OfToken(t)
    \/ \E i \in Accounts : OfAccount(i)
    \/ Crash

Spec == Init /\ [][Next]_vars

-----------------------------------------------------------------------------
(* Safety *)

\* As long as nobody wrote over an outdated read, count and lock agree with
\* what happened: an account is locked, or was until the lock expired, exactly
\* when its count has reached the threshold, and an account that is not counts
\* every wrong password since it was last reset.  Logins, resets, sessions,
\* enabling and the clock write these columns.
CountFollowsTries ==
    \A i \in Accounts \ raced :
        /\ lock[i] = "none" <=> failures[i] < Threshold
        /\ lock[i] = "none" => failures[i] = tries[i]

\* The number of wrong passwords that n concurrent requests can get through
\* before a lock at threshold k: each may hold one outdated count.
Ways[w \in (0 .. Cardinality(Clients)) \X (0 .. Threshold)] ==
    LET n == w[1]
        k == w[2]
    IN  IF n = 0 THEN 1 ELSE IF k = 0 THEN 0 ELSE Ways[<<n, k - 1>>] + Ways[<<n - 1, k>>]

\* Concurrent attempts lose counts (failed_login_count is read, incremented
\* and written), and can delay the lock, but only by so much: it always comes.
LockComesAnyway ==
    \A i \in Accounts : tries[i] < Ways[<<Cardinality(Clients), Threshold>>]

\* A login or a password reset that was under way when the account was locked
\* does not lift the lock, unless it had read an older lock that expired.
LockOutlivesRequests ==
    [][\A c \in Clients : LET i == request[c].account IN
        (/\ request[c].pc \in {"verify", "reset"} /\ request'[c] = Idle
         /\ lock[i] = "running" /\ request[c].lock = "none")
            => lock'[i] = "running"]_vars

\* A name identifies one account among those that are not deleted, a session
\* id one among all, although the check for it is made before a slow hash and
\* requests for the same name overlap.
NamesIdentify ==
    \A i, j \in Accounts :
        (i # j /\ name[i] = name[j] /\ name[i] # NoName)
            => /\ deleted[i] \/ deleted[j]
               /\ ~(bySession[i] /\ bySession[j])

\* A deleted account stays deleted and disabled, whatever request is still
\* under way for it and whoever signs in by its name or session.
DeletedForEver ==
    [][\A i \in Accounts : deleted[i] =>
        deleted'[i] /\ status'[i] = "disabled" /\ name'[i] = name[i]]_vars

\* Tokens are issued only to accounts that are active when the answer is
\* made, with one exception: a login whose password was being verified while
\* its account was disabled or deleted.
TokensForActive ==
    [][\A t \in Tokens : (token[t] = 0 /\ token'[t] # 0) =>
        \/ \E i \in Accounts : token'[t] = i /\ Active(i)'
        \/ \E c \in Clients : request[c].pc = "verify" /\ request[c].account = token'[t]]_vars
=============================================================================
