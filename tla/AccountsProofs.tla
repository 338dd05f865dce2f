---------------------------- MODULE AccountsProofs ----------------------------
(***************************************************************************)
(* Proofs about Accounts, for any number of accounts, names, tokens,       *)
(* concurrent requests and changes, and any threshold of the lock.         *)
(***************************************************************************)
EXTENDS Accounts, FiniteSetTheorems, WellFoundedInduction, TLAPS

-----------------------------------------------------------------------------
(* The invariant *)

\* What a request needs when it comes back from bcrypt.
MayGoOn(req) ==
    /\ req.pc \in {"verify", "reset"} => req.account \in Accounts
    /\ req.pc = "verify" => req.failures < MaxFailures /\ req.lock # "running"
    /\ req.pc = "insert" => req.name \in Names

RequestsMayGoOn == \A c \in Clients : MayGoOn(request[c])

DeletedAreDisabled ==
    \A i \in Accounts : deleted[i] => status[i] = "disabled" /\ name[i] # NoName

Sound == TypeOK /\ RequestsMayGoOn /\ DeletedAreDisabled

AccountsInv == Sound /\ NamesIdentify /\ CountFollowsTries

-----------------------------------------------------------------------------
(* The parts of a step *)

LEMMA IdleTyped == Idle \in Request /\ MayGoOn(Idle) /\ Idle.pc = "idle"
  BY AccountsAssumption DEF Idle, Request, Locks, Roles, MayGoOn

LEMMA IssueTyped ==
    ASSUME TypeOK, NEW i \in Accounts, Issue(i)
    PROVE  token' \in [Tokens -> 0 .. MaxAccounts] /\ revoked' = revoked
  BY AccountsAssumption DEF TypeOK, Issue, Accounts

LEMMA RequestKeeps ==
    ASSUME Sound, NEW c \in Clients, NEW req \in Request, MayGoOn(req),
           request' = [request EXCEPT ![c] = req]
    PROVE  request' \in [Clients -> Request] /\ RequestsMayGoOn'
  BY DEF Sound, TypeOK, RequestsMayGoOn, MayGoOn

\* A step that is about requests and tokens only.
LEMMA SameRowsKeep ==
    ASSUME AccountsInv, UNCHANGED <<row, counter, history>>,
           request' \in [Clients -> Request], RequestsMayGoOn',
           token' \in [Tokens -> 0 .. MaxAccounts], revoked' \in SUBSET Tokens,
           changes' \in 0 .. MaxChanges
    PROVE  AccountsInv'
<1>. USE DEF AccountsInv, Sound, row, counter, history
<1>1. TypeOK'
  BY DEF TypeOK
<1>2. DeletedAreDisabled' /\ NamesIdentify' /\ CountFollowsTries'
  BY DEF DeletedAreDisabled, NamesIdentify, CountFollowsTries
<1>. QED
  BY <1>1, <1>2

\* A step that inserts no account.
LEMMA NoInsertKeeps ==
    ASSUME NamesIdentify, UNCHANGED <<name, bySession>>,
           \A i \in Accounts : deleted[i] => deleted'[i]
    PROVE  NamesIdentify'
  BY DEF NamesIdentify

LEMMA UnlockedKeeps ==
    ASSUME AccountsInv, NEW i \in Accounts, Unlocked(i)
    PROVE  /\ failures' \in [Accounts -> 0 .. MaxFailures]
           /\ lock' \in [Accounts -> Locks]
           /\ tries' \in [Accounts -> Nat] /\ raced' \in SUBSET Accounts
           /\ CountFollowsTries'
  BY AccountsAssumption
  DEF AccountsInv, Sound, TypeOK, Unlocked, Locks, CountFollowsTries

LEMMA ClearedKeeps ==
    ASSUME AccountsInv, NEW c \in Clients, request[c].account \in Accounts, Cleared(c)
    PROVE  /\ failures' \in [Accounts -> 0 .. MaxFailures]
           /\ lock' \in [Accounts -> Locks]
           /\ tries' \in [Accounts -> Nat] /\ raced' \in SUBSET Accounts
           /\ CountFollowsTries'
  BY AccountsAssumption
  DEF AccountsInv, Sound, TypeOK, Cleared, RaceNoted, Outdated, Locks, CountFollowsTries

-----------------------------------------------------------------------------
(* The steps *)

LEMMA SignInKeeps ==
    ASSUME AccountsInv, NEW c \in Clients, SignIn(c)
    PROVE  AccountsInv'
<1>. USE DEF AccountsInv, Sound
<1>1. ASSUME NEW i \in Accounts, Login(c, i)
      PROVE  AccountsInv'
  <2>1. WithRow("verify", i) \in Request /\ MayGoOn(WithRow("verify", i))
    BY <1>1, AccountsAssumption
    DEF Login, TypeOK, WithRow, Request, Locks, Roles, MayGoOn, Accounts
  <2>. QED
    BY <1>1, <2>1, RequestKeeps, SameRowsKeep DEF Login, tokens, TypeOK
<1>2. CASE WrongPassword(c)
  <2>. DEFINE i == request[c].account
              count == request[c].failures + 1
  <2>1. /\ i \in Accounts /\ request[c].lock # "running"
        /\ request[c].failures \in Nat /\ request[c].failures < MaxFailures
    BY <1>2 DEF WrongPassword, RequestsMayGoOn, MayGoOn, TypeOK, Request
  <2>2. /\ failures' = [failures EXCEPT ![i] = count]
        /\ lock' = [lock EXCEPT ![i] = IF count >= Threshold THEN "running" ELSE @]
        /\ tries' = [tries EXCEPT ![i] = IF count >= Threshold THEN 0 ELSE @ + 1]
        /\ raced' = IF request[c].failures # failures[i] \/ request[c].lock # lock[i]
                      THEN raced \cup {i} ELSE raced
        /\ UNCHANGED <<row, tokens, changes>>
    BY <1>2 DEF WrongPassword, RaceNoted, Outdated
  <2>3. request' = [request EXCEPT ![c] = Idle]
    BY <1>2 DEF WrongPassword, Done
  <2>. HIDE DEF i
  <2>4. TypeOK'
    BY <2>1, <2>2, <2>3, IdleTyped, RequestKeeps, AccountsAssumption
    DEF TypeOK, row, tokens, Locks
  <2>5. RequestsMayGoOn'
    BY <2>3, IdleTyped, RequestKeeps
  <2>6. DeletedAreDisabled' /\ NamesIdentify'
    BY <2>2, NoInsertKeeps DEF row, DeletedAreDisabled
  <2>7. CountFollowsTries'
    BY <2>1, <2>2, AccountsAssumption DEF TypeOK, CountFollowsTries, Locks
  <2>. QED
    BY <2>4, <2>5, <2>6, <2>7
<1>3. CASE RightPassword(c)
  <2>1. request[c].account \in Accounts
    BY <1>3 DEF RightPassword, RequestsMayGoOn, MayGoOn
  <2>2. request' = [request EXCEPT ![c] = Idle]
    BY <1>3 DEF RightPassword, Done
  <2>3. Cleared(c) /\ Issue(request[c].account) /\ UNCHANGED <<row, changes>>
    BY <1>3 DEF RightPassword
  <2>4. TypeOK'
    BY <2>1, <2>2, <2>3, IdleTyped, IssueTyped, RequestKeeps, ClearedKeeps DEF TypeOK, row
  <2>5. RequestsMayGoOn'
    BY <2>2, IdleTyped, RequestKeeps
  <2>6. DeletedAreDisabled' /\ NamesIdentify'
    BY <2>3, NoInsertKeeps DEF row, DeletedAreDisabled
  <2>. QED
    BY <2>1, <2>3, <2>4, <2>5, <2>6, ClearedKeeps
<1>. QED
  BY <1>1, <1>2, <1>3 DEF SignIn

LEMMA SignUpKeeps ==
    ASSUME AccountsInv, NEW c \in Clients, SignUp(c)
    PROVE  AccountsInv'
<1>. USE DEF AccountsInv, Sound
<1>1. ASSUME NEW n \in Names, NEW r \in Roles, NEW k \in {"register", "session", "create"}
      PROVE  ForNew(n, r, k) \in Request /\ MayGoOn(ForNew(n, r, k))
  BY AccountsAssumption DEF ForNew, Request, Locks, MayGoOn
<1>2. "user" \in Roles
  BY DEF Roles
<1>3. ASSUME NEW n \in Names, BeginRegister(c, n)
      PROVE  AccountsInv'
  BY <1>1, <1>2, <1>3, RequestKeeps, SameRowsKeep DEF BeginRegister, tokens, TypeOK
<1>4. ASSUME NEW n \in Names, BeginSession(c, n)
      PROVE  AccountsInv'
  BY <1>1, <1>2, <1>4, RequestKeeps, SameRowsKeep DEF BeginSession, tokens, TypeOK
<1>5. ASSUME NEW n \in Names, NEW r \in Roles, BeginCreate(c, n, r)
      PROVE  AccountsInv'
  <2>1. changes' \in 0 .. MaxChanges
    BY <1>5, AccountsAssumption DEF BeginCreate, TypeOK
  <2>. QED
    BY <1>1, <1>5, <2>1, RequestKeeps, SameRowsKeep DEF BeginCreate, tokens, TypeOK
<1>6. CASE InsertAccount(c)
  <2>. DEFINE req == request[c]
  <2>1. PICK i \in Accounts :
          /\ name[i] = NoName
          /\ name' = [name EXCEPT ![i] = req.name]
          /\ bySession' = [bySession EXCEPT ![i] = req.kind = "session"]
          /\ role' = [role EXCEPT ![i] = req.role]
          /\ status' = [status EXCEPT ![i] = "active"]
          /\ UNCHANGED tokens \/ Issue(i)
    BY <1>6 DEF InsertAccount
  <2>2. /\ req.name \in Names /\ MayInsert(req.name, req.kind) /\ req.role \in Roles
        /\ UNCHANGED <<deleted, counter, history, changes>>
        /\ request' = [request EXCEPT ![c] = Idle]
    BY <1>6 DEF InsertAccount, RequestsMayGoOn, MayGoOn, Done, TypeOK, Request
  <2>. HIDE DEF req
  <2>3. request' \in [Clients -> Request] /\ RequestsMayGoOn'
    BY <2>2, IdleTyped, RequestKeeps
  <2>4. token' \in [Tokens -> 0 .. MaxAccounts] /\ revoked' \in SUBSET Tokens
    BY <2>1, IssueTyped DEF TypeOK, tokens
  <2>5. TypeOK'
    BY <2>1, <2>2, <2>3, <2>4 DEF TypeOK, Statuses, counter, history
  <2>6. DeletedAreDisabled'
    BY <2>1, <2>2 DEF DeletedAreDisabled, TypeOK
  <2>7. NamesIdentify'
    <3>1. \A j \in Accounts : name[j] = req.name =>
            deleted[j] /\ (req.kind = "session" => ~bySession[j])
      BY <2>2, AccountsAssumption DEF MayInsert, Named, Visible, TypeOK
    <3>2. \A j \in Accounts \ {i} : name'[j] = name[j] /\ bySession'[j] = bySession[j]
      BY <2>1 DEF TypeOK
    <3>3. name'[i] = req.name /\ bySession'[i] = (req.kind = "session")
      BY <2>1 DEF TypeOK
    <3>4. \A j \in Accounts \ {i} : name'[j] = req.name =>
            deleted'[j] /\ ~(bySession'[i] /\ bySession'[j])
      BY <2>2, <3>1, <3>2, <3>3
    <3>. QED
      BY <2>2, <3>2, <3>3, <3>4 DEF NamesIdentify
  <2>8. CountFollowsTries'
    BY <2>2 DEF CountFollowsTries, counter, history
  <2>. QED
    BY <2>3, <2>5, <2>6, <2>7, <2>8
<1>7. CASE InsertRefused(c)
  BY <1>7, IdleTyped, RequestKeeps, SameRowsKeep DEF InsertRefused, Done, tokens, TypeOK
<1>. QED
  BY <1>3, <1>4, <1>5, <1>6, <1>7 DEF SignUp

LEMMA ResetKeeps ==
    ASSUME AccountsInv, NEW c \in Clients, Reset(c)
    PROVE  AccountsInv'
<1>. USE DEF AccountsInv, Sound
<1>1. ASSUME NEW i \in Accounts, BeginReset(c, i)
      PROVE  AccountsInv'
  <2>1. WithRow("reset", i) \in Request /\ MayGoOn(WithRow("reset", i))
    BY AccountsAssumption DEF TypeOK, WithRow, Request, Locks, Roles, MayGoOn, Accounts
  <2>2. changes' \in 0 .. MaxChanges
    BY <1>1, AccountsAssumption DEF BeginReset, AdminChange, TypeOK
  <2>. QED
    BY <1>1, <2>1, <2>2, RequestKeeps, SameRowsKeep DEF BeginReset, tokens, TypeOK
<1>2. CASE ResetPassword(c)
  <2>1. /\ request[c].account \in Accounts
        /\ Cleared(c) /\ UNCHANGED <<row, tokens, changes>>
        /\ request' = [request EXCEPT ![c] = Idle]
    BY <1>2 DEF ResetPassword, RequestsMayGoOn, MayGoOn, Done
  <2>2. TypeOK'
    BY <2>1, IdleTyped, RequestKeeps, ClearedKeeps DEF TypeOK, row, tokens
  <2>3. RequestsMayGoOn'
    BY <2>1, IdleTyped, RequestKeeps
  <2>4. DeletedAreDisabled' /\ NamesIdentify'
    BY <2>1, NoInsertKeeps DEF row, DeletedAreDisabled
  <2>. QED
    BY <2>1, <2>2, <2>3, <2>4, ClearedKeeps
<1>. QED
  BY <1>1, <1>2 DEF Reset

LEMMA TokenKeeps ==
    ASSUME AccountsInv, NEW t \in Tokens, OfToken(t)
    PROVE  AccountsInv'
<1>. USE DEF AccountsInv, Sound, TypeOK
<1>1. UNCHANGED request => RequestsMayGoOn'
  BY DEF RequestsMayGoOn
<1>2. CASE Refresh(t)
  <2>1. token[t] \in Accounts
    BY <1>2, AccountsAssumption DEF Refresh, Accounts
  <2>. QED
    BY <1>1, <1>2, <2>1, IssueTyped, SameRowsKeep DEF Refresh
<1>3. CASE Logout(t)
  BY <1>1, <1>3, SameRowsKeep DEF Logout
<1>4. CASE ExpireToken(t)
  BY <1>1, <1>4, SameRowsKeep, AccountsAssumption DEF ExpireToken
<1>. QED
  BY <1>2, <1>3, <1>4 DEF OfToken

LEMMA AccountKeeps ==
    ASSUME AccountsInv, NEW i \in Accounts, OfAccount(i)
    PROVE  AccountsInv'
<1>. USE DEF AccountsInv, Sound
<1>1. UNCHANGED request => RequestsMayGoOn'
  BY DEF RequestsMayGoOn
<1>2. AdminChange => changes' \in 0 .. MaxChanges
  BY AccountsAssumption DEF AdminChange, TypeOK
<1>3. CASE LockExpires(i)
  <2>1. TypeOK' /\ CountFollowsTries'
    BY <1>3 DEF LockExpires, TypeOK, row, tokens, history, Locks, CountFollowsTries
  <2>2. DeletedAreDisabled' /\ NamesIdentify'
    BY <1>3, NoInsertKeeps DEF LockExpires, row, DeletedAreDisabled
  <2>. QED
    BY <1>1, <1>3, <2>1, <2>2 DEF LockExpires
<1>4. CASE ResumeSession(i)
  <2>1. /\ Visible(i) /\ status' = [status EXCEPT ![i] = "active"] /\ Unlocked(i) /\ Issue(i)
        /\ UNCHANGED <<name, bySession, role, deleted, request, changes>>
    BY <1>4 DEF ResumeSession
  <2>2. TypeOK'
    BY <2>1, UnlockedKeeps, IssueTyped DEF TypeOK, Statuses
  <2>3. DeletedAreDisabled' /\ NamesIdentify'
    BY <2>1, NoInsertKeeps DEF Visible, DeletedAreDisabled, TypeOK
  <2>. QED
    BY <1>1, <2>1, <2>2, <2>3, UnlockedKeeps
<1>5. CASE ChooseUser(i)
  <2>1. Unlocked(i) /\ Issue(i) /\ UNCHANGED <<row, request, changes>>
    BY <1>5 DEF ChooseUser
  <2>2. TypeOK'
    BY <2>1, UnlockedKeeps, IssueTyped DEF TypeOK, row
  <2>3. DeletedAreDisabled' /\ NamesIdentify'
    BY <2>1, NoInsertKeeps DEF row, DeletedAreDisabled
  <2>. QED
    BY <1>1, <2>1, <2>2, <2>3, UnlockedKeeps
<1>6. ASSUME NEW r \in Roles, UpdateRole(i, r)
      PROVE  AccountsInv'
  <2>1. TypeOK' /\ CountFollowsTries'
    BY <1>2, <1>6 DEF UpdateRole, TypeOK, counter, tokens, history, CountFollowsTries
  <2>2. DeletedAreDisabled' /\ NamesIdentify'
    BY <1>6, NoInsertKeeps DEF UpdateRole, DeletedAreDisabled
  <2>. QED
    BY <1>1, <1>6, <2>1, <2>2 DEF UpdateRole
<1>7. CASE Disable(i)
  <2>1. TypeOK' /\ CountFollowsTries'
    BY <1>2, <1>7 DEF Disable, TypeOK, Statuses, counter, tokens, history, CountFollowsTries
  <2>2. DeletedAreDisabled' /\ NamesIdentify'
    BY <1>7, NoInsertKeeps DEF Disable, DeletedAreDisabled, TypeOK
  <2>. QED
    BY <1>1, <1>7, <2>1, <2>2 DEF Disable
<1>8. CASE Enable(i)
  <2>1. TypeOK'
    BY <1>2, <1>8, UnlockedKeeps DEF Enable, TypeOK, Statuses, tokens
  <2>2. DeletedAreDisabled' /\ NamesIdentify'
    BY <1>8, NoInsertKeeps DEF Enable, Visible, DeletedAreDisabled, TypeOK
  <2>. QED
    BY <1>1, <1>8, <2>1, <2>2, UnlockedKeeps DEF Enable
<1>9. CASE Delete(i)
  <2>1. TypeOK' /\ CountFollowsTries'
    BY <1>2, <1>9 DEF Delete, TypeOK, Statuses, counter, tokens, history, CountFollowsTries
  <2>2. DeletedAreDisabled' /\ NamesIdentify'
    BY <1>9, NoInsertKeeps DEF Delete, Visible, DeletedAreDisabled, TypeOK
  <2>. QED
    BY <1>1, <1>9, <2>1, <2>2 DEF Delete
<1>. QED
  BY <1>3, <1>4, <1>5, <1>6, <1>7, <1>8, <1>9 DEF OfAccount

-----------------------------------------------------------------------------
LEMMA InitAccounts == Init => AccountsInv
<1>. SUFFICES ASSUME Init
              PROVE  AccountsInv
  OBVIOUS
<1>1. TypeOK
  BY AccountsAssumption, IdleTyped DEF Init, TypeOK, Roles, Statuses, Locks
<1>2. RequestsMayGoOn
  BY IdleTyped DEF Init, RequestsMayGoOn
<1>3. DeletedAreDisabled /\ NamesIdentify
  BY AccountsAssumption DEF Init, DeletedAreDisabled, NamesIdentify
<1>4. CountFollowsTries
  BY AccountsAssumption DEF Init, CountFollowsTries
<1>. QED
  BY <1>1, <1>2, <1>3, <1>4 DEF AccountsInv, Sound

LEMMA NextAccounts == AccountsInv /\ [Next]_vars => AccountsInv'
<1>. SUFFICES ASSUME AccountsInv, [Next]_vars
              PROVE  AccountsInv'
  OBVIOUS
<1>1. CASE Crash
  <2>1. request' \in [Clients -> Request] /\ RequestsMayGoOn'
    BY <1>1, IdleTyped DEF Crash, RequestsMayGoOn
  <2>. QED
    BY <1>1, <2>1, SameRowsKeep DEF Crash, tokens, AccountsInv, Sound, TypeOK
<1>2. CASE UNCHANGED vars
  <2>1. request' \in [Clients -> Request] /\ RequestsMayGoOn'
    BY <1>2 DEF vars, AccountsInv, Sound, TypeOK, RequestsMayGoOn
  <2>. QED
    BY <1>2, <2>1, SameRowsKeep DEF vars, tokens, AccountsInv, Sound, TypeOK
<1>. QED
  BY <1>1, <1>2, SignInKeeps, SignUpKeeps, ResetKeeps, TokenKeeps, AccountKeeps DEF Next

\* The types of Accounts hold in every state.
THEOREM AccountsTypes == Spec => []TypeOK
  BY InitAccounts, NextAccounts, PTL DEF Spec, AccountsInv, Sound

\* Names and session ids identify: the indexes decide, not the check.
THEOREM AccountsNames == Spec => []NamesIdentify
  BY InitAccounts, NextAccounts, PTL DEF Spec, AccountsInv, Sound

\* Count, lock and tries agree where no write came from an outdated read.
THEOREM AccountsCount == Spec => []CountFollowsTries
  BY InitAccounts, NextAccounts, PTL DEF Spec, AccountsInv, Sound

-----------------------------------------------------------------------------
(* What a step may not do *)

\* The step that ends a request is its own, or a crash.
LEMMA EndedBy ==
    ASSUME TypeOK, Next, NEW c \in Clients, request[c].pc # "idle", request'[c] = Idle
    PROVE  \/ WrongPassword(c) \/ RightPassword(c) \/ ResetPassword(c)
           \/ InsertAccount(c) \/ InsertRefused(c) \/ Crash
<1>. USE IdleTyped DEF TypeOK
<1>1. ASSUME NEW t \in Tokens, OfToken(t)
      PROVE  UNCHANGED request
  BY <1>1 DEF OfToken, Refresh, Logout, ExpireToken
<1>2. ASSUME NEW i \in Accounts, OfAccount(i)
      PROVE  UNCHANGED request
  BY <1>2
  DEF OfAccount, LockExpires, ResumeSession, ChooseUser, UpdateRole, Disable, Enable, Delete
<1>3. ASSUME NEW d \in Clients, SignIn(d)
      PROVE  d = c /\ (WrongPassword(c) \/ RightPassword(c))
  <2>1. d = c
    BY <1>3 DEF SignIn, Login, WrongPassword, RightPassword, Done
  <2>2. ASSUME NEW i \in Accounts
        PROVE  ~Login(c, i)
    BY DEF Login
  <2>. QED
    BY <1>3, <2>1, <2>2 DEF SignIn
<1>4. ASSUME NEW d \in Clients, SignUp(d)
      PROVE  d = c /\ (InsertAccount(c) \/ InsertRefused(c))
  <2>1. d = c
    BY <1>4
    DEF SignUp, BeginRegister, BeginSession, BeginCreate, InsertAccount, InsertRefused, Done
  <2>. QED
    BY <1>4, <2>1 DEF SignUp, BeginRegister, BeginSession, BeginCreate
<1>5. ASSUME NEW d \in Clients, Reset(d)
      PROVE  d = c /\ ResetPassword(c)
  <2>1. d = c
    BY <1>5 DEF Reset, BeginReset, ResetPassword, Done
  <2>. QED
    BY <1>5, <2>1 DEF Reset, BeginReset
<1>. QED
  BY <1>1, <1>2, <1>3, <1>4, <1>5 DEF Next

\* A lock survives the requests that were under way when it was set.
THEOREM AccountsLock == Spec => LockOutlivesRequests
<1>. DEFINE LockStep == \A c \in Clients :
        (/\ request[c].pc \in {"verify", "reset"} /\ request'[c] = Idle
         /\ lock[request[c].account] = "running" /\ request[c].lock = "none")
            => lock'[request[c].account] = "running"
<1>1. ASSUME AccountsInv, Next
      PROVE  LockStep
  <2>. SUFFICES ASSUME NEW c \in Clients,
                       request[c].pc \in {"verify", "reset"}, request'[c] = Idle,
                       lock[request[c].account] = "running", request[c].lock = "none"
                PROVE  lock'[request[c].account] = "running"
    OBVIOUS
  <2>. USE DEF AccountsInv, Sound, TypeOK
  <2>1. request[c].account \in Accounts
    BY <1>1 DEF RequestsMayGoOn, MayGoOn
  <2>2. CASE WrongPassword(c)
    BY <1>1, <2>1, <2>2 DEF WrongPassword
  <2>3. CASE Cleared(c)
    BY <1>1, <2>1, <2>3 DEF Cleared
  <2>4. CASE Crash
    BY <2>4 DEF Crash, counter
  <2>. QED
    BY <1>1, <2>2, <2>3, <2>4, EndedBy
    DEF RightPassword, ResetPassword, InsertAccount, InsertRefused
<1>2. AccountsInv /\ [Next]_vars => [LockStep]_vars
  BY <1>1
<1>. QED
  BY <1>2, InitAccounts, NextAccounts, PTL DEF Spec, LockOutlivesRequests

LEMMA IssuedTo ==
    ASSUME TypeOK, NEW i, Issue(i)
    PROVE  \A t \in Tokens : token'[t] = token[t] \/ token'[t] = i
  BY DEF TypeOK, Issue

\* Tokens go to active accounts, and to the account of a login under way.
THEOREM AccountsTokens == Spec => TokensForActive
<1>. DEFINE ToActive(t) == \E i \in Accounts : token'[t] = i /\ Active(i)'
            ToLogin(t) == \E c \in Clients :
                request[c].pc = "verify" /\ request[c].account = token'[t]
            TokenStep == \A t \in Tokens : (token[t] = 0 /\ token'[t] # 0) =>
                \/ \E i \in Accounts : token'[t] = i /\ Active(i)'
                \/ \E c \in Clients : request[c].pc = "verify" /\ request[c].account = token'[t]
<1>1. ASSUME AccountsInv, Next, NEW t \in Tokens, token[t] = 0, token'[t] # 0
      PROVE  ToActive(t) \/ ToLogin(t)
  <2>. USE DEF AccountsInv, Sound, TypeOK
  <2>1. CASE UNCHANGED token
    BY <1>1, <2>1
  <2>2. ASSUME NEW s \in Tokens, Refresh(s)
        PROVE  ToActive(t)
    <3>1. PICK i \in Accounts : token[s] = i /\ token'[t] = i
      BY <1>1, <2>2, IssuedTo, AccountsAssumption DEF Refresh, Accounts
    <3>2. Active(i)'
      BY <1>1, <2>2, <3>1 DEF Refresh, Active, Visible, row
    <3>. QED
      BY <3>1, <3>2
  <2>3. ASSUME NEW s \in Tokens, ExpireToken(s)
        PROVE  FALSE
    BY <1>1, <2>3 DEF ExpireToken
  <2>4. ASSUME NEW c \in Clients, RightPassword(c)
        PROVE  ToLogin(t)
    BY <1>1, <2>4, IssuedTo DEF RightPassword
  <2>5. ASSUME NEW c \in Clients, InsertAccount(c), ~UNCHANGED token
        PROVE  ToActive(t)
    <3>1. PICK i \in Accounts :
            /\ name[i] = NoName
            /\ name' = [name EXCEPT ![i] = request[c].name]
            /\ status' = [status EXCEPT ![i] = "active"]
            /\ Issue(i)
      BY <2>5 DEF InsertAccount, tokens
    <3>2. request[c].name \in Names /\ UNCHANGED deleted
      BY <1>1, <2>5 DEF InsertAccount, RequestsMayGoOn, MayGoOn
    <3>3. ~deleted[i]
      BY <1>1, <3>1 DEF DeletedAreDisabled
    <3>4. Active(i)'
      BY <1>1, <3>1, <3>2, <3>3, AccountsAssumption DEF Active, Visible
    <3>. QED
      BY <1>1, <3>1, <3>4, IssuedTo
  <2>6. ASSUME NEW i \in Accounts, ResumeSession(i)
        PROVE  ToActive(t)
    BY <1>1, <2>6, IssuedTo DEF ResumeSession, Active, Visible
  <2>7. ASSUME NEW i \in Accounts, ChooseUser(i)
        PROVE  ToActive(t)
    BY <1>1, <2>7, IssuedTo DEF ChooseUser, Active, Visible, row
  <2>8. \/ UNCHANGED token
        \/ \E s \in Tokens : Refresh(s) \/ ExpireToken(s)
        \/ \E c \in Clients : RightPassword(c) \/ InsertAccount(c)
        \/ \E i \in Accounts : ResumeSession(i) \/ ChooseUser(i)
    <3>1. ASSUME NEW c \in Clients, SignIn(c) \/ SignUp(c) \/ Reset(c)
          PROVE  UNCHANGED token \/ RightPassword(c) \/ InsertAccount(c)
      BY <3>1
      DEF SignIn, SignUp, Reset, Login, WrongPassword, BeginRegister, BeginSession,
          BeginCreate, InsertRefused, BeginReset, ResetPassword, tokens
    <3>2. ASSUME NEW s \in Tokens, OfToken(s)
          PROVE  UNCHANGED token \/ Refresh(s) \/ ExpireToken(s)
      BY <3>2 DEF OfToken, Logout
    <3>3. ASSUME NEW i \in Accounts, OfAccount(i)
          PROVE  UNCHANGED token \/ ResumeSession(i) \/ ChooseUser(i)
      BY <3>3 DEF OfAccount, LockExpires, UpdateRole, Disable, Enable, Delete, tokens
    <3>. QED
      BY <1>1, <3>1, <3>2, <3>3 DEF Next, Crash, tokens
  <2>. QED
    BY <2>1, <2>2, <2>3, <2>4, <2>5, <2>6, <2>7, <2>8
<1>2. AccountsInv /\ [Next]_vars => [TokenStep]_vars
  BY <1>1
<1>. QED
  BY <1>2, InitAccounts, NextAccounts, PTL DEF Spec, TokensForActive

\* Deleted is for ever: no sign-in, session or request under way undoes it.
THEOREM AccountsDeleted == Spec => DeletedForEver
<1>. DEFINE DeletedStep == \A i \in Accounts : deleted[i] =>
        deleted'[i] /\ status'[i] = "disabled" /\ name'[i] = name[i]
<1>1. ASSUME AccountsInv, Next, NEW i \in Accounts, deleted[i]
      PROVE  deleted'[i] /\ status'[i] = "disabled" /\ name'[i] = name[i]
  <2>. USE DEF AccountsInv, Sound, TypeOK
  <2>1. status[i] = "disabled" /\ name[i] # NoName
    BY <1>1 DEF DeletedAreDisabled
  <2>2. CASE UNCHANGED row
    BY <1>1, <2>1, <2>2 DEF row
  <2>3. ASSUME NEW c \in Clients, InsertAccount(c)
        PROVE  deleted'[i] /\ status'[i] = "disabled" /\ name'[i] = name[i]
    BY <1>1, <2>1, <2>3 DEF InsertAccount
  <2>4. ASSUME NEW j \in Accounts, OfAccount(j), ~UNCHANGED row
        PROVE  deleted'[i] /\ status'[i] = "disabled" /\ name'[i] = name[i]
    BY <1>1, <2>1, <2>4
    DEF OfAccount, LockExpires, ResumeSession, ChooseUser, UpdateRole, Disable, Enable,
        Delete, Visible, row
  <2>5. \/ UNCHANGED row
        \/ \E c \in Clients : InsertAccount(c)
        \/ \E j \in Accounts : OfAccount(j)
    <3>1. ASSUME NEW c \in Clients, SignIn(c) \/ SignUp(c) \/ Reset(c)
          PROVE  UNCHANGED row \/ InsertAccount(c)
      BY <3>1
      DEF SignIn, SignUp, Reset, Login, WrongPassword, RightPassword, BeginRegister,
          BeginSession, BeginCreate, InsertRefused, BeginReset, ResetPassword, row
    <3>2. ASSUME NEW s \in Tokens, OfToken(s)
          PROVE  UNCHANGED row
      BY <3>2 DEF OfToken, Refresh, Logout, ExpireToken, row
    <3>. QED
      BY <1>1, <3>1, <3>2 DEF Next, Crash, row
  <2>. QED
    BY <2>2, <2>3, <2>4, <2>5
<1>2. AccountsInv /\ [Next]_vars => [DeletedStep]_vars
  BY <1>1
<1>. QED
  BY <1>2, InitAccounts, NextAccounts, PTL DEF Spec, DeletedForEver

-----------------------------------------------------------------------------
(* The number of wrong passwords before a lock *)

All == Cardinality(Clients)
Grid == (0 .. All) \X (0 .. Threshold)

LEMMA BoundsNat == All \in Nat /\ Threshold \in Nat /\ Threshold > 0
  BY AccountsAssumption, FS_CardinalityType DEF All

\* The recursion of Ways, one step from f.
Ahead(f, n, k) == IF n = 0 THEN 1 ELSE IF k = 0 THEN 0 ELSE f[<<n, k - 1>>] + f[<<n - 1, k>>]

\* f is a function on the grid, and right up to the diagonal s.
WaysUpTo(f, s) ==
    \A n \in 0 .. All, k \in 0 .. Threshold : n + k <= s => f[<<n, k>>] = Ahead(f, n, k)

LEMMA WaysGoOn ==
    ASSUME NEW f, NEW s \in Nat, WaysUpTo(f, s),
           NEW g, g = [w \in Grid |-> Ahead(f, w[1], w[2])]
    PROVE  WaysUpTo(g, s + 1)
<1>0. All \in Nat /\ Threshold \in Nat
  BY BoundsNat
<1>1. \A n \in 0 .. All, k \in 0 .. Threshold : g[<<n, k>>] = Ahead(f, n, k)
  <2>. TAKE n \in 0 .. All, k \in 0 .. Threshold
  <2>1. <<n, k>> \in Grid /\ <<n, k>>[1] = n /\ <<n, k>>[2] = k
    BY DEF Grid
  <2>. QED
    BY <2>1
<1>2. \A n \in 0 .. All, k \in 0 .. Threshold : n + k <= s => g[<<n, k>>] = f[<<n, k>>]
  BY <1>1 DEF WaysUpTo
<1>3. ASSUME NEW n \in 0 .. All, NEW k \in 0 .. Threshold, n + k <= s + 1
      PROVE  g[<<n, k>>] = Ahead(g, n, k)
  <2>1. CASE n # 0 /\ k # 0
    <3>1. /\ n - 1 \in 0 .. All /\ k - 1 \in 0 .. Threshold
          /\ n - 1 + k <= s /\ n + (k - 1) <= s
      BY <1>0, <1>3, <2>1
    <3>2. g[<<n, k - 1>>] = f[<<n, k - 1>>] /\ g[<<n - 1, k>>] = f[<<n - 1, k>>]
      BY <1>2, <3>1
    <3>. QED
      BY <1>1, <2>1, <3>2 DEF Ahead
  <2>2. CASE n = 0
    BY <1>1, <2>2 DEF Ahead
  <2>3. CASE n # 0 /\ k = 0
    BY <1>1, <2>3 DEF Ahead
  <2>. QED
    BY <2>1, <2>2, <2>3
<1>. QED
  BY <1>3 DEF WaysUpTo

\* A set of numbers has a least one: induction by the least counterexample.
LEMMA LeastNumber ==
    ASSUME NEW S \in SUBSET Nat, S # {}
    PROVE  \E m \in S : \A k \in S : m <= k
<1>. DEFINE R == {p \in Nat \X Nat : p[1] < p[2]}
<1>1. IsWellFoundedOn(R, Nat)
  BY NatLessThanWellFounded, Zenon DEF OpToRel
<1>2. PICK m \in S : \A k \in S : ~ (<<k, m>> \in R)
  <2>. HIDE DEF R
  <2>. QED
    BY <1>1, WFMin
<1>3. ASSUME NEW k \in S PROVE m <= k
  <2>1. m \in Nat /\ k \in Nat /\ <<k, m>> \in Nat \X Nat /\ <<k, m>>[1] = k /\ <<k, m>>[2] = m
    OBVIOUS
  <2>. QED
    BY <1>2, <2>1
<1>. QED
  BY <1>3

LEMMA WaysUpToAll ==
    ASSUME NEW s \in Nat
    PROVE  \E f : f = [w \in Grid |-> f[w]] /\ WaysUpTo(f, s)
<1>. DEFINE Bad == {m \in Nat : ~ \E f : f = [w \in Grid |-> f[w]] /\ WaysUpTo(f, m)}
<1>. SUFFICES ASSUME Bad # {} PROVE FALSE
  OBVIOUS
<1>1. PICK m \in Bad : \A k \in Bad : m <= k
  <2>1. Bad \in SUBSET Nat
    OBVIOUS
  <2>. HIDE DEF Bad
  <2>. QED
    BY <2>1, LeastNumber
<1>2. CASE m = 0
  <2>. DEFINE g == [w \in Grid |-> 1]
  <2>1. \A n \in 0 .. All, k \in 0 .. Threshold : n + k <= 0 => n = 0 /\ k = 0
    BY BoundsNat
  <2>2. \A n \in 0 .. All, k \in 0 .. Threshold : n = 0 /\ k = 0 => g[<<n, k>>] = 1
    BY DEF Grid
  <2>3. WaysUpTo(g, 0)
    <3>. HIDE DEF g
    <3>. QED
      BY <2>1, <2>2 DEF WaysUpTo, Ahead
  <2>4. g = [w \in Grid |-> g[w]]
    OBVIOUS
  <2>. HIDE DEF g
  <2>. QED
    BY <1>2, <2>3, <2>4
<1>3. CASE m # 0
  <2>1. m \in Nat /\ m - 1 \in Nat /\ ~(m <= m - 1) /\ (m - 1) + 1 = m
    BY <1>3
  <2>2. PICK f : WaysUpTo(f, m - 1)
    BY <1>1, <2>1
  <2>. DEFINE g == [w \in Grid |-> Ahead(f, w[1], w[2])]
  <2>3. g = [w \in Grid |-> g[w]]
    OBVIOUS
  <2>4. g = [w \in Grid |-> Ahead(f, w[1], w[2])]
    OBVIOUS
  <2>. HIDE DEF g
  <2>5. WaysUpTo(g, m - 1 + 1)
    BY <2>1, <2>2, <2>4, WaysGoOn
  <2>. QED
    BY <2>1, <2>3, <2>5
<1>. QED
  BY <1>2, <1>3

LEMMA WaysExist == \E f : f = [w \in Grid |-> Ahead(f, w[1], w[2])]
<1>1. All \in Nat /\ Threshold \in Nat /\ All + Threshold \in Nat
  BY BoundsNat
<1>2. PICK f : f = [w \in Grid |-> f[w]] /\ WaysUpTo(f, All + Threshold)
  BY <1>1, WaysUpToAll
<1>3. \A w \in Grid : f[w] = Ahead(f, w[1], w[2])
  <2>. TAKE w \in Grid
  <2>1. w[1] \in 0 .. All /\ w[2] \in 0 .. Threshold /\ w = <<w[1], w[2]>>
    BY DEF Grid
  <2>2. w[1] + w[2] <= All + Threshold
    BY <1>1, <2>1
  <2>. QED
    BY <1>2, <2>1, <2>2 DEF WaysUpTo
<1>4. f = [w \in Grid |-> Ahead(f, w[1], w[2])]
  BY <1>2, <1>3
<1>. QED
  BY <1>4

\* The recursion of Ways.
LEMMA WaysSum ==
    ASSUME NEW n \in 0 .. All, NEW k \in 0 .. Threshold
    PROVE  Ways[<<n, k>>] = Ahead(Ways, n, k)
<1>1. Ways = [w \in Grid |-> Ahead(Ways, w[1], w[2])]
  BY WaysExist DEF Ways, Ahead, All, Grid
<1>2. <<n, k>> \in Grid /\ <<n, k>>[1] = n /\ <<n, k>>[2] = k
  BY DEF Grid
<1>. HIDE DEF Ways
<1>. QED
  BY <1>1, <1>2

LEMMA WaysNat ==
    ASSUME NEW n \in 0 .. All, NEW k \in 0 .. Threshold
    PROVE  Ways[<<n, k>>] \in Nat
<1>. DEFINE Good(s) == \A p \in 0 .. All, q \in 0 .. Threshold : p + q = s => Ways[<<p, q>>] \in Nat
            Bad == {s \in Nat : ~Good(s)}
<1>0. All \in Nat /\ Threshold \in Nat
  BY BoundsNat
<1>1. ASSUME Bad # {} PROVE FALSE
  <2>1. PICK m \in Bad : \A s \in Bad : m <= s
    <3>1. Bad \in SUBSET Nat
      OBVIOUS
    <3>. HIDE DEF Bad
    <3>. QED
      BY <1>1, <3>1, LeastNumber
  <2>2. PICK p \in 0 .. All, q \in 0 .. Threshold : p + q = m /\ Ways[<<p, q>>] \notin Nat
    BY <2>1
  <2>3. Ways[<<p, q>>] = Ahead(Ways, p, q)
    BY WaysSum
  <2>4. p # 0 /\ q # 0
    BY <2>2, <2>3 DEF Ahead
  <2>5. /\ p - 1 \in 0 .. All /\ q - 1 \in 0 .. Threshold
        /\ m - 1 \in Nat /\ p - 1 + q = m - 1 /\ p + (q - 1) = m - 1 /\ ~(m <= m - 1)
    BY <1>0, <2>2, <2>4
  <2>6. Good(m - 1)
    BY <2>1, <2>5
  <2>7. Ways[<<p - 1, q>>] \in Nat /\ Ways[<<p, q - 1>>] \in Nat
    BY <2>5, <2>6
  <2>. QED
    BY <2>2, <2>3, <2>4, <2>7 DEF Ahead
<1>2. n + k \in Nat
  BY <1>0
<1>3. Good(n + k)
  BY <1>1, <1>2
<1>. QED
  BY <1>3

\* With more wrong passwords to go, there are more ways.
LEMMA WaysGrow ==
    ASSUME NEW n \in 0 .. All, NEW j \in 0 .. Threshold, NEW k \in 0 .. Threshold, j <= k
    PROVE  Ways[<<n, j>>] <= Ways[<<n, k>>]
<1>. DEFINE Bad == {d \in Nat : j + d <= Threshold /\ ~(Ways[<<n, j>>] <= Ways[<<n, j + d>>])}
<1>0. All \in Nat /\ Threshold \in Nat
  BY BoundsNat
<1>1. ASSUME Bad # {} PROVE FALSE
  <2>1. PICK d \in Bad : \A e \in Bad : d <= e
    <3>1. Bad \in SUBSET Nat
      OBVIOUS
    <3>. HIDE DEF Bad
    <3>. QED
      BY <1>1, <3>1, LeastNumber
  <2>2. Ways[<<n, j>>] \in Nat
    BY WaysNat
  <2>3. d # 0
    <3>1. d = 0 => j + d = j
      BY <1>0
    <3>. QED
      BY <2>1, <2>2, <3>1
  <2>4. /\ d - 1 \in Nat /\ ~(d <= d - 1) /\ j + (d - 1) <= Threshold
        /\ j + d \in 0 .. Threshold /\ j + (d - 1) \in 0 .. Threshold
        /\ j + d # 0 /\ j + d - 1 = j + (d - 1)
    BY <1>0, <2>1, <2>3
  <2>5. Ways[<<n, j>>] <= Ways[<<n, j + (d - 1)>>]
    BY <2>1, <2>4
  <2>6. Ways[<<n, j + d>>] \in Nat /\ Ways[<<n, j + (d - 1)>>] \in Nat
    BY <2>4, WaysNat
  <2>7. Ways[<<n, j + (d - 1)>>] <= Ways[<<n, j + d>>]
    <3>1. CASE n = 0
      <4>1. Ways[<<n, j + d>>] = 1 /\ Ways[<<n, j + (d - 1)>>] = 1
        BY <2>4, <3>1, WaysSum DEF Ahead
      <4>. QED
        BY <4>1
    <3>2. CASE n # 0
      <4>1. n - 1 \in 0 .. All
        BY <1>0, <3>2
      <4>2. Ways[<<n, j + d>>] = Ways[<<n, j + d - 1>>] + Ways[<<n - 1, j + d>>]
        BY <2>4, <3>2, WaysSum DEF Ahead
      <4>3. Ways[<<n - 1, j + d>>] \in Nat
        BY <2>4, <4>1, WaysNat
      <4>. QED
        BY <2>4, <2>6, <4>2, <4>3
    <3>. QED
      BY <3>1, <3>2
  <2>. QED
    BY <2>1, <2>2, <2>5, <2>6, <2>7
<1>2. PICK d \in Nat : j + d = k
  <2>1. k - j \in Nat /\ j + (k - j) = k
    BY <1>0
  <2>. QED
    BY <2>1
<1>3. j + d <= Threshold /\ d \notin Bad
  <2>1. j + d <= Threshold
    BY <1>0, <1>2
  <2>. HIDE DEF Bad
  <2>. QED
    BY <1>1, <2>1
<1>4. Ways[<<n, j>>] <= Ways[<<n, j + d>>]
  BY <1>3
<1>. QED
  BY <1>2, <1>4

-----------------------------------------------------------------------------
(* Outdated counts *)

Left(v) == IF v < Threshold THEN Threshold - 1 - v ELSE 0

Orders == Bijection(1 .. All, Clients)

\* S adds up, client by client, the wrong passwords that those with the counts
\* v can still get through if they come last in this order.
AddsUp(S, v, order) ==
    /\ S \in [0 .. All -> Int]
    /\ S[0] = 0
    /\ \A p \in 1 .. All : S[p] >= S[p - 1] + Ways[<<p, Left(v[order[p]])>>]

\* After t wrong passwords a lock has not been delayed too much.
Delayed(t, v) ==
    \A order \in Orders : \E S : AddsUp(S, v, order) /\ t + 1 + S[All] <= Ways[<<All, Threshold>>]

LEMMA LeftIn ==
    ASSUME NEW v \in Nat
    PROVE  Left(v) \in 0 .. Threshold /\ Left(v) <= Threshold - 1
  BY BoundsNat DEF Left

LEMMA WaysLast ==
    ASSUME NEW p \in 1 .. All, NEW k \in 1 .. Threshold
    PROVE  /\ p \in 0 .. All /\ p - 1 \in 0 .. All /\ k \in 0 .. Threshold /\ k - 1 \in 0 .. Threshold
           /\ Ways[<<p, k>>] = Ways[<<p, k - 1>>] + Ways[<<p - 1, k>>]
           /\ Ways[<<p, k>>] \in Nat /\ Ways[<<p, k - 1>>] \in Nat /\ Ways[<<p - 1, k>>] \in Nat
<1>1. p \in 0 .. All /\ p - 1 \in 0 .. All /\ k \in 0 .. Threshold /\ k - 1 \in 0 .. Threshold
      /\ p # 0 /\ k # 0
  BY BoundsNat
<1>2. Ways[<<p, k>>] = Ways[<<p, k - 1>>] + Ways[<<p - 1, k>>]
  BY <1>1, WaysSum DEF Ahead
<1>. QED
  BY <1>1, <1>2, WaysNat

LEMMA WaysOfNone ==
    ASSUME NEW k \in 0 .. Threshold
    PROVE  Ways[<<0, k>>] = 1
<1>1. 0 \in 0 .. All
  BY BoundsNat
<1>. QED
  BY <1>1, WaysSum DEF Ahead

\* Whatever the requests have read, when the count of wrong passwords begins
\* anew.
LEMMA DelayedFresh ==
    ASSUME NEW v \in [Clients -> Nat]
    PROVE  Delayed(0, v)
<1>0. All \in Nat /\ Threshold \in Nat /\ Threshold > 0 /\ Threshold \in 1 .. Threshold
      /\ Threshold \in 0 .. Threshold
  BY BoundsNat
<1>1. ASSUME NEW order \in Orders
      PROVE  \E S : AddsUp(S, v, order) /\ 0 + 1 + S[All] <= Ways[<<All, Threshold>>]
  <2>. DEFINE S == [p \in 0 .. All |-> Ways[<<p, Threshold>>] - 1]
  <2>1. \A p \in 0 .. All : Ways[<<p, Threshold>>] \in Nat
    BY <1>0, WaysNat
  <2>2. S \in [0 .. All -> Int]
    BY <2>1
  <2>3. S[0] = 0
    <3>1. Ways[<<0, Threshold>>] = 1 /\ 0 \in 0 .. All
      BY <1>0, WaysOfNone
    <3>. QED
      BY <3>1
  <2>4. ASSUME NEW p \in 1 .. All
        PROVE  S[p] >= S[p - 1] + Ways[<<p, Left(v[order[p]])>>]
    <3>1. order[p] \in Clients
      BY <1>1 DEF Orders, Bijection, Injection, Surjection
    <3>. DEFINE k == Left(v[order[p]])
    <3>2. k \in 0 .. Threshold /\ k <= Threshold - 1
      BY <3>1, LeftIn
    <3>. HIDE DEF k
    <3>3. /\ p \in 0 .. All /\ p - 1 \in 0 .. All /\ Threshold - 1 \in 0 .. Threshold
          /\ Ways[<<p, Threshold>>] = Ways[<<p, Threshold - 1>>] + Ways[<<p - 1, Threshold>>]
          /\ Ways[<<p, Threshold>>] \in Nat /\ Ways[<<p, Threshold - 1>>] \in Nat
          /\ Ways[<<p - 1, Threshold>>] \in Nat
      BY <1>0, WaysLast
    <3>4. Ways[<<p, k>>] <= Ways[<<p, Threshold - 1>>] /\ Ways[<<p, k>>] \in Nat
      BY <3>2, <3>3, WaysGrow, WaysNat
    <3>5. S[p] = Ways[<<p, Threshold>>] - 1 /\ S[p - 1] = Ways[<<p - 1, Threshold>>] - 1
      BY <3>3
    <3>6. S[p] >= S[p - 1] + Ways[<<p, k>>]
      <4>. HIDE DEF S
      <4>. QED
        BY <3>3, <3>4, <3>5
    <3>. QED
      BY <3>6 DEF k
  <2>5. S[All] = Ways[<<All, Threshold>>] - 1 /\ All \in 0 .. All
    BY <1>0
  <2>. HIDE DEF S
  <2>6. AddsUp(S, v, order)
    BY <2>2, <2>3, <2>4 DEF AddsUp
  <2>7. 0 + 1 + S[All] <= Ways[<<All, Threshold>>]
    BY <2>1, <2>5
  <2>. QED
    BY <2>6, <2>7
<1>. QED
  BY <1>1 DEF Delayed

\* It only gets better when a request reads, or forgets what it read.
LEMMA DelayedMore ==
    ASSUME NEW t, NEW v \in [Clients -> Nat], NEW w \in [Clients -> Nat], Delayed(t, v),
           \A c \in Clients : v[c] <= w[c]
    PROVE  Delayed(t, w)
<1>0. All \in Nat /\ Threshold \in Nat /\ Threshold > 0
  BY BoundsNat
<1>1. ASSUME NEW order \in Orders, NEW S, AddsUp(S, v, order)
      PROVE  AddsUp(S, w, order)
  <2>1. ASSUME NEW p \in 1 .. All
        PROVE  S[p] >= S[p - 1] + Ways[<<p, Left(w[order[p]])>>]
    <3>1. order[p] \in Clients
      BY <1>1 DEF Orders, Bijection, Injection, Surjection
    <3>2. v[order[p]] \in Nat /\ w[order[p]] \in Nat /\ v[order[p]] <= w[order[p]]
      BY <3>1
    <3>. DEFINE j == Left(w[order[p]])
                k == Left(v[order[p]])
    <3>3. j <= k /\ j \in 0 .. Threshold /\ k \in 0 .. Threshold
      BY <1>0, <3>2, LeftIn DEF Left
    <3>4. S[p] >= S[p - 1] + Ways[<<p, k>>] /\ S[p] \in Int /\ S[p - 1] \in Int /\ p \in 0 .. All
      BY <1>0, <1>1 DEF AddsUp
    <3>. HIDE DEF j, k
    <3>5. Ways[<<p, j>>] <= Ways[<<p, k>>] /\ Ways[<<p, j>>] \in Nat /\ Ways[<<p, k>>] \in Nat
      BY <3>3, <3>4, WaysGrow, WaysNat
    <3>6. S[p] >= S[p - 1] + Ways[<<p, j>>]
      BY <3>4, <3>5
    <3>. QED
      BY <3>6 DEF j
  <2>. QED
    BY <1>1, <2>1 DEF AddsUp
<1>. QED
  BY <1>1 DEF Delayed

\* What it means to be an order of all clients.
LEMMA OrderIs ==
    ASSUME NEW order
    PROVE  order \in Orders <=>
               /\ order \in [1 .. All -> Clients]
               /\ \A m, n \in 1 .. All : order[m] = order[n] => m = n
               /\ \A c \in Clients : \E n \in 1 .. All : order[n] = c
<1>. DEFINE P == 1 .. All
<1>. HIDE DEF P
<1>1. order \in Bijection(P, Clients) <=>
          /\ order \in [P -> Clients]
          /\ \A m, n \in P : order[m] = order[n] => m = n
          /\ \A c \in Clients : \E n \in P : order[n] = c
  <2>1. order \in [P -> Clients] => (IsInjective(order) <=> \A m, n \in P : order[m] = order[n] => m = n)
    BY DEF IsInjective
  <2>. QED
    BY <2>1 DEF Bijection, Injection, Surjection
<1>. QED
  BY <1>1 DEF Orders, P

\* Two clients change places.
LEMMA OrderSwapped ==
    ASSUME NEW order \in Orders, NEW p \in 1 .. All, NEW q \in 1 .. All
    PROVE  \E other \in Orders : /\ other[p] = order[q]
                                 /\ \A n \in 1 .. All : n \notin {p, q} => other[n] = order[n]
<1>. DEFINE other == [n \in 1 .. All |-> IF n = p THEN order[q] ELSE IF n = q THEN order[p] ELSE order[n]]
<1>1. /\ order \in [1 .. All -> Clients]
      /\ \A m, n \in 1 .. All : order[m] = order[n] => m = n
      /\ \A c \in Clients : \E n \in 1 .. All : order[n] = c
  BY OrderIs
<1>2. other \in [1 .. All -> Clients]
  BY <1>1
<1>3. /\ other[p] = order[q] /\ other[q] = order[p]
      /\ \A n \in 1 .. All : n \notin {p, q} => other[n] = order[n]
  BY <1>1
<1>. HIDE DEF other
<1>4. \A m, n \in 1 .. All : other[m] = other[n] => m = n
  BY <1>1, <1>3
<1>5. ASSUME NEW c \in Clients PROVE \E n \in 1 .. All : other[n] = c
  <2>1. PICK n \in 1 .. All : order[n] = c
    BY <1>1
  <2>2. CASE n = p
    BY <1>3, <2>1, <2>2
  <2>3. CASE n = q
    BY <1>3, <2>1, <2>3
  <2>4. CASE n \notin {p, q}
    BY <1>3, <2>1, <2>4
  <2>. QED
    BY <2>2, <2>3, <2>4
<1>. QED
  BY <1>2, <1>3, <1>4, <1>5, OrderIs

\* Among the clients of which something holds, one comes last.
LEMMA LastOne ==
    ASSUME NEW order \in Orders, NEW U, NEW q \in 1 .. All, order[q] \in U
    PROVE  \E p \in 1 .. All : order[p] \in U /\ \A n \in 1 .. All : n > p => order[n] \notin U
<1>. DEFINE After == {m \in Nat : \A n \in 1 .. All : n > m => order[n] \notin U}
<1>0. All \in Nat
  BY BoundsNat
<1>1. All \in After
  BY <1>0
<1>2. PICK p \in After : \A m \in After : p <= m
  <2>1. After \in SUBSET Nat /\ After # {}
    BY <1>1
  <2>. HIDE DEF After
  <2>. QED
    BY <2>1, LeastNumber
<1>3. p \in Nat /\ \A n \in 1 .. All : n > p => order[n] \notin U
  BY <1>2
<1>4. p <= All
  <2>. HIDE DEF After
  <2>. QED
    BY <1>1, <1>2
<1>5. p >= q
  BY <1>0, <1>3
<1>6. p \in 1 .. All /\ p - 1 \in Nat /\ ~(p <= p - 1)
  BY <1>0, <1>3, <1>4, <1>5
<1>7. p - 1 \notin After
  <2>. HIDE DEF After
  <2>. QED
    BY <1>2, <1>6
<1>8. order[p] \in U
  <2>1. PICK n \in 1 .. All : n > p - 1 /\ order[n] \in U
    BY <1>6, <1>7
  <2>2. n = p
    BY <1>3, <1>6, <2>1
  <2>. QED
    BY <2>1, <2>2
<1>. QED
  BY <1>3, <1>6, <1>8

\* A wrong password that does not lock yet: whoever holds a count below the one
\* that is written keeps it, all others have the new one.
LEMMA DelayedWrite ==
    ASSUME NEW t \in Nat, NEW v \in [Clients -> Nat], NEW w \in [Clients -> Nat], Delayed(t, v),
           NEW c \in Clients, NEW r \in Nat, v[c] <= r, r + 1 < Threshold, w[c] = r + 1,
           \A d \in Clients : w[d] = r + 1 \/ v[d] <= w[d]
    PROVE  Delayed(t + 1, w)
<1>. DEFINE k == Threshold - 1 - r
            U == {d \in Clients : w[d] = r + 1}
<1>0. /\ All \in Nat /\ Threshold \in Nat
      /\ k \in 1 .. Threshold /\ k \in 0 .. Threshold /\ k - 1 \in 0 .. Threshold
      /\ Left(r + 1) = k - 1
  BY BoundsNat DEF Left
<1>1. ASSUME NEW order \in Orders
      PROVE  \E T : AddsUp(T, w, order) /\ t + 1 + 1 + T[All] <= Ways[<<All, Threshold>>]
  <2>0. /\ order \in [1 .. All -> Clients]
        /\ \A m, n \in 1 .. All : order[m] = order[n] => m = n
        /\ \E n \in 1 .. All : order[n] = c
    BY OrderIs
  <2>1. PICK q \in 1 .. All : order[q] = c
    BY <2>0
  <2>2. PICK last \in 1 .. All : order[last] \in U /\ \A n \in 1 .. All : n > last => order[n] \notin U
    <3>1. order[q] \in U
      BY <2>1
    <3>. HIDE DEF U
    <3>. QED
      BY <3>1, LastOne
  <2>3. PICK other \in Orders :
            other[last] = c /\ \A n \in 1 .. All : n \notin {last, q} => other[n] = order[n]
    BY <2>1, <2>2, OrderSwapped
  <2>4. PICK S : AddsUp(S, v, other) /\ t + 1 + S[All] <= Ways[<<All, Threshold>>]
    BY <2>3 DEF Delayed
  <2>5. /\ \A p \in 0 .. All : S[p] \in Int /\ Ways[<<p, k>>] \in Nat
        /\ S[0] = 0
        /\ \A p \in 1 .. All : S[p] >= S[p - 1] + Ways[<<p, Left(v[other[p]])>>]
    BY <1>0, <2>4, WaysNat DEF AddsUp
  <2>. DEFINE T == [p \in 0 .. All |-> IF p < last THEN S[p] + Ways[<<p, k>>] - 1 ELSE S[p] - 1]
  <2>6. /\ T \in [0 .. All -> Int]
        /\ \A p \in 0 .. All : T[p] = IF p < last THEN S[p] + Ways[<<p, k>>] - 1 ELSE S[p] - 1
    <3>1. \A p \in 0 .. All : (IF p < last THEN S[p] + Ways[<<p, k>>] - 1 ELSE S[p] - 1) \in Int
      <4>. HIDE DEF k
      <4>. QED
        BY <2>5
    <3>. QED
      BY <3>1
  <2>. HIDE DEF T, k
  <2>7. T[0] = 0
    <3>1. 0 \in 0 .. All /\ 0 < last /\ Ways[<<0, k>>] = 1
      BY <1>0, WaysOfNone
    <3>. QED
      BY <2>5, <2>6, <3>1
  <2>8. ASSUME NEW p \in 1 .. All, order[p] \notin U
        PROVE  /\ Ways[<<p, Left(w[order[p]])>>] \in Nat /\ Ways[<<p, Left(v[other[p]])>>] \in Nat
               /\ Ways[<<p, Left(w[order[p]])>>] <= Ways[<<p, Left(v[other[p]])>>]
    <3>1. p # q /\ p # last /\ other[p] = order[p] /\ order[p] \in Clients
      BY <2>0, <2>1, <2>2, <2>3, <2>8
    <3>2. v[order[p]] \in Nat /\ w[order[p]] \in Nat /\ v[order[p]] <= w[order[p]]
      BY <2>8, <3>1
    <3>. DEFINE j == Left(w[order[p]])
                m == Left(v[order[p]])
    <3>3. j <= m /\ j \in 0 .. Threshold /\ m \in 0 .. Threshold
      BY <1>0, <3>2, LeftIn DEF Left
    <3>4. p \in 0 .. All
      BY <1>0
    <3>. HIDE DEF j, m
    <3>5. Ways[<<p, j>>] <= Ways[<<p, m>>] /\ Ways[<<p, j>>] \in Nat /\ Ways[<<p, m>>] \in Nat
      BY <3>3, <3>4, WaysGrow, WaysNat
    <3>. QED
      BY <3>1, <3>5 DEF j, m
  <2>9. ASSUME NEW p \in 1 .. All
        PROVE  /\ Ways[<<p, k>>] = Ways[<<p, k - 1>>] + Ways[<<p - 1, k>>]
               /\ Ways[<<p, k>>] \in Nat /\ Ways[<<p, k - 1>>] \in Nat /\ Ways[<<p - 1, k>>] \in Nat
               /\ p \in 0 .. All /\ p - 1 \in 0 .. All
               /\ order[p] \in U => Ways[<<p, Left(w[order[p]])>>] = Ways[<<p, k - 1>>]
    BY <1>0, WaysLast
  <2>10. ASSUME NEW p \in 1 .. All
         PROVE  Ways[<<p, Left(v[other[p]])>>] \in Nat
    <3>1. other[p] \in Clients
      BY <2>3 DEF Orders, Bijection, Injection
    <3>. QED
      BY <2>9, <3>1, LeftIn, WaysNat
  <2>11. ASSUME NEW p \in 1 .. All
         PROVE  T[p] >= T[p - 1] + Ways[<<p, Left(w[order[p]])>>]
    <3>. DEFINE a == Ways[<<p, Left(w[order[p]])>>]
                b == Ways[<<p, Left(v[other[p]])>>]
                x == Ways[<<p, k>>]
                y == Ways[<<p - 1, k>>]
                z == Ways[<<p, k - 1>>]
    <3>1. /\ S[p] >= S[p - 1] + b /\ S[p] \in Int /\ S[p - 1] \in Int
          /\ T[p] = IF p < last THEN S[p] + x - 1 ELSE S[p] - 1
          /\ T[p - 1] = IF p - 1 < last THEN S[p - 1] + y - 1 ELSE S[p - 1] - 1
      BY <2>5, <2>6, <2>9
    <3>2. /\ b \in Nat /\ x \in Nat /\ y \in Nat /\ z \in Nat /\ x = z + y
          /\ (order[p] \notin U => a \in Nat /\ a <= b)
          /\ (order[p] \in U => a = z)
      BY <2>8, <2>9, <2>10
    <3>3. p = last => x <= b /\ order[p] \in U
      <4>. SUFFICES ASSUME p = last PROVE x <= b /\ order[p] \in U
        OBVIOUS
      <4>0. v[c] \in Nat /\ p \in 0 .. All
        BY <2>9
      <4>1. Left(v[c]) \in 0 .. Threshold /\ k <= Left(v[c])
        BY <1>0, <4>0, LeftIn DEF Left, k
      <4>2. Ways[<<p, k>>] <= Ways[<<p, Left(v[c])>>]
        BY <1>0, <4>0, <4>1, WaysGrow
      <4>. QED
        BY <2>2, <2>3, <4>2
    <3>4. p > last => order[p] \notin U
      BY <2>2
    <3>5. p \in Int /\ last \in Int
      BY <1>0
    <3>. HIDE DEF a, b, x, y, z
    <3>6. CASE p < last
      <4>1. a <= b + z /\ a \in Nat
        BY <3>2
      <4>2. T[p] = S[p] + x - 1 /\ T[p - 1] = S[p - 1] + y - 1
        BY <3>1, <3>5, <3>6
      <4>. QED
        BY <3>1, <3>2, <4>1, <4>2 DEF a
    <3>7. CASE p = last
      <4>1. T[p] = S[p] - 1 /\ T[p - 1] = S[p - 1] + y - 1
        BY <3>1, <3>5, <3>7
      <4>. QED
        BY <3>1, <3>2, <3>3, <3>7, <4>1 DEF a
    <3>8. CASE p > last
      <4>1. T[p] = S[p] - 1 /\ T[p - 1] = S[p - 1] - 1
        BY <3>1, <3>5, <3>8
      <4>. QED
        BY <3>1, <3>2, <3>4, <3>8, <4>1 DEF a
    <3>. QED
      BY <3>5, <3>6, <3>7, <3>8
  <2>12. t + 1 + 1 + T[All] <= Ways[<<All, Threshold>>]
    <3>0. All \in 0 .. All /\ ~(All < last)
      BY <1>0
    <3>1. All \in 0 .. All /\ T[All] = S[All] - 1 /\ S[All] \in Int
      BY <2>5, <2>6, <3>0
    <3>2. Ways[<<All, Threshold>>] \in Nat
      BY <1>0, <3>1, WaysNat
    <3>. QED
      BY <2>4, <3>1, <3>2
  <2>13. AddsUp(T, w, order)
    BY <2>6, <2>7, <2>11 DEF AddsUp
  <2>. QED
    BY <2>12, <2>13
<1>. QED
  BY <1>1 DEF Delayed

\* Every counting of tries is below the bound: what the last client adds is
\* never less than nothing.
LEMMA DelayedBounds ==
    ASSUME NEW t \in Nat, NEW v \in [Clients -> Nat], Delayed(t, v)
    PROVE  t < Ways[<<All, Threshold>>]
<1>0. All \in Nat /\ Threshold \in 0 .. Threshold
  BY BoundsNat
<1>1. PICK order : order \in Orders
  <2>1. ExistsBijection(1 .. All, Clients)
    BY AccountsAssumption, FS_CardinalityType DEF All
  <2>. QED
    BY <2>1 DEF ExistsBijection, Orders
<1>2. PICK S : AddsUp(S, v, order) /\ t + 1 + S[All] <= Ways[<<All, Threshold>>]
  BY <1>1 DEF Delayed
<1>. DEFINE Bad == {p \in Nat : p <= All /\ ~(S[p] >= 0)}
<1>3. Bad = {}
  <2>. SUFFICES ASSUME Bad # {} PROVE FALSE
    OBVIOUS
  <2>1. PICK p \in Bad : \A m \in Bad : p <= m
    <3>1. Bad \in SUBSET Nat
      OBVIOUS
    <3>. HIDE DEF Bad
    <3>. QED
      BY <3>1, LeastNumber
  <2>2. p \in Nat /\ p <= All /\ ~(S[p] >= 0)
    BY <2>1
  <2>3. p # 0
    BY <1>2, <2>2 DEF AddsUp
  <2>4. p \in 1 .. All /\ p \in 0 .. All /\ p - 1 \in 0 .. All /\ p - 1 \in Nat /\ ~(p <= p - 1)
    BY <1>0, <2>2, <2>3
  <2>5. p - 1 \notin Bad
    <3>. HIDE DEF Bad
    <3>. QED
      BY <2>1, <2>4
  <2>6. S[p - 1] >= 0
    BY <1>0, <2>2, <2>4, <2>5
  <2>7. S[p] \in Int /\ S[p - 1] \in Int /\ S[p] >= S[p - 1] + Ways[<<p, Left(v[order[p]])>>]
    BY <1>2, <2>4 DEF AddsUp
  <2>8. Ways[<<p, Left(v[order[p]])>>] \in Nat
    <3>1. order[p] \in Clients
      BY <1>1, <2>4, OrderIs
    <3>. QED
      BY <2>4, <3>1, LeftIn, WaysNat
  <2>. QED
    BY <2>2, <2>6, <2>7, <2>8
<1>4. All \in 0 .. All /\ All <= All
  BY <1>0
<1>5. S[All] >= 0
  BY <1>0, <1>3, <1>4
<1>6. S[All] \in Int
  BY <1>2, <1>4 DEF AddsUp
<1>7. Ways[<<All, Threshold>>] \in Nat
  BY <1>0, <1>4, WaysNat
<1>. QED
  BY <1>2, <1>5, <1>6, <1>7

-----------------------------------------------------------------------------
(* The lock comes *)

\* The count that a request will add to, if it still verifies a password of i,
\* and f is the count in the row.
Held(req, i, f) ==
    IF req.pc = "verify" /\ req.account = i /\ req.failures < f THEN req.failures ELSE f

Counts(i) == [c \in Clients |-> Held(request[c], i, failures[i])]

LockInv == \A i \in Accounts : Delayed(tries[i], Counts(i))

LEMMA HeldNat ==
    ASSUME NEW req \in Request, NEW i, NEW f \in Nat
    PROVE  Held(req, i, f) \in Nat /\ Held(req, i, f) <= f
  BY AccountsAssumption DEF Held, Request

LEMMA CountsNat ==
    ASSUME TypeOK, NEW i \in Accounts
    PROVE  Counts(i) \in [Clients -> Nat] /\ failures[i] \in Nat /\ tries[i] \in Nat
<1>1. failures[i] \in Nat /\ tries[i] \in Nat /\ \A c \in Clients : request[c] \in Request
  BY AccountsAssumption DEF TypeOK
<1>2. \A c \in Clients : Held(request[c], i, failures[i]) \in Nat
  BY <1>1, HeldNat
<1>. QED
  BY <1>1, <1>2 DEF Counts

\* A step that is not a wrong password resets the tries of an account, or
\* leaves its count alone; a request that begins has read the count.
CountStep ==
    /\ \A c \in Clients :
        \/ request'[c] = request[c]
        \/ request'[c].pc # "verify"
        \/ request'[c].failures = failures[request'[c].account]
    /\ \A i \in Accounts :
        tries'[i] = 0 \/ (tries'[i] = tries[i] /\ failures'[i] = failures[i])

LEMMA OtherSteps ==
    ASSUME TypeOK, RequestsMayGoOn, [Next]_vars, \A c \in Clients : ~WrongPassword(c)
    PROVE  CountStep
<1>. USE DEF CountStep, TypeOK
<1>1. ASSUME NEW t \in Tokens, OfToken(t)
      PROVE  CountStep
  BY <1>1 DEF OfToken, Refresh, Logout, ExpireToken, counter, history
<1>2. ASSUME NEW i \in Accounts, OfAccount(i)
      PROVE  CountStep
  <2>1. CASE UNCHANGED <<failures, tries, request>>
    BY <2>1
  <2>2. CASE Unlocked(i) /\ UNCHANGED request
    BY <2>2 DEF Unlocked
  <2>. QED
    BY <1>2, <2>1, <2>2
    DEF OfAccount, LockExpires, ResumeSession, ChooseUser, UpdateRole, Disable, Enable, Delete,
        counter, history
<1>3. ASSUME NEW c \in Clients, Cleared(c), request[c].account \in Accounts, Done(c)
      PROVE  CountStep
  BY <1>3 DEF Cleared, Done, Idle
<1>4. ASSUME NEW c \in Clients, SignIn(c)
      PROVE  CountStep
  <2>1. ASSUME NEW i \in Accounts, Login(c, i)
        PROVE  CountStep
    BY <2>1 DEF Login, WithRow, counter, history
  <2>2. CASE RightPassword(c)
    <3>1. request[c].account \in Accounts
      BY <2>2 DEF RightPassword, RequestsMayGoOn, MayGoOn
    <3>. QED
      BY <1>3, <2>2, <3>1 DEF RightPassword
  <2>. QED
    BY <1>4, <2>1, <2>2 DEF SignIn
<1>5. ASSUME NEW c \in Clients, SignUp(c)
      PROVE  CountStep
  <2>1. UNCHANGED <<failures, tries>>
    BY <1>5
    DEF SignUp, BeginRegister, BeginSession, BeginCreate, InsertAccount, InsertRefused,
        counter, history
  <2>2. \E req : req.pc # "verify" /\ request' = [request EXCEPT ![c] = req]
    BY <1>5
    DEF SignUp, BeginRegister, BeginSession, BeginCreate, InsertAccount, InsertRefused,
        Done, Idle, ForNew
  <2>. QED
    BY <2>1, <2>2
<1>6. ASSUME NEW c \in Clients, Reset(c)
      PROVE  CountStep
  <2>1. ASSUME NEW i \in Accounts, BeginReset(c, i)
        PROVE  CountStep
    BY <2>1 DEF BeginReset, WithRow, counter, history
  <2>2. CASE ResetPassword(c)
    <3>1. request[c].account \in Accounts
      BY <2>2 DEF ResetPassword, RequestsMayGoOn, MayGoOn
    <3>. QED
      BY <1>3, <2>2, <3>1 DEF ResetPassword
  <2>. QED
    BY <1>6, <2>1, <2>2 DEF Reset
<1>7. CASE Crash
  BY <1>7 DEF Crash, Idle, counter, history
<1>8. CASE UNCHANGED vars
  BY <1>8 DEF vars, counter, history
<1>. QED
  BY <1>1, <1>2, <1>4, <1>5, <1>6, <1>7, <1>8 DEF Next

LEMMA OtherStepsKeepLock ==
    ASSUME TypeOK, TypeOK', LockInv, CountStep
    PROVE  LockInv'
<1>. SUFFICES ASSUME NEW i \in Accounts
              PROVE  Delayed(tries'[i], Counts(i)')
  BY DEF LockInv
<1>. DEFINE w == Counts(i)'
<1>1. w \in [Clients -> Nat]
  <2>1. /\ failures'[i] \in Nat
        /\ \A c \in Clients : request'[c] \in Request
    BY AccountsAssumption DEF TypeOK
  <2>2. \A c \in Clients : Held(request'[c], i, failures'[i]) \in Nat
    BY <2>1, HeldNat
  <2>. QED
    BY <2>2 DEF Counts
<1>2. CASE tries'[i] = 0
  <2>. HIDE DEF w
  <2>1. Delayed(0, w)
    BY <1>1, DelayedFresh
  <2>. QED
    BY <1>2, <2>1 DEF w
<1>3. CASE tries'[i] = tries[i] /\ failures'[i] = failures[i]
  <2>1. \A c \in Clients : Counts(i)[c] <= w[c]
    <3>. SUFFICES ASSUME NEW c \in Clients
                  PROVE  Held(request[c], i, failures[i]) <= Held(request'[c], i, failures'[i])
      BY DEF Counts
    <3>1. failures[i] \in Nat /\ request[c] \in Request
      BY AccountsAssumption DEF TypeOK
    <3>2. CASE request'[c] = request[c]
      <4>1. Held(request[c], i, failures[i]) \in Nat
        BY <3>1, HeldNat
      <4>. QED
        BY <1>3, <3>2, <4>1
    <3>3. CASE request'[c].pc # "verify" \/ request'[c].failures = failures[request'[c].account]
      <4>1. Held(request'[c], i, failures'[i]) = failures[i]
        BY <1>3, <3>1, <3>3 DEF Held
      <4>. QED
        BY <3>1, <4>1, HeldNat
    <3>. QED
      BY <3>2, <3>3 DEF CountStep
  <2>2. Counts(i) \in [Clients -> Nat] /\ Delayed(tries[i], Counts(i))
    BY CountsNat DEF LockInv
  <2>. DEFINE v == Counts(i)
  <2>. HIDE DEF v, w
  <2>3. Delayed(tries[i], w)
    BY <1>1, <2>1, <2>2, DelayedMore DEF v
  <2>. QED
    BY <1>3, <2>3 DEF w
<1>. QED
  BY <1>2, <1>3 DEF CountStep

LEMMA WrongPasswordKeepsLock ==
    ASSUME TypeOK, TypeOK', RequestsMayGoOn, LockInv, NEW c \in Clients, WrongPassword(c)
    PROVE  LockInv'
<1>. DEFINE a == request[c].account
            r == request[c].failures
<1>1. /\ a \in Accounts /\ r \in Nat /\ request[c].pc = "verify"
      /\ failures' = [failures EXCEPT ![a] = r + 1]
      /\ tries' = [tries EXCEPT ![a] = IF r + 1 >= Threshold THEN 0 ELSE @ + 1]
      /\ request' = [request EXCEPT ![c] = Idle]
  BY AccountsAssumption
  DEF WrongPassword, Done, RequestsMayGoOn, MayGoOn, TypeOK, Request
<1>. HIDE DEF a, r
<1>2. CASE r + 1 >= Threshold
  <2>1. CountStep
    <3>1. \A d \in Clients : request'[d] = request[d] \/ request'[d].pc # "verify"
      BY <1>1 DEF TypeOK, Idle
    <3>2. \A i \in Accounts :
            tries'[i] = 0 \/ (tries'[i] = tries[i] /\ failures'[i] = failures[i])
      BY <1>1, <1>2 DEF TypeOK
    <3>. QED
      BY <3>1, <3>2 DEF CountStep
  <2>. QED
    BY <2>1, OtherStepsKeepLock
<1>3. CASE ~(r + 1 >= Threshold)
  <2>. SUFFICES ASSUME NEW i \in Accounts
                PROVE  Delayed(tries'[i], Counts(i)')
    BY DEF LockInv
  <2>. DEFINE v == Counts(i)
              w == Counts(i)'
  <2>1. /\ v \in [Clients -> Nat] /\ failures[i] \in Nat /\ tries[i] \in Nat
        /\ Delayed(tries[i], v)
    BY CountsNat DEF LockInv
  <2>2. /\ failures'[i] \in Nat
        /\ \A d \in Clients : request'[d] \in Request /\ request[d] \in Request
    BY AccountsAssumption DEF TypeOK
  <2>3. /\ w \in [Clients -> Nat]
        /\ \A d \in Clients : /\ v[d] = Held(request[d], i, failures[i])
                              /\ w[d] = Held(request'[d], i, failures'[i])
    <3>1. \A d \in Clients : Held(request'[d], i, failures'[i]) \in Nat
      BY <2>2, HeldNat
    <3>. QED
      BY <3>1 DEF Counts
  <2>. HIDE DEF v, w
  <2>4. /\ request'[c] = Idle
        /\ \A d \in Clients : d # c => request'[d] = request[d]
    BY <1>1 DEF TypeOK
  <2>5. CASE i = a
    <3>1. failures'[i] = r + 1 /\ tries'[i] = tries[i] + 1
      BY <1>1, <1>3, <2>5 DEF TypeOK
    <3>2. v[c] <= r
      BY <1>1, <2>1, <2>3, <2>5 DEF Held, r, a
    <3>3. w[c] = r + 1
      BY <2>3, <2>4, <3>1 DEF Held, Idle
    <3>4. ASSUME NEW d \in Clients
          PROVE  w[d] = r + 1 \/ v[d] <= w[d]
      <4>1. CASE d = c
        BY <3>3, <4>1
      <4>2. CASE d # c
        <5>1. request'[d] = request[d] /\ request[d].failures \in Nat
          BY <2>2, <2>4, <4>2, AccountsAssumption DEF Request
        <5>2. /\ v[d] = Held(request[d], i, failures[i])
              /\ w[d] = Held(request[d], i, r + 1)
          BY <2>3, <3>1, <5>1
        <5>. QED
          BY <1>1, <2>1, <5>1, <5>2 DEF Held
      <4>. QED
        BY <4>1, <4>2
    <3>5. r + 1 < Threshold
      BY <1>1, <1>3, AccountsAssumption
    <3>6. Delayed(tries[i] + 1, w)
      BY <1>1, <2>1, <2>3, <3>2, <3>3, <3>4, <3>5, DelayedWrite
    <3>. QED
      BY <3>1, <3>6 DEF w
  <2>6. CASE i # a
    <3>1. failures'[i] = failures[i] /\ tries'[i] = tries[i]
      BY <1>1, <2>6 DEF TypeOK
    <3>2. \A d \in Clients : v[d] <= w[d]
      <4>. TAKE d \in Clients
      <4>1. CASE d = c
        <5>1. w[d] = failures[i]
          BY <2>3, <2>4, <3>1, <4>1 DEF Held, Idle
        <5>. QED
          BY <2>1, <2>2, <2>3, <5>1, HeldNat
      <4>2. CASE d # c
        <5>1. v[d] = w[d] /\ v[d] \in Nat
          BY <2>1, <2>3, <2>4, <3>1, <4>2
        <5>. QED
          BY <5>1
      <4>. QED
        BY <4>1, <4>2
    <3>3. Delayed(tries[i], w)
      BY <2>1, <2>3, <3>2, DelayedMore
    <3>. QED
      BY <3>1, <3>3 DEF w
  <2>. QED
    BY <2>5, <2>6
<1>. QED
  BY <1>2, <1>3

LEMMA InitLock == Init => LockInv
<1>. SUFFICES ASSUME Init, NEW i \in Accounts
              PROVE  Delayed(tries[i], Counts(i))
  BY DEF LockInv
<1>1. TypeOK /\ tries[i] = 0
  BY InitAccounts DEF Init, AccountsInv, Sound
<1>2. Counts(i) \in [Clients -> Nat]
  BY <1>1, CountsNat
<1>. QED
  BY <1>1, <1>2, DelayedFresh

LEMMA NextLock == AccountsInv /\ LockInv /\ [Next]_vars => LockInv'
<1>. SUFFICES ASSUME AccountsInv, LockInv, [Next]_vars
              PROVE  LockInv'
  OBVIOUS
<1>1. TypeOK /\ RequestsMayGoOn /\ TypeOK'
  BY NextAccounts DEF AccountsInv, Sound
<1>2. CASE \A c \in Clients : ~WrongPassword(c)
  BY <1>1, <1>2, OtherSteps, OtherStepsKeepLock
<1>3. CASE ~(\A c \in Clients : ~WrongPassword(c))
  BY <1>1, <1>3, WrongPasswordKeepsLock
<1>. QED
  BY <1>2, <1>3

\* However many requests verify wrong passwords at a time, with counts they
\* read before others wrote theirs, the lock comes after less than a number of
\* tries that only their number and the threshold decide.
THEOREM AccountsLocked == Spec => []LockComesAnyway
<1>1. TypeOK /\ LockInv => LockComesAnyway
  <2>. SUFFICES ASSUME TypeOK, LockInv, NEW i \in Accounts
                PROVE  tries[i] < Ways[<<All, Threshold>>]
    BY DEF LockComesAnyway, All
  <2>1. tries[i] \in Nat /\ Counts(i) \in [Clients -> Nat] /\ Delayed(tries[i], Counts(i))
    BY CountsNat DEF LockInv
  <2>. QED
    BY <2>1, DelayedBounds
<1>. QED
  BY <1>1, InitAccounts, NextAccounts, InitLock, NextLock, PTL DEF Spec, AccountsInv, Sound
==============================================================================
