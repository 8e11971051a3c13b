---------------------------- MODULE AccessProofs ----------------------------
(***************************************************************************)
(* Proofs about Access, for any workers, browsers, addresses, names and    *)
(* .env files, and any number of events.                                   *)
(***************************************************************************)
EXTENDS Access, TLAPS, FiniteSetTheorems

-----------------------------------------------------------------------------
(* Types *)

Serving  == [pc : {"serving", "popping"}, from : Browser, s : Session, got : BOOLEAN]
Verified == [pc : {"verified"}, from : Browser, ip : Ip, s : Session]

LEMMA ReqTypes ==
    ASSUME TypeOK, NEW w \in Worker
    PROVE  /\ req[w].pc \in {"serving", "popping"} => req[w] \in Serving
           /\ req[w].pc = "verified" => req[w] \in Verified
           /\ req[w].pc = "refused"  => req[w].ip \in Ip
           /\ req[w].pc = "counting" => req[w].ip \in Ip /\ req[w].n \in Nat
           /\ Serving \subseteq Request /\ Verified \subseteq Request /\ Idle \in Request
  BY DEF TypeOK, Request, Serving, Verified, Idle

LEMMA SessionType ==
    /\ Anon \in Session
    /\ \A u \in 0..MaxUser, n \in Name, r \in Role, g \in BOOLEAN : SignIn(u, n, r, g) \in Session
  BY AccessAssumption DEF Anon, Session, SignIn, Role

LEMMA SpendType == ASSUME TypeOK, NEW e \in Event, Spend(e) PROVE used' \in [Event -> Nat]
  BY AccessAssumption DEF TypeOK, Spend

LEMMA RoleNowType == ASSUME TypeOK, NEW s \in Session PROVE RoleNow(s) \in Role \cup {"none"}
<1>1. env.allow \in [SsoName -> Role \cup {"none"}]
  BY AccessAssumption DEF TypeOK, EnvFile
<1>2. Live(s.uid) => users[s.uid].role \in Role
  BY DEF Live, Exists, TypeOK, Row
<1> QED BY <1>1, <1>2 DEF RoleNow

LEMMA SeedType ==
    ASSUME NEW us \in [UserId -> Row], NEW last \in 0..MaxUser, NEW e \in Env,
           SeedsRow(us, e) => last < MaxUser
    PROVE  Seed(us, last, e) \in [UserId -> Row]
<1>1. e.name \in Name /\ e.cred \in Cred
  BY AccessAssumption DEF EnvFile
<1>2. [name |-> e.name, cred |-> e.cred, role |-> "admin", disabled |-> FALSE] \in Row
  BY <1>1 DEF Row, Role
<1>3. \A u \in UserId : [us[u] EXCEPT !.cred = e.cred, !.role = "admin", !.disabled = FALSE] \in Row
  BY <1>1, Zenon DEF Row, Role
<1> QED BY <1>2, <1>3 DEF Seed

LEMMA TypeInit == Init => TypeOK
<1> SUFFICES ASSUME Init PROVE TypeOK
  OBVIOUS
<1>1. [u \in UserId |-> NoRow] \in [UserId -> Row]
  BY DEF NoRow, Row, Cred, Role
<1>2. users \in [UserId -> Row]
  BY <1>1, SeedType, AccessAssumption DEF Init
<1>3. lastId \in 0..MaxUser /\ env \in Env
  BY AccessAssumption DEF Init
<1>4. fails \in [Ip -> [n : Nat, locked : BOOLEAN]]
  BY DEF Init
<1>5. cookie \in [Browser -> Session] /\ req \in [Worker -> Request]
  BY SessionType DEF Init, Request, Idle
<1>6. secret \in BOOLEAN
  BY Zenon DEF Init
<1> QED BY <1>2, <1>3, <1>4, <1>5, <1>6 DEF Init, TypeOK

LEMMA TypeRestart == ASSUME TypeOK, NEW e \in Env, Restart(e) PROVE TypeOK'
<1>1. users' \in [UserId -> Row]
  BY SeedType DEF Restart, TypeOK
<1>2. lastId' \in 0..MaxUser
  BY AccessAssumption DEF Restart, TypeOK
<1>3. req' \in [Worker -> Request]
  BY DEF Restart, Request, Idle
<1>4. used' \in [Event -> Nat]
  BY SpendType DEF Restart, Event
<1> QED BY <1>1, <1>2, <1>3, <1>4 DEF Restart, TypeOK, tokens

\* A sign-in: checked, admitted or counted.
LEMMA TypeLogin ==
    ASSUME TypeOK, NEW w \in Worker,
           \/ \E b \in Browser, i \in Ip, n \in Name, c \in Cred \ {0} : LoginPost(w, b, i, n, c)
           \/ \E i \in Ip, n \in SsoName : GoogleRefused(w, i, n)
           \/ Admit(w) \/ FailRead(w) \/ FailWrite(w) \/ LoginFails(w)
    PROVE  TypeOK'
<1>1. ASSUME NEW b \in Browser, NEW i \in Ip, NEW n \in Name, NEW c \in Cred \ {0}, LoginPost(w, b, i, n, c)
      PROVE  TypeOK'
  <2> DEFINE who == {u \in Named(n) : Live(u) /\ users[u].cred = c}
             u0  == CHOOSE u \in who : TRUE
  <2>1. CASE who # {}
    <3>1. u0 \in who /\ u0 \in UserId
      BY <2>1 DEF Named
    <3>2. u0 \in 0..MaxUser /\ users[u0].role \in Role
      BY <3>1, AccessAssumption DEF TypeOK, Row, UserId
    <3>3. SignIn(u0, n, users[u0].role, FALSE) \in Session
      BY <3>2, SessionType
    <3>4. req' = [req EXCEPT ![w] = [pc |-> "verified", from |-> b, ip |-> i, s |-> SignIn(u0, n, users[u0].role, FALSE)]]
      BY <1>1, <2>1 DEF LoginPost
    <3>5. req' \in [Worker -> Request]
      BY <3>3, <3>4 DEF TypeOK, Request
    <3>6. used' = used /\ UNCHANGED <<env, tables, cookie, tokens, guesses>>
      BY <1>1, <2>1 DEF LoginPost
    <3> QED BY <3>5, <3>6 DEF TypeOK, tables, tokens
  <2>2. CASE who = {}
    <3>0. /\ req' = [req EXCEPT ![w] = [pc |-> "refused", ip |-> i]]
          /\ Spend("guess") /\ UNCHANGED <<env, tables, cookie, tokens, guesses>>
      BY <1>1, <2>2 DEF LoginPost
    <3>1. req' \in [Worker -> Request]
      BY <3>0 DEF TypeOK, Request
    <3>2. used' \in [Event -> Nat]
      BY <3>0, SpendType DEF Event
    <3> QED BY <3>0, <3>1, <3>2 DEF TypeOK, tables, tokens
  <2> QED BY <2>1, <2>2
<1>2. CASE \E i \in Ip, n \in SsoName : GoogleRefused(w, i, n)
  <2>1. req' \in [Worker -> Request]
    BY <1>2 DEF GoogleRefused, TypeOK, Request
  <2>2. used' \in [Event -> Nat]
    BY <1>2, SpendType DEF GoogleRefused, Event
  <2> QED BY <1>2, <2>1, <2>2 DEF GoogleRefused, TypeOK, tables, tokens
<1>3. CASE Admit(w)
  <2>1. req[w] \in Verified /\ req[w].ip \in Ip
    BY <1>3, ReqTypes DEF Admit, Verified
  <2>2. cookie' \in [Browser -> Session] /\ req' \in [Worker -> Request]
    BY <1>3, <2>1, ReqTypes DEF Admit, Verified, TypeOK
  <2>3. fails' \in [Ip -> [n : Nat, locked : BOOLEAN]] /\ guesses' \in [Ip -> Nat]
    BY <1>3, <2>1 DEF Admit, TypeOK
  <2> QED BY <1>3, <2>2, <2>3 DEF Admit, TypeOK, tokens
<1>4. CASE FailRead(w)
  <2>1. req[w].ip \in Ip
    BY <1>4, ReqTypes DEF FailRead
  <2>2. req' \in [Worker -> Request]
    BY <1>4, <2>1 DEF FailRead, TypeOK, Request
  <2> QED BY <1>4, <2>2 DEF FailRead, TypeOK, tables, tokens
<1>5. CASE FailWrite(w)
  <2>1. req[w].ip \in Ip /\ req[w].n \in Nat
    BY <1>5, ReqTypes DEF FailWrite
  <2>2. fails' \in [Ip -> [n : Nat, locked : BOOLEAN]]
    BY <1>5, <2>1, AccessAssumption DEF FailWrite, TypeOK
  <2>3. guesses' \in [Ip -> Nat] /\ req' \in [Worker -> Request]
    BY <1>5, <2>1, ReqTypes DEF FailWrite, TypeOK
  <2> QED BY <1>5, <2>2, <2>3 DEF FailWrite, TypeOK, tokens
<1>6. CASE LoginFails(w)
  <2>1. req' \in [Worker -> Request]
    BY <1>6, ReqTypes DEF LoginFails, TypeOK
  <2>2. used' \in [Event -> Nat]
    BY <1>6, SpendType DEF LoginFails, Event
  <2> QED BY <1>6, <2>1, <2>2 DEF LoginFails, TypeOK, tables, tokens
<1> QED BY <1>1, <1>2, <1>3, <1>4, <1>5, <1>6

\* A row of a single sign-on.
LEMMA UpsertType ==
    ASSUME TypeOK, NEW n \in SsoName, NEW r \in Role, Upsert(n, r)
    PROVE  /\ users' \in [UserId -> Row] /\ lastId' \in 0..MaxUser
           /\ IdOf(users', n) \in 0..MaxUser /\ IdOf(users', n) \in UserId /\ users'[IdOf(users', n)].name = n
           /\ n \in Name
<1>1. n \in Name
  BY DEF Name
<1>2. \E u \in UserId : users'[u].name = n
  <2>1. CASE Named(n) # {}
    BY <2>1 DEF Upsert, Named, TypeOK, Row
  <2>2. CASE Named(n) = {}
    <3>1. lastId + 1 \in UserId
      BY <2>2, AccessAssumption DEF Upsert, TypeOK, UserId
    <3>2. users'[lastId + 1].name = n
      BY <2>2, <3>1 DEF Upsert, TypeOK
    <3> QED BY <3>1, <3>2
  <2> QED BY <2>1, <2>2
<1>3. IdOf(users', n) \in UserId /\ users'[IdOf(users', n)].name = n
  BY <1>2 DEF IdOf
<1>4. users' \in [UserId -> Row] /\ lastId' \in 0..MaxUser
  <2>1. CASE Named(n) # {}
    <3>1. /\ users' = [u \in UserId |-> IF u \in Named(n) THEN [users[u] EXCEPT !.role = r] ELSE users[u]]
          /\ lastId' = lastId
      BY <2>1 DEF Upsert
    <3>2. \A u \in UserId : users[u] \in Row /\ [users[u] EXCEPT !.role = r] \in Row
      BY DEF TypeOK, Row
    <3> QED BY <3>1, <3>2 DEF TypeOK
  <2>2. CASE Named(n) = {}
    <3>1. /\ users' = [users EXCEPT ![lastId + 1] = [name |-> n, cred |-> 0, role |-> r, disabled |-> FALSE]]
          /\ lastId < MaxUser /\ lastId' = lastId + 1
      BY <2>2 DEF Upsert
    <3>2. [name |-> n, cred |-> 0, role |-> r, disabled |-> FALSE] \in Row
      BY <1>1 DEF Row, Cred
    <3>3. lastId' \in 0..MaxUser
      BY <3>1, AccessAssumption DEF TypeOK
    <3> QED BY <3>1, <3>2, <3>3 DEF TypeOK
  <2> QED BY <2>1, <2>2
<1> QED BY <1>1, <1>3, <1>4, AccessAssumption DEF UserId

LEMMA TypeSso ==
    ASSUME TypeOK, NEW b \in Browser, NEW n \in SsoName,
           \/ \E g \in SUBSET Role, a \in BOOLEAN : SsoCallback(b, n, g, a)
           \/ \E i \in Ip : GoogleCallback(b, i, n)
    PROVE  TypeOK'
<1>1. used' \in [Event -> Nat]
  BY SpendType DEF SsoCallback, GoogleCallback, Event
<1>2. ASSUME NEW g \in SUBSET Role, NEW a \in BOOLEAN, SsoCallback(b, n, g, a)
      PROVE  TypeOK'
  <2> DEFINE r == RoleForClaims(g, a)
  <2>1. r \in Role
    BY <1>2, AccessAssumption DEF SsoCallback, RoleForClaims, Role
  <2>2. /\ users' \in [UserId -> Row] /\ lastId' \in 0..MaxUser
        /\ IdOf(users', n) \in 0..MaxUser /\ n \in Name
    BY <1>2, <2>1, UpsertType DEF SsoCallback
  <2>3. cookie' \in [Browser -> Session]
    BY <1>2, <2>1, <2>2, SessionType DEF SsoCallback, TypeOK
  <2> QED BY <1>1, <1>2, <2>2, <2>3 DEF SsoCallback, TypeOK, tokens
<1>3. ASSUME NEW i \in Ip, GoogleCallback(b, i, n)
      PROVE  TypeOK'
  <2> DEFINE r == env.allow[n]
  <2>1. r \in Role
    BY <1>3, AccessAssumption DEF GoogleCallback, TypeOK, EnvFile
  <2>2. /\ users' \in [UserId -> Row] /\ lastId' \in 0..MaxUser
        /\ IdOf(users', n) \in 0..MaxUser /\ n \in Name
    BY <1>3, <2>1, UpsertType DEF GoogleCallback
  <2>3. cookie' \in [Browser -> Session]
    BY <1>3, <2>1, <2>2, SessionType DEF GoogleCallback, TypeOK
  <2>4. fails' \in [Ip -> [n : Nat, locked : BOOLEAN]] /\ guesses' \in [Ip -> Nat]
    BY <1>3 DEF GoogleCallback, TypeOK
  <2> QED BY <1>1, <1>3, <2>2, <2>3, <2>4 DEF GoogleCallback, TypeOK, tokens
<1> QED BY <1>2, <1>3

\* The answer of a request that is being served.
LEMMA AnswerType ==
    ASSUME TypeOK, NEW w \in Worker, req[w].pc \in {"serving", "popping"}, NEW s \in Session, Answer(w, s)
    PROVE  /\ cookie' \in [Browser -> Session] /\ req' \in [Worker -> Request]
           /\ req' = [req EXCEPT ![w] = Idle]
<1>1. req[w] \in Serving /\ Idle \in Request
  BY ReqTypes
<1> QED BY <1>1 DEF Answer, Serving, TypeOK

LEMMA TypeArrive ==
    ASSUME TypeOK, NEW w \in Worker, NEW b \in Browser, NEW i \in Ip, NEW ok \in BOOLEAN, Arrive(w, b, i, ok)
    PROVE  TypeOK'
<1> DEFINE s == Revalidated(cookie[b], ok)
           r == [pc |-> "serving", from |-> b, s |-> s, got |-> FALSE]
<1>1. cookie[b] \in Session
  BY DEF TypeOK
<1>2. RoleNow(cookie[b]) \in Role \cup {"none"}
  BY <1>1, RoleNowType
<1>3. s \in Session
  <2> DEFINE c == cookie[b]
  <2>1. ASSUME RoleNow(c) # "none"
        PROVE  [c EXCEPT !.role = RoleNow(c), !.name = users[c.uid].name] \in Session
    <3>1. users[c.uid].name \in Name \cup {NoName}
      BY <2>1 DEF RoleNow, Live, Exists, TypeOK, Row
    <3> QED BY <1>1, <1>2, <2>1, <3>1 DEF Session
  <2> QED BY <1>1, <2>1, SessionType DEF Revalidated
<1>5. used' \in [Event -> Nat]
  BY SpendType DEF Arrive, TypeOK, Event
<1>6. \/ req' = [req EXCEPT ![w] = r] /\ cookie' = cookie
      \/ cookie' = [cookie EXCEPT ![b] = Anon] /\ req' = req
  BY DEF Arrive
<1> HIDE DEF s
<1>7. r \in Request
  BY <1>3 DEF Request
<1> HIDE DEF r
<1>8. req' \in [Worker -> Request] /\ cookie' \in [Browser -> Session]
  BY <1>6, <1>7, SessionType DEF TypeOK
<1> QED BY <1>5, <1>8 DEF Arrive, TypeOK, tables, tokens

\* The pages.
LEMMA TypePages ==
    ASSUME TypeOK, NEW w \in Worker,
           View(w) \/ Unlock(w) \/ CreateToken(w) \/ RevokeToken(w) \/ PopDelete(w)
    PROVE  TypeOK'
<1>1. req[w].pc \in {"serving", "popping"}
  BY DEF View, Unlock, CreateToken, RevokeToken, PopDelete, MayServe
<1>2. req[w] \in Serving
  BY <1>1, ReqTypes
<1>3. req[w].s \in Session /\ [req[w].s EXCEPT !.handle = TRUE] \in Session
  BY <1>2 DEF Serving, Session
<1>4. cookie' \in [Browser -> Session] /\ req' \in [Worker -> Request]
  BY <1>1, <1>3, AnswerType DEF View, Unlock, CreateToken, RevokeToken, PopDelete
<1>5. used' \in [Event -> Nat]
  BY SpendType DEF View, Unlock, CreateToken, RevokeToken, PopDelete, TypeOK, Event
<1>6. fails' \in [Ip -> [n : Nat, locked : BOOLEAN]] /\ guesses' \in [Ip -> Nat]
  <2>1. CASE Unlock(w)
    <3>1. fails' = [i \in Ip |-> [n |-> 0, locked |-> FALSE]] /\ guesses' = [i \in Ip |-> 0]
      BY <2>1 DEF Unlock
    <3> QED BY <3>1
  <2>2. CASE ~Unlock(w)
    <3>1. UNCHANGED <<fails, guesses>>
      BY <2>2 DEF View, CreateToken, RevokeToken, PopDelete, tables
    <3> QED BY <3>1 DEF TypeOK
  <2> QED BY <2>1, <2>2
<1>7. secret' \in BOOLEAN
  <2>1. secret \in BOOLEAN
    BY DEF TypeOK
  <2> QED BY <2>1, Zenon DEF View, Unlock, CreateToken, RevokeToken, PopDelete, tokens
<1>8. token' \in {"none", "good", "revoked"} /\ shown' \in Nat
  BY DEF View, Unlock, CreateToken, RevokeToken, PopDelete, TypeOK, tokens
<1>9. UNCHANGED <<env, users, lastId>>
  BY DEF View, Unlock, CreateToken, RevokeToken, PopDelete, tables
<1> QED BY <1>4, <1>5, <1>6, <1>7, <1>8, <1>9 DEF TypeOK

LEMMA TypePop == ASSUME TypeOK, NEW w \in Worker, NEW t \in BOOLEAN, PopRead(w, t) PROVE TypeOK'
<1>1. req[w] \in Serving
  BY ReqTypes DEF PopRead, MayServe
<1> DEFINE r == [[[req[w] EXCEPT !.pc = "popping"] EXCEPT !.got = secret /\ t] EXCEPT !.s.handle = FALSE]
<1>2. (secret /\ t) \in BOOLEAN
  BY DEF TypeOK
<1>3. [[req[w] EXCEPT !.pc = "popping"] EXCEPT !.got = secret /\ t] \in Serving
  BY <1>1, <1>2, Zenon DEF Serving
<1>4. r \in Serving
  <2>1. \A x \in Serving : [x EXCEPT !.s.handle = FALSE] \in Serving
    BY DEF Serving, Session
  <2> QED BY <1>3, <2>1
<1>5. req' = [req EXCEPT ![w] = r]
  BY DEF PopRead, TypeOK
<1> HIDE DEF r
<1>6. req' \in [Worker -> Request]
  BY <1>4, <1>5, ReqTypes DEF TypeOK
<1> QED BY <1>6 DEF PopRead, TypeOK, tables, tokens

\* The users page.
LEMMA EditType ==
    ASSUME TypeOK, NEW w \in Worker, NEW us \in [UserId -> Row], Edit(w, us), lastId' \in 0..MaxUser
    PROVE  TypeOK'
<1>1. req[w].pc \in {"serving", "popping"} /\ req[w] \in Serving
  BY ReqTypes DEF Edit, MayServe
<1>2. cookie' \in [Browser -> Session] /\ req' \in [Worker -> Request]
  BY <1>1, AnswerType DEF Edit, Serving
<1>3. used' \in [Event -> Nat]
  BY SpendType DEF Edit, Event
<1> QED BY <1>2, <1>3 DEF Edit, TypeOK, tokens

LEMMA TypeUsers ==
    ASSUME TypeOK, NEW w \in Worker,
           \/ \E n \in LocalName, r \in Role : AddUser(w, n, r)
           \/ \E u \in UserId : DeleteUser(w, u) \/ (\E r \in Role : SetUserRole(w, u, r))
                                                 \/ (\E d \in BOOLEAN : SetUserDisabled(w, u, d))
    PROVE  TypeOK'
<1>1. ASSUME NEW n \in LocalName, NEW r \in Role, AddUser(w, n, r)
      PROVE  TypeOK'
  <2>1. [name |-> n, cred |-> 3, role |-> r, disabled |-> FALSE] \in Row
    BY DEF Row, Cred, Name
  <2>2. [users EXCEPT ![lastId + 1] = [name |-> n, cred |-> 3, role |-> r, disabled |-> FALSE]] \in [UserId -> Row]
    BY <2>1 DEF TypeOK
  <2>3. lastId' \in 0..MaxUser
    BY <1>1, AccessAssumption DEF AddUser, TypeOK
  <2> QED BY <1>1, <2>2, <2>3, EditType DEF AddUser
<1>2. ASSUME NEW u \in UserId, NEW r \in Role, SetUserRole(w, u, r)
      PROVE  TypeOK'
  <2>1. [users EXCEPT ![u].role = r] \in [UserId -> Row]
    BY DEF TypeOK, Row
  <2> QED BY <1>2, <2>1, EditType DEF SetUserRole, TypeOK
<1>3. ASSUME NEW u \in UserId, NEW d \in BOOLEAN, SetUserDisabled(w, u, d)
      PROVE  TypeOK'
  <2>1. [users[u] EXCEPT !.disabled = d] \in Row /\ users \in [UserId -> Row]
    BY DEF TypeOK, Row
  <2>2. [users EXCEPT ![u].disabled = d] \in [UserId -> Row]
    BY <2>1
  <2> QED BY <1>3, <2>2, EditType DEF SetUserDisabled, TypeOK
<1>4. ASSUME NEW u \in UserId, DeleteUser(w, u)
      PROVE  TypeOK'
  <2>1. [users EXCEPT ![u] = NoRow] \in [UserId -> Row]
    BY DEF TypeOK, Row, NoRow, Cred, Role
  <2> QED BY <1>4, <2>1, EditType DEF DeleteUser, TypeOK
<1> QED BY <1>1, <1>2, <1>3, <1>4

LEMMA TypeTime ==
    ASSUME TypeOK,
           \/ \E i \in Ip : LockExpires(i)
           \/ \E b \in Browser : Logout(b) \/ GoesIdle(b)
    PROVE  TypeOK'
<1>1. CASE \E i \in Ip : LockExpires(i)
  <2>1. PICK i \in Ip : /\ fails' = [fails EXCEPT ![i].locked = FALSE] /\ guesses' = [guesses EXCEPT ![i] = 0]
                        /\ UNCHANGED <<env, users, lastId, cookie, req, tokens, used>>
    BY <1>1 DEF LockExpires
  <2>2. fails \in [Ip -> [n : Nat, locked : BOOLEAN]] /\ guesses \in [Ip -> Nat]
    BY DEF TypeOK
  <2>3. [fails[i] EXCEPT !.locked = FALSE] \in [n : Nat, locked : BOOLEAN]
    BY <2>2
  <2>4. fails' \in [Ip -> [n : Nat, locked : BOOLEAN]] /\ guesses' \in [Ip -> Nat]
    BY <2>1, <2>2, <2>3
  <2> QED BY <2>1, <2>4 DEF TypeOK, tokens
<1>2. CASE \E b \in Browser : Logout(b)
  BY <1>2, SessionType DEF Logout, TypeOK, tokens, tables
<1>3. CASE \E b \in Browser : GoesIdle(b)
  <2>1. used' \in [Event -> Nat]
    BY <1>3, SpendType DEF GoesIdle, Event
  <2>2. cookie' \in [Browser -> Session]
    <3>1. PICK b \in Browser : cookie' = [cookie EXCEPT ![b].fresh = FALSE]
      BY <1>3 DEF GoesIdle
    <3>2. cookie \in [Browser -> Session] /\ [cookie[b] EXCEPT !.fresh = FALSE] \in Session
      BY DEF TypeOK, Session
    <3> QED BY <3>1, <3>2
  <2> QED BY <1>3, <2>1, <2>2 DEF GoesIdle, TypeOK, tokens, tables
<1> QED BY <1>1, <1>2, <1>3

LEMMA TypeStep == TypeOK /\ [Next]_vars => TypeOK'
<1> SUFFICES ASSUME TypeOK, [Next]_vars PROVE TypeOK'
  OBVIOUS
<1>1. CASE UNCHANGED vars
  BY <1>1 DEF TypeOK, vars
<1>2. CASE Next
  BY <1>2, TypeRestart, TypeLogin, TypeSso, TypeArrive, TypePages, TypePop, TypeUsers, TypeTime DEF Next
<1> QED BY <1>1, <1>2

-----------------------------------------------------------------------------
(* Nobody is taken for somebody else *)

\* The ids given out so far, and whose they were.
NameInv ==
    /\ \A u \in UserId : u > lastId => users[u].name = NoName
    /\ \A s \in Held : s.uid # 0 => s.uid \in UserId /\ s.uid <= lastId /\ users[s.uid].name \in {s.name, NoName}

\* A row keeps its name or goes, and its id is not given out again.
LEMMA NamesKept ==
    ASSUME TypeOK, Next, \A u \in UserId : u > lastId => users[u].name = NoName
    PROVE  /\ lastId' >= lastId
           /\ \A u \in UserId : u <= lastId => users'[u].name \in {users[u].name, NoName}
           /\ \A u \in UserId : u > lastId' => users'[u].name = NoName
<1> DEFINE Kept == /\ lastId' >= lastId
                   /\ \A u \in UserId : u <= lastId => users'[u].name \in {users[u].name, NoName}
                   /\ \A u \in UserId : u > lastId' => users'[u].name = NoName
<1>0. users \in [UserId -> Row] /\ lastId \in Nat /\ \A u \in UserId : u \in Nat
  BY DEF TypeOK, UserId
<1>1. ASSUME UNCHANGED lastId, \A u \in UserId : users'[u].name \in {users[u].name, NoName}
      PROVE  Kept
  BY <1>0, <1>1
<1>2. ASSUME NEW x, lastId' = lastId + 1, users' = [users EXCEPT ![lastId + 1] = x]
      PROVE  Kept
  BY <1>0, <1>2
<1>3. ASSUME NEW e \in Env, Restart(e)
      PROVE  Kept
  <2>1. CASE SeedsRow(users, e)
    <3>1. /\ users' = [users EXCEPT ![lastId + 1] = [name |-> e.name, cred |-> e.cred, role |-> "admin",
                                                    disabled |-> FALSE]]
          /\ lastId' = lastId + 1
      BY <1>3, <2>1 DEF Restart, Seed, SeedsRow
    <3> QED BY <1>2, <3>1
  <2>2. CASE ~SeedsRow(users, e)
    <3>1. lastId' = lastId /\ users' = Seed(users, lastId, e)
      BY <1>3, <2>2 DEF Restart
    <3>2. \A u \in UserId : users'[u].name = users[u].name
      BY <1>0, <2>2, <3>1 DEF Seed, SeedsRow, Row
    <3> QED BY <1>1, <3>1, <3>2
  <2> QED BY <2>1, <2>2
<1>4. ASSUME NEW n, NEW r, Upsert(n, r)
      PROVE  Kept
  <2>1. CASE Named(n) = {}
    BY <1>2, <1>4, <2>1 DEF Upsert
  <2>2. CASE Named(n) # {}
    <3>1. \A u \in UserId : users'[u].name = users[u].name
      BY <1>0, <1>4, <2>2 DEF Upsert, Row
    <3> QED BY <1>1, <1>4, <2>2, <3>1 DEF Upsert
  <2> QED BY <2>1, <2>2
<1>5. ASSUME NEW w \in Worker, NEW n \in LocalName, NEW r \in Role, AddUser(w, n, r)
      PROVE  Kept
  BY <1>2, <1>5 DEF AddUser, Edit
<1>6. ASSUME NEW w \in Worker, NEW u \in UserId,
             DeleteUser(w, u) \/ (\E r \in Role : SetUserRole(w, u, r)) \/ (\E d \in BOOLEAN : SetUserDisabled(w, u, d))
      PROVE  Kept
  <2>1. UNCHANGED lastId
    BY <1>6 DEF DeleteUser, SetUserRole, SetUserDisabled
  <2>2. ASSUME NEW v \in UserId PROVE users'[v].name \in {users[v].name, NoName}
    <3>1. CASE DeleteUser(w, u)
      BY <1>0, <3>1 DEF DeleteUser, Edit, NoRow
    <3>2. ASSUME NEW r \in Role, SetUserRole(w, u, r) PROVE users'[v].name = users[v].name
      BY <1>0, <3>2 DEF SetUserRole, Edit, Row
    <3>3. ASSUME NEW d \in BOOLEAN, SetUserDisabled(w, u, d) PROVE users'[v].name = users[v].name
      <4>1. users' = [users EXCEPT ![u].disabled = d] /\ users[u] \in Row
        BY <1>0, <3>3 DEF SetUserDisabled, Edit
      <4> QED BY <1>0, <4>1 DEF Row
    <3> QED BY <1>6, <3>1, <3>2, <3>3
  <2> QED BY <1>1, <2>1, <2>2
<1>7. ASSUME UNCHANGED <<users, lastId>>
      PROVE  Kept
  BY <1>1, <1>7
<1>8. CASE \/ \E i \in Ip : LockExpires(i)
           \/ \E b \in Browser : Logout(b) \/ GoesIdle(b)
  BY <1>7, <1>8 DEF LockExpires, Logout, GoesIdle, tables
<1>9. ASSUME NEW w \in Worker,
             \/ \E b \in Browser, i \in Ip, n \in Name, c \in Cred \ {0} : LoginPost(w, b, i, n, c)
             \/ \E i \in Ip, n \in SsoName : GoogleRefused(w, i, n)
             \/ \E b \in Browser, i \in Ip, r \in BOOLEAN : Arrive(w, b, i, r)
             \/ Admit(w) \/ FailRead(w) \/ FailWrite(w) \/ LoginFails(w)
             \/ View(w) \/ Unlock(w) \/ CreateToken(w) \/ RevokeToken(w) \/ PopDelete(w)
             \/ \E t \in BOOLEAN : PopRead(w, t)
      PROVE  Kept
  <2>1. UNCHANGED <<users, lastId>>
    BY <1>9 DEF LoginPost, GoogleRefused, Arrive, Admit, FailRead, FailWrite, LoginFails, View, Unlock, CreateToken,
                RevokeToken, PopDelete, PopRead, tables
  <2> QED BY <1>7, <2>1
<1>10. CASE \E b \in Browser, n \in SsoName : \/ \E g \in SUBSET Role, a \in BOOLEAN : SsoCallback(b, n, g, a)
                                              \/ \E i \in Ip : GoogleCallback(b, i, n)
  BY <1>4, <1>10 DEF SsoCallback, GoogleCallback
<1> QED BY <1>3, <1>5, <1>6, <1>8, <1>9, <1>10 DEF Next

\* s is nobody's, is held already, or names the row it points to.
Rightful(s) ==
    \/ s.uid = 0
    \/ \E t \in Held : t.uid = s.uid /\ t.name = s.name
    \/ s.uid \in UserId /\ users'[s.uid].name = s.name /\ s.name # NoName

\* How a worker comes to what it is at.
LEMMA RequestStep ==
    ASSUME TypeOK, Next, NEW v \in Worker
    PROVE  \/ req'[v] = req[v] \/ req'[v].pc \in {"idle", "refused", "counting"}
           \/ (\E b \in Browser, i \in Ip, n \in Name, c \in Cred \ {0} : LoginPost(v, b, i, n, c))
           \/ (\E b \in Browser, i \in Ip, ok \in BOOLEAN : Arrive(v, b, i, ok))
           \/ (\E t \in BOOLEAN : PopRead(v, t))
<1>1. CASE \E e \in Env : Restart(e)
  BY <1>1 DEF Restart, Idle
<1>2. CASE \/ \E i \in Ip : LockExpires(i)
           \/ \E b \in Browser : Logout(b) \/ GoesIdle(b)
           \/ \E b \in Browser, n \in SsoName : \/ \E g \in SUBSET Role, a \in BOOLEAN : SsoCallback(b, n, g, a)
                                                \/ \E i \in Ip : GoogleCallback(b, i, n)
  <2>1. req' = req
    BY <1>2 DEF LockExpires, Logout, GoesIdle, SsoCallback, GoogleCallback
  <2> QED BY <2>1
<1>3. ASSUME NEW w \in Worker,
             \/ \E i \in Ip, n \in SsoName : GoogleRefused(w, i, n)
             \/ Admit(w) \/ FailRead(w) \/ FailWrite(w) \/ LoginFails(w)
             \/ View(w) \/ Unlock(w) \/ CreateToken(w) \/ RevokeToken(w) \/ PopDelete(w)
             \/ \E n \in LocalName, r \in Role : AddUser(w, n, r)
             \/ \E u \in UserId : DeleteUser(w, u) \/ (\E r \in Role : SetUserRole(w, u, r))
                                                   \/ (\E d \in BOOLEAN : SetUserDisabled(w, u, d))
      PROVE  req'[v] = req[v] \/ req'[v].pc \in {"idle", "refused", "counting"}
  <2>1. ASSUME NEW j, j.pc \in {"idle", "refused", "counting"}, req' = [req EXCEPT ![w] = j]
        PROVE  req'[v] = req[v] \/ req'[v].pc \in {"idle", "refused", "counting"}
    BY <2>1 DEF TypeOK
  <2>3. CASE \E i \in Ip, n \in SsoName : GoogleRefused(w, i, n)
    BY <2>1, <2>3 DEF GoogleRefused
  <2>4. CASE FailRead(w)
    BY <2>1, <2>4 DEF FailRead
  <2>5. CASE req' = [req EXCEPT ![w] = Idle]
    BY <2>1, <2>5 DEF Idle
  <2>6. CASE \/ Admit(w) \/ FailWrite(w) \/ LoginFails(w)
             \/ View(w) \/ Unlock(w) \/ CreateToken(w) \/ RevokeToken(w) \/ PopDelete(w)
             \/ \E n \in LocalName, r \in Role : AddUser(w, n, r)
             \/ \E u \in UserId : DeleteUser(w, u) \/ (\E r \in Role : SetUserRole(w, u, r))
                                                   \/ (\E d \in BOOLEAN : SetUserDisabled(w, u, d))
    <3>1. req' = [req EXCEPT ![w] = Idle]
      BY <2>6 DEF Admit, FailWrite, LoginFails, View, Unlock, CreateToken, RevokeToken, PopDelete, AddUser, DeleteUser,
                  SetUserRole, SetUserDisabled, Edit, Answer
    <3> QED BY <2>5, <3>1
  <2> QED BY <1>3, <2>3, <2>4, <2>6
<1>4. ASSUME NEW w \in Worker,
             \/ \E b \in Browser, i \in Ip, n \in Name, c \in Cred \ {0} : LoginPost(w, b, i, n, c)
             \/ \E b \in Browser, i \in Ip, ok \in BOOLEAN : Arrive(w, b, i, ok)
             \/ \E t \in BOOLEAN : PopRead(w, t)
      PROVE  w = v \/ req'[v] = req[v]
  BY <1>4 DEF LoginPost, Arrive, PopRead, TypeOK
<1> QED BY <1>1, <1>2, <1>3, <1>4 DEF Next

\* How a worker comes to the session it works on.
LEMMA WorkStep ==
    ASSUME TypeOK, Next, NEW v \in Worker, req'[v].pc \in {"verified", "serving", "popping"}
    PROVE  Rightful(req'[v].s)
<1>0. ASSUME req'[v] = req[v] PROVE Rightful(req'[v].s)
  BY <1>0 DEF Rightful, Held
<1>4. ASSUME NEW b \in Browser, NEW i \in Ip, NEW n \in Name, NEW c \in Cred \ {0}, LoginPost(v, b, i, n, c)
      PROVE  Rightful(req'[v].s)
  <2> DEFINE who == {u \in Named(n) : Live(u) /\ users[u].cred = c}
             u0  == CHOOSE u \in who : TRUE
             s0  == SignIn(u0, n, users[u0].role, FALSE)
             j   == [pc |-> "verified", from |-> b, ip |-> i, s |-> s0]
  <2>1. who # {}
    <3>1. SUFFICES ASSUME who = {} PROVE FALSE
      OBVIOUS
    <3>2. req' = [req EXCEPT ![v] = [pc |-> "refused", ip |-> i]]
      BY <1>4, <3>1 DEF LoginPost
    <3>3. req'[v] = [pc |-> "refused", ip |-> i]
      BY <3>2 DEF TypeOK
    <3> QED BY <3>3
  <2>2. u0 \in who /\ UNCHANGED users
    BY <1>4, <2>1 DEF LoginPost, tables
  <2>3. u0 \in UserId /\ users'[u0].name = n /\ n # NoName
    BY <2>2, AccessAssumption DEF Named
  <2>4. s0.uid = u0 /\ s0.name = n
    BY DEF SignIn
  <2>5. req' = [req EXCEPT ![v] = j]
    BY <1>4, <2>1 DEF LoginPost
  <2> HIDE DEF u0, s0
  <2>6. req'[v].s = s0
    BY <2>5 DEF TypeOK
  <2> QED BY <2>3, <2>4, <2>6 DEF Rightful
<1>5. ASSUME NEW b \in Browser, NEW i \in Ip, NEW ok \in BOOLEAN, Arrive(v, b, i, ok)
      PROVE  Rightful(req'[v].s)
  <2> DEFINE c  == cookie[b]
             s0 == Revalidated(c, ok)
             j  == [pc |-> "serving", from |-> b, s |-> s0, got |-> FALSE]
  <2>1. req' = [req EXCEPT ![v] = j] \/ req' = req
    BY <1>5 DEF Arrive
  <2>2. c \in Held /\ c \in Session /\ UNCHANGED users
    BY <1>5 DEF Held, TypeOK, Arrive, tables
  <2>3. Rightful(s0)
    <3>1. CASE s0 = c
      BY <2>2, <3>1 DEF Rightful
    <3>2. CASE s0 = Anon
      <4>1. s0.uid = 0
        BY <3>2 DEF Anon
      <4> QED BY <4>1 DEF Rightful
    <3>3. CASE RoleNow(c) # "none" /\ s0 = [c EXCEPT !.role = RoleNow(c), !.name = users[c.uid].name]
      <4>1. s0.uid = c.uid /\ s0.name = users[c.uid].name
        BY <2>2, <3>3 DEF Session
      <4>2. c.uid \in UserId /\ users[c.uid].name # NoName
        BY <3>3 DEF RoleNow, Live, Exists
      <4> QED BY <2>2, <4>1, <4>2 DEF Rightful
    <3> QED BY <3>1, <3>2, <3>3 DEF Revalidated
  <2> HIDE DEF s0
  <2>4. CASE req' = [req EXCEPT ![v] = j]
    <3>1. req'[v].s = s0
      BY <2>4 DEF TypeOK
    <3> QED BY <2>3, <3>1
  <2> QED BY <1>0, <2>1, <2>4
<1>6. ASSUME NEW t \in BOOLEAN, PopRead(v, t)
      PROVE  Rightful(req'[v].s)
  <2>1. req[v] \in Serving /\ req[v].pc = "serving"
    BY <1>6, ReqTypes DEF PopRead, MayServe
  <2>2. req'[v] = [req[v] EXCEPT !.pc = "popping", !.got = secret /\ t, !.s.handle = FALSE]
    BY <1>6 DEF PopRead, TypeOK
  <2>3. req'[v].s.uid = req[v].s.uid /\ req'[v].s.name = req[v].s.name
    BY <2>1, <2>2 DEF Serving, Session
  <2>4. req[v].s \in Held
    BY <2>1 DEF Held
  <2> QED BY <2>3, <2>4 DEF Rightful
<1>7. \/ req'[v] = req[v]
      \/ (\E b \in Browser, i \in Ip, n \in Name, c \in Cred \ {0} : LoginPost(v, b, i, n, c))
      \/ (\E b \in Browser, i \in Ip, ok \in BOOLEAN : Arrive(v, b, i, ok))
      \/ (\E t \in BOOLEAN : PopRead(v, t))
  BY RequestStep
<1> QED BY <1>0, <1>4, <1>5, <1>6, <1>7

\* How a browser comes to its cookie.
LEMMA CookieStep ==
    ASSUME TypeOK, Next, NEW v \in Browser
    PROVE  Rightful(cookie'[v])
<1>0. ASSUME cookie'[v] = cookie[v] PROVE Rightful(cookie'[v])
  BY <1>0 DEF Rightful, Held
<1>1. ASSUME NEW b \in Browser, NEW s, Rightful(s), cookie' = [cookie EXCEPT ![b] = s]
      PROVE  Rightful(cookie'[v])
  BY <1>0, <1>1 DEF TypeOK
<1>2. Rightful(Anon)
  BY DEF Rightful, Anon
<1>3. CASE \/ \E e \in Env : Restart(e)
           \/ \E i \in Ip : LockExpires(i)
  <2>1. cookie' = cookie
    BY <1>3 DEF Restart, LockExpires
  <2> QED BY <1>0, <2>1
<1>4. ASSUME NEW w \in Worker,
             \/ \E b \in Browser, i \in Ip, n \in Name, c \in Cred \ {0} : LoginPost(w, b, i, n, c)
             \/ \E i \in Ip, n \in SsoName : GoogleRefused(w, i, n)
             \/ FailRead(w) \/ FailWrite(w) \/ LoginFails(w) \/ \E t \in BOOLEAN : PopRead(w, t)
      PROVE  Rightful(cookie'[v])
  <2>1. cookie' = cookie
    BY <1>4 DEF LoginPost, GoogleRefused, FailRead, FailWrite, LoginFails, PopRead
  <2> QED BY <1>0, <2>1
<1>5. ASSUME NEW b \in Browser, Logout(b) PROVE Rightful(cookie'[v])
  BY <1>1, <1>2, <1>5 DEF Logout
<1>6. ASSUME NEW b \in Browser, GoesIdle(b) PROVE Rightful(cookie'[v])
  <2>1. cookie[b] \in Session /\ cookie[b] \in Held /\ cookie' = [cookie EXCEPT ![b] = [cookie[b] EXCEPT !.fresh = FALSE]]
    BY <1>6 DEF GoesIdle, Held, TypeOK
  <2>2. Rightful([cookie[b] EXCEPT !.fresh = FALSE])
    BY <2>1 DEF Rightful, Session
  <2> QED BY <1>1, <2>1, <2>2
<1>7. ASSUME NEW w \in Worker, NEW b \in Browser, NEW i \in Ip, NEW ok \in BOOLEAN, Arrive(w, b, i, ok)
      PROVE  Rightful(cookie'[v])
  <2>1. cookie' = cookie \/ cookie' = [cookie EXCEPT ![b] = Anon]
    BY <1>7 DEF Arrive
  <2> QED BY <1>0, <1>1, <1>2, <2>1
<1>8. ASSUME NEW w \in Worker, Admit(w) PROVE Rightful(cookie'[v])
  <2>1. req[w] \in Verified /\ req[w].s \in Held /\ cookie' = [cookie EXCEPT ![req[w].from] = req[w].s]
    BY <1>8, ReqTypes DEF Admit, Held
  <2> QED BY <1>1, <2>1 DEF Rightful, Verified
<1>9. ASSUME NEW w \in Worker, NEW s, req[w].pc \in {"serving", "popping"},
             s.uid = req[w].s.uid, s.name = req[w].s.name, Answer(w, s)
      PROVE  Rightful(cookie'[v])
  <2>1. req[w] \in Serving /\ req[w].s \in Held /\ cookie' = [cookie EXCEPT ![req[w].from] = s]
    BY <1>9, ReqTypes DEF Answer, Held
  <2>2. Rightful(s)
    BY <1>9, <2>1 DEF Rightful
  <2> QED BY <1>1, <2>1, <2>2 DEF Serving
<1>10. ASSUME NEW w \in Worker,
              \/ View(w) \/ Unlock(w) \/ RevokeToken(w) \/ PopDelete(w)
              \/ \E n \in LocalName, r \in Role : AddUser(w, n, r)
              \/ \E u \in UserId : DeleteUser(w, u) \/ (\E r \in Role : SetUserRole(w, u, r))
                                                    \/ (\E d \in BOOLEAN : SetUserDisabled(w, u, d))
       PROVE  Rightful(cookie'[v])
  <2>1. req[w].pc \in {"serving", "popping"} /\ Answer(w, req[w].s)
    BY <1>10 DEF View, Unlock, RevokeToken, PopDelete, AddUser, DeleteUser, SetUserRole, SetUserDisabled, Edit, MayServe
  <2> QED BY <1>9, <2>1
<1>11. ASSUME NEW w \in Worker, CreateToken(w) PROVE Rightful(cookie'[v])
  <2>1. req[w].pc = "serving" /\ Answer(w, [req[w].s EXCEPT !.handle = TRUE])
    BY <1>11 DEF CreateToken, MayServe
  <2>2. req[w].s \in Session
    BY <2>1, ReqTypes DEF Serving
  <2>3. [req[w].s EXCEPT !.handle = TRUE].uid = req[w].s.uid /\ [req[w].s EXCEPT !.handle = TRUE].name = req[w].s.name
    BY <2>2 DEF Session
  <2> DEFINE s0 == [req[w].s EXCEPT !.handle = TRUE]
  <2> HIDE DEF s0
  <2>4. s0.uid = req[w].s.uid /\ s0.name = req[w].s.name /\ Answer(w, s0)
    BY <2>1, <2>3 DEF s0
  <2> QED BY <1>9, <2>1, <2>4
<1>12. ASSUME NEW b \in Browser, NEW n \in SsoName, NEW r \in Role, NEW g, Upsert(n, r),
              cookie' = [cookie EXCEPT ![b] = SignIn(IdOf(users', n), n, r, g)]
       PROVE  Rightful(cookie'[v])
  <2>1. IdOf(users', n) \in UserId /\ users'[IdOf(users', n)].name = n /\ n # NoName
    BY <1>12, UpsertType, AccessAssumption
  <2>2. Rightful(SignIn(IdOf(users', n), n, r, g))
    BY <2>1 DEF Rightful, SignIn
  <2> QED BY <1>1, <1>12, <2>2
<1>13. ASSUME NEW b \in Browser, NEW n \in SsoName, NEW g \in SUBSET Role, NEW a \in BOOLEAN, SsoCallback(b, n, g, a)
       PROVE  Rightful(cookie'[v])
  <2>1. RoleForClaims(g, a) \in Role
    BY <1>13, AccessAssumption DEF SsoCallback, RoleForClaims, Role
  <2> QED BY <1>12, <1>13, <2>1 DEF SsoCallback
<1>14. ASSUME NEW b \in Browser, NEW n \in SsoName, NEW i \in Ip, GoogleCallback(b, i, n)
       PROVE  Rightful(cookie'[v])
  <2>1. env.allow[n] \in Role
    BY <1>14, AccessAssumption DEF GoogleCallback, TypeOK, EnvFile
  <2> QED BY <1>12, <1>14, <2>1 DEF GoogleCallback
<1> QED BY <1>3, <1>4, <1>5, <1>6, <1>7, <1>8, <1>10, <1>11, <1>13, <1>14 DEF Next

LEMMA NameStep ==
    ASSUME TypeOK, TypeOK', NameInv, Next
    PROVE  NameInv'
<1>1. /\ lastId' >= lastId
      /\ \A u \in UserId : u <= lastId => users'[u].name \in {users[u].name, NoName}
      /\ \A u \in UserId : u > lastId' => users'[u].name = NoName
  BY NamesKept DEF NameInv
<1>2. lastId \in Nat /\ lastId' \in Nat /\ \A u \in UserId : u \in Nat
  BY DEF TypeOK, UserId
<1>3. ASSUME NEW s, Rightful(s), s.uid # 0
      PROVE  s.uid \in UserId /\ s.uid <= lastId' /\ users'[s.uid].name \in {s.name, NoName}
  <2>1. CASE \E t \in Held : t.uid = s.uid /\ t.name = s.name
    <3>1. s.uid \in UserId /\ s.uid <= lastId /\ users[s.uid].name \in {s.name, NoName}
      BY <1>3, <2>1 DEF NameInv
    <3> QED BY <1>1, <1>2, <3>1
  <2>2. CASE s.uid \in UserId /\ users'[s.uid].name = s.name /\ s.name # NoName
    BY <1>1, <1>2, <2>2
  <2> QED BY <1>3, <2>1, <2>2 DEF Rightful
<1>4. \A s \in Held' : Rightful(s)
  BY WorkStep, CookieStep DEF Held
<1> QED BY <1>1, <1>3, <1>4 DEF NameInv

\* For any number of workers, browsers and people: whoever is deleted, added,
\* seeded or signed in, no cookie and no request under way ever points to the
\* row of somebody else (users.id is AUTOINCREMENT; _revalidate_session).
THEOREM AlwaysOneself == Spec => []ServedAsOneself
<1>1. Init => NameInv
  <2> SUFFICES ASSUME Init PROVE NameInv
    OBVIOUS
  <2>1. \A u \in UserId : u > lastId => users[u].name = NoName
    <3>1. \A u \in UserId : u \in Nat /\ u >= 1
      BY DEF UserId
    <3>2. CASE Boot.cred = 0
      BY <3>1, <3>2 DEF Init, Seed, NoRow
    <3>3. CASE Boot.cred # 0
      <4>1. \A u \in UserId : [v \in UserId |-> NoRow][u].name # Boot.name
        BY AccessAssumption DEF NoRow, EnvFile
      <4>2. lastId = 1 /\ users = [[v \in UserId |-> NoRow] EXCEPT ![0 + 1] =
                 [name |-> Boot.name, cred |-> Boot.cred, role |-> "admin", disabled |-> FALSE]]
        BY <3>3, <4>1 DEF Init, Seed
      <4> QED BY <3>1, <4>2 DEF NoRow
    <3> QED BY <3>2, <3>3
  <2>2. \A s \in Held : s = Anon
    BY DEF Init, Held, Idle
  <2> QED BY <2>1, <2>2 DEF NameInv, Anon
<1>2. TypeOK /\ TypeOK' /\ NameInv /\ [Next]_vars => NameInv'
  <2>1. ASSUME NameInv, UNCHANGED vars PROVE NameInv'
    BY <2>1 DEF NameInv, Held, vars
  <2> QED BY <2>1, NameStep
<1>3. NameInv => ServedAsOneself
  BY DEF NameInv, ServedAsOneself
<1> QED BY <1>1, <1>2, <1>3, TypeInit, TypeStep, PTL DEF Spec

-----------------------------------------------------------------------------
(* The administrator of .env *)

\* Row 1 is the user .env named at first, and it is kept.
AdminInv ==
    Boot.cred # 0 =>
        /\ lastId >= 1 /\ users[1].name = Boot.name
        /\ Boot.name \notin SsoName => users[1].role = "admin" /\ ~users[1].disabled
        /\ env.name = Boot.name /\ env.cred # 0 => users[1].cred = env.cred

LEMMA BootFacts == 1 \in UserId /\ Boot \in Env /\ Boot.name \in Name /\ Boot.name # NoName
  BY AccessAssumption DEF EnvFile, UserId

LEMMA AdminInit == Init => AdminInv
<1> SUFFICES ASSUME Init, Boot.cred # 0 PROVE AdminInv
  BY DEF AdminInv
<1>1. {u \in UserId : [x \in UserId |-> NoRow][u].name = Boot.name} = {}
  BY BootFacts DEF NoRow
<1>2. users = [[u \in UserId |-> NoRow] EXCEPT ![0 + 1] =
                  [name |-> Boot.name, cred |-> Boot.cred, role |-> "admin", disabled |-> FALSE]]
  BY <1>1 DEF Init, Seed
<1>3. users[1] = [name |-> Boot.name, cred |-> Boot.cred, role |-> "admin", disabled |-> FALSE]
  BY <1>2, BootFacts
<1>4. lastId = 1 /\ env = Boot
  BY DEF Init
<1> QED BY <1>3, <1>4 DEF AdminInv

LEMMA AdminRestart == ASSUME TypeOK, AdminInv, NEW e \in Env, Restart(e) PROVE AdminInv'
<1> SUFFICES ASSUME Boot.cred # 0 PROVE AdminInv'
  BY DEF AdminInv
<1> DEFINE old == {u \in UserId : users[u].name = e.name}
<1>1. env' = e /\ users' = Seed(users, lastId, e)
  BY DEF Restart
<1>2. lastId \in Nat /\ lastId >= 1 /\ lastId' >= 1
  BY AccessAssumption DEF Restart, AdminInv, TypeOK
<1>3. users[1] \in Row
  BY BootFacts DEF TypeOK
<1>4. CASE e.cred = 0
  BY <1>1, <1>2, <1>4 DEF AdminInv, Seed
<1>5. CASE e.cred # 0 /\ old # {}
  <2>1. users'[1] = IF 1 \in old /\ users[1].cred # e.cred
                    THEN [users[1] EXCEPT !.cred = e.cred, !.role = "admin", !.disabled = FALSE]
                    ELSE users[1]
    BY <1>1, <1>5, BootFacts DEF Seed
  <2>2. CASE 1 \in old /\ users[1].cred # e.cred
    <3>1. /\ users'[1].cred = e.cred /\ users'[1].role = "admin" /\ users'[1].disabled = FALSE
          /\ users'[1].name = users[1].name
      BY <1>3, <2>1, <2>2 DEF Row
    <3> QED BY <1>1, <1>2, <3>1 DEF AdminInv
  <2>3. CASE ~(1 \in old /\ users[1].cred # e.cred)
    <3>1. users'[1] = users[1]
      BY <2>1, <2>3
    <3>2. e.name = Boot.name => users[1].cred = e.cred
      BY <2>3, BootFacts DEF AdminInv
    <3> QED BY <1>1, <1>2, <3>1, <3>2 DEF AdminInv
  <2> QED BY <2>2, <2>3
<1>6. CASE e.cred # 0 /\ old = {}
  <2>1. users' = [users EXCEPT ![lastId + 1] = [name |-> e.name, cred |-> e.cred, role |-> "admin", disabled |-> FALSE]]
    BY <1>1, <1>6 DEF Seed
  <2>2. users'[1] = users[1]
    BY <1>2, <2>1, BootFacts DEF TypeOK
  <2>3. e.name # Boot.name
    BY <1>6, BootFacts DEF AdminInv
  <2> QED BY <1>1, <1>2, <2>2, <2>3 DEF AdminInv
<1> QED BY <1>4, <1>5, <1>6

LEMMA AdminUpsert ==
    ASSUME TypeOK, AdminInv, NEW n \in SsoName, NEW r, Upsert(n, r), env' = env
    PROVE  AdminInv'
<1> SUFFICES ASSUME Boot.cred # 0 PROVE AdminInv'
  BY DEF AdminInv
<1>1. lastId \in Nat /\ lastId >= 1
  BY AccessAssumption DEF AdminInv, TypeOK
<1>2. CASE Named(n) # {}
  <2>1. /\ users' = [u \in UserId |-> IF u \in Named(n) THEN [users[u] EXCEPT !.role = r] ELSE users[u]]
        /\ lastId' = lastId
    BY <1>2 DEF Upsert
  <2>2. users[1] \in Row
    BY BootFacts DEF TypeOK
  <2>3. CASE 1 \in Named(n)
    <3>1. Boot.name \in SsoName
      BY <2>3 DEF Named, AdminInv
    <3>2. users'[1].name = users[1].name /\ users'[1].cred = users[1].cred
      BY <2>1, <2>2, <2>3, BootFacts DEF Row
    <3> QED BY <1>1, <2>1, <3>1, <3>2 DEF AdminInv
  <2>4. CASE 1 \notin Named(n)
    <3>1. users'[1] = users[1]
      BY <2>1, <2>4, BootFacts
    <3> QED BY <1>1, <2>1, <3>1 DEF AdminInv
  <2> QED BY <2>3, <2>4
<1>3. CASE Named(n) = {}
  <2>1. users'[1] = users[1] /\ lastId' = lastId + 1
    BY <1>1, <1>3, BootFacts DEF Upsert, TypeOK
  <2> QED BY <1>1, <2>1 DEF AdminInv
<1> QED BY <1>2, <1>3

LEMMA AdminUsers ==
    ASSUME TypeOK, AdminInv, NEW w \in Worker,
           \/ \E n \in LocalName, r \in Role : AddUser(w, n, r)
           \/ \E u \in UserId : DeleteUser(w, u) \/ (\E r \in Role : SetUserRole(w, u, r))
                                                 \/ (\E d \in BOOLEAN : SetUserDisabled(w, u, d))
    PROVE  AdminInv'
<1> SUFFICES ASSUME Boot.cred # 0 PROVE AdminInv'
  BY DEF AdminInv
<1>1. lastId \in Nat /\ lastId >= 1 /\ users[1] \in Row /\ users \in [UserId -> Row]
  BY AccessAssumption, BootFacts DEF AdminInv, TypeOK
<1>2. /\ env' = env
      /\ users'[1].name = users[1].name /\ users'[1].role \in {users[1].role, "admin"}
      /\ users'[1].disabled => users[1].disabled
  <2>1. ASSUME NEW us, Edit(w, us)
        PROVE  /\ env' = env
               /\ users'[1].name = users[1].name /\ users'[1].role \in {users[1].role, "admin"}
               /\ users'[1].disabled => users[1].disabled
    BY <2>1 DEF Edit
  <2> QED BY <2>1 DEF AddUser, DeleteUser, SetUserRole, SetUserDisabled
<1>3. lastId' >= 1
  <2>1. lastId' = lastId + 1 \/ lastId' = lastId
    BY Zenon DEF AddUser, DeleteUser, SetUserRole, SetUserDisabled
  <2> QED BY <1>1, <2>1
<1>4. users'[1].cred = users[1].cred
  <2>1. CASE \E n \in LocalName, r \in Role : AddUser(w, n, r)
    <3>1. users'[1] = users[1]
      BY <1>1, <2>1, BootFacts DEF AddUser, Edit
    <3> QED BY <3>1
  <2>2. ASSUME NEW u \in UserId, NEW r \in Role, SetUserRole(w, u, r)
        PROVE  users'[1].cred = users[1].cred
    <3>1. users' = [users EXCEPT ![u].role = r]
      BY <2>2 DEF SetUserRole, Edit
    <3> QED BY <1>1, <3>1, BootFacts DEF Row
  <2>3. ASSUME NEW u \in UserId, NEW d \in BOOLEAN, SetUserDisabled(w, u, d)
        PROVE  users'[1].cred = users[1].cred
    <3>1. users' = [users EXCEPT ![u].disabled = d]
      BY <2>3 DEF SetUserDisabled, Edit
    <3> QED BY <1>1, <3>1, BootFacts DEF Row
  <2>4. ASSUME NEW u \in UserId, DeleteUser(w, u)
        PROVE  users'[1].cred = users[1].cred
    <3>1. users' = [users EXCEPT ![u] = NoRow]
      BY <2>4 DEF DeleteUser, Edit
    <3>2. u # 1
      BY <1>1, <1>2, <3>1, BootFacts DEF AdminInv, NoRow
    <3> QED BY <1>1, <3>1, <3>2, BootFacts
  <2> QED BY <2>1, <2>2, <2>3, <2>4
<1> QED BY <1>2, <1>3, <1>4 DEF AdminInv

LEMMA AdminStep == TypeOK /\ AdminInv /\ [Next]_vars => AdminInv'
<1> SUFFICES ASSUME TypeOK, AdminInv, [Next]_vars PROVE AdminInv'
  OBVIOUS
<1>1. CASE UNCHANGED <<env, users, lastId>>
  BY <1>1 DEF AdminInv
<1>2. CASE \E e \in Env : Restart(e)
  BY <1>2, AdminRestart
<1>3. CASE \E b \in Browser, n \in SsoName : \/ \E g \in SUBSET Role, a \in BOOLEAN : SsoCallback(b, n, g, a)
                                             \/ \E i \in Ip : GoogleCallback(b, i, n)
  BY <1>3, AdminUpsert DEF SsoCallback, GoogleCallback
<1>4. CASE \E w \in Worker :
             \/ \E n \in LocalName, r \in Role : AddUser(w, n, r)
             \/ \E u \in UserId : DeleteUser(w, u) \/ (\E r \in Role : SetUserRole(w, u, r))
                                                   \/ (\E d \in BOOLEAN : SetUserDisabled(w, u, d))
  BY <1>4, AdminUsers
<1>5. CASE \/ UNCHANGED vars
           \/ \E i \in Ip : LockExpires(i)
           \/ \E b \in Browser : Logout(b) \/ GoesIdle(b)
           \/ \E w \in Worker :
                \/ \E b \in Browser, i \in Ip, n \in Name, c \in Cred \ {0} : LoginPost(w, b, i, n, c)
                \/ \E i \in Ip, n \in SsoName : GoogleRefused(w, i, n)
                \/ \E b \in Browser, i \in Ip, r \in BOOLEAN : Arrive(w, b, i, r)
                \/ Admit(w) \/ FailRead(w) \/ FailWrite(w) \/ LoginFails(w)
                \/ View(w) \/ Unlock(w) \/ CreateToken(w) \/ RevokeToken(w) \/ PopDelete(w)
                \/ \E t \in BOOLEAN : PopRead(w, t)
  <2>1. UNCHANGED <<env, users, lastId>>
    <3>1. CASE UNCHANGED vars
      BY <3>1 DEF vars, tables
    <3>2. CASE (\E i \in Ip : LockExpires(i)) \/ \E b \in Browser : Logout(b) \/ GoesIdle(b)
      BY <3>2 DEF LockExpires, Logout, GoesIdle, tables
    <3>3. ASSUME NEW w \in Worker, NEW b \in Browser, NEW i \in Ip, NEW n \in Name, NEW c \in Cred, LoginPost(w, b, i, n, c)
          PROVE  UNCHANGED <<env, users, lastId>>
      BY <3>3 DEF LoginPost, tables
    <3>4. ASSUME NEW w \in Worker, NEW i \in Ip, NEW n \in SsoName, GoogleRefused(w, i, n)
          PROVE  UNCHANGED <<env, users, lastId>>
      BY <3>4 DEF GoogleRefused, tables
    <3>5. ASSUME NEW w \in Worker, NEW b \in Browser, NEW i \in Ip, NEW r \in BOOLEAN, Arrive(w, b, i, r)
          PROVE  UNCHANGED <<env, users, lastId>>
      BY <3>5 DEF Arrive, tables
    <3>6. ASSUME NEW w \in Worker, Admit(w) \/ FailRead(w) \/ FailWrite(w) \/ LoginFails(w)
          PROVE  UNCHANGED <<env, users, lastId>>
      BY <3>6 DEF Admit, FailRead, FailWrite, LoginFails, tables
    <3>7. ASSUME NEW w \in Worker, \/ View(w) \/ Unlock(w) \/ CreateToken(w) \/ RevokeToken(w) \/ PopDelete(w)
                                   \/ \E t \in BOOLEAN : PopRead(w, t)
          PROVE  UNCHANGED <<env, users, lastId>>
      BY <3>7 DEF View, Unlock, CreateToken, RevokeToken, PopDelete, PopRead, tables
    <3> QED BY <1>5, <3>1, <3>2, <3>3, <3>4, <3>5, <3>6, <3>7
  <2> QED BY <1>1, <2>1
<1> QED BY <1>2, <1>3, <1>4, <1>5 DEF Next

-----------------------------------------------------------------------------
(* The one-time secret *)

\* The requests that have read the secret and not yet shown it.
Holding == {w \in Worker : req[w].pc = "popping" /\ req[w].got}

\* Nobody has shown it while it is there, and afterwards only those who had
\* read it by then still will.
PopInv ==
    /\ secret => shown = 0
    /\ token = "none" => ~secret /\ shown = 0 /\ Holding = {}
    /\ shown + Cardinality(Holding) <= Cardinality(Worker)

LEMMA HoldingFacts ==
    ASSUME NEW S \in SUBSET Worker, NEW T \in SUBSET S
    PROVE  /\ IsFiniteSet(S) /\ IsFiniteSet(T)
           /\ Cardinality(S) \in Nat /\ Cardinality(T) \in Nat /\ Cardinality(Worker) \in Nat
           /\ Cardinality(T) <= Cardinality(S) /\ Cardinality(S) <= Cardinality(Worker)
<1>1. IsFiniteSet(Worker)
  BY AccessAssumption
<1>2. IsFiniteSet(S) /\ Cardinality(S) <= Cardinality(Worker)
  BY <1>1, FS_Subset
<1>3. IsFiniteSet(T) /\ Cardinality(T) <= Cardinality(S)
  BY <1>2, FS_Subset
<1> QED BY <1>1, <1>2, <1>3, FS_CardinalityType

\* The requests that hold the secret become fewer, and it is not touched.
LEMMA PopRest ==
    ASSUME TypeOK, PopInv, Holding' \subseteq Holding, shown' = shown,
           secret' => secret, token' = "none" => token = "none"
    PROVE  PopInv'
<1>1. Holding \subseteq Worker
  BY DEF Holding
<1>2. Cardinality(Holding') <= Cardinality(Holding) /\ Cardinality(Holding) \in Nat
      /\ Cardinality(Holding') \in Nat /\ Cardinality(Worker) \in Nat
  BY <1>1, HoldingFacts
<1>3. shown' + Cardinality(Holding') <= Cardinality(Worker)
  BY <1>2 DEF PopInv, TypeOK
<1> QED BY <1>3 DEF PopInv

LEMMA PopStep == ASSUME TypeOK, PopInv, Next PROVE PopInv'
<1>1. Holding \subseteq Worker /\ Holding' \subseteq Worker
  BY DEF Holding
<1>2. /\ Cardinality(Holding) \in Nat /\ Cardinality(Holding') \in Nat /\ Cardinality(Worker) \in Nat
      /\ Cardinality(Holding') <= Cardinality(Worker)
  BY <1>1, HoldingFacts
<1>3. ASSUME NEW w \in Worker, NEW t \in BOOLEAN, PopRead(w, t)
      PROVE  PopInv'
  <2>1. req[w] \in Serving
    BY <1>3, ReqTypes DEF PopRead, MayServe
  <2>2. /\ req'[w] = [req[w] EXCEPT !.pc = "popping", !.got = secret /\ t, !.s.handle = FALSE]
        /\ \A v \in Worker : v # w => req'[v] = req[v]
        /\ UNCHANGED tokens
    BY <1>3 DEF PopRead, TypeOK
  <2>3. req'[w].got = (secret /\ t)
    BY <2>1, <2>2 DEF Serving
  <2>4. CASE secret
    <3>1. shown = 0
      BY <2>4 DEF PopInv
    <3>2. shown' + Cardinality(Holding') <= Cardinality(Worker)
      BY <1>2, <2>2, <3>1 DEF tokens
    <3>3. token # "none"
      BY <2>4 DEF PopInv
    <3> QED BY <2>2, <3>1, <3>2, <3>3 DEF PopInv, tokens
  <2>5. CASE ~secret
    <3>1. Holding' \subseteq Holding
      BY <2>2, <2>3, <2>5 DEF Holding
    <3> QED BY <2>2, <3>1, PopRest DEF tokens
  <2> QED BY <2>4, <2>5
<1>4. ASSUME NEW w \in Worker, PopDelete(w)
      PROVE  PopInv'
  <2>1. /\ req' = [req EXCEPT ![w] = Idle] /\ req[w].pc = "popping" /\ token' = token
        /\ secret' = FALSE /\ shown' = IF req[w].got THEN shown + 1 ELSE shown
    BY <1>4 DEF PopDelete, Answer
  <2>2. CASE req[w].got
    <3>1. w \in Holding
      BY <2>1, <2>2 DEF Holding
    <3>2. Holding' \subseteq Holding \ {w}
      BY <2>1 DEF Holding, TypeOK, Idle
    <3>3. Cardinality(Holding \ {w}) = Cardinality(Holding) - 1
      BY <1>1, <3>1, HoldingFacts, FS_RemoveElement
    <3>4. Cardinality(Holding') <= Cardinality(Holding \ {w})
      BY <1>1, <3>2, HoldingFacts
    <3>5. shown' = shown + 1
      BY <2>1, <2>2
    <3>6. shown' + Cardinality(Holding') <= Cardinality(Worker)
      BY <1>2, <3>3, <3>4, <3>5 DEF PopInv, TypeOK
    <3>7. token # "none"
      BY <3>1 DEF PopInv
    <3> QED BY <2>1, <3>6, <3>7 DEF PopInv
  <2>3. CASE ~req[w].got
    <3>1. Holding' \subseteq Holding
      BY <2>1 DEF Holding, TypeOK, Idle
    <3>2. shown' = shown
      BY <2>1, <2>3
    <3> QED BY <2>1, <3>1, <3>2, PopRest
  <2> QED BY <2>2, <2>3
<1>5. CASE ~(\E w \in Worker, t \in BOOLEAN : PopRead(w, t)) /\ ~(\E w \in Worker : PopDelete(w))
  <2>1. Holding' \subseteq Holding
    <3> SUFFICES ASSUME NEW v \in Worker, req'[v].pc = "popping", req'[v].got PROVE v \in Holding
      BY DEF Holding
    <3>1. ASSUME NEW b \in Browser, NEW i \in Ip, NEW ok \in BOOLEAN, Arrive(v, b, i, ok)
          PROVE  req'[v] = req[v] \/ req'[v].pc = "serving"
      BY <3>1 DEF Arrive, TypeOK
    <3>2. ASSUME NEW b \in Browser, NEW i \in Ip, NEW n \in Name, NEW c \in Cred \ {0}, LoginPost(v, b, i, n, c)
          PROVE  req'[v].pc \in {"verified", "refused"}
      <4> DEFINE s0 == LET u == CHOOSE u \in {u \in Named(n) : Live(u) /\ users[u].cred = c} : TRUE
                       IN SignIn(u, n, users[u].role, FALSE)
      <4>1. \/ req' = [req EXCEPT ![v] = [pc |-> "verified", from |-> b, ip |-> i, s |-> s0]]
            \/ req' = [req EXCEPT ![v] = [pc |-> "refused", ip |-> i]]
        BY <3>2 DEF LoginPost
      <4> HIDE DEF s0
      <4> QED BY <4>1 DEF TypeOK
    <3>3. req'[v] = req[v]
      BY <1>5, <3>1, <3>2, RequestStep
    <3> QED BY <3>3 DEF Holding
  <2>2. ASSUME NEW w \in Worker, CreateToken(w)
        PROVE  PopInv'
    <3>1. token = "none" /\ token' = "good" /\ shown' = shown
      BY <2>2 DEF CreateToken
    <3>2. shown = 0
      BY <3>1 DEF PopInv
    <3>3. shown' + Cardinality(Holding') <= Cardinality(Worker)
      BY <1>2, <3>1, <3>2
    <3> QED BY <3>1, <3>2, <3>3 DEF PopInv
  <2>3. CASE ~(\E w \in Worker : CreateToken(w))
    <3>1. /\ shown' = shown /\ secret' = secret
          /\ token' = "none" => token = "none"
      <4>1. CASE \E e \in Env : Restart(e)
        BY <4>1 DEF Restart, tokens
      <4>2. CASE \E i \in Ip : LockExpires(i)
        BY <4>2 DEF LockExpires, tokens
      <4>3. CASE \E b \in Browser : Logout(b) \/ GoesIdle(b)
        BY <4>3 DEF Logout, GoesIdle, tokens
      <4>4. CASE \E b \in Browser, n \in SsoName : \/ \E g \in SUBSET Role, a \in BOOLEAN : SsoCallback(b, n, g, a)
                                                   \/ \E i \in Ip : GoogleCallback(b, i, n)
        BY <4>4 DEF SsoCallback, GoogleCallback, tokens
      <4>5. CASE \E w \in Worker :
                   \/ \E b \in Browser, i \in Ip, n \in Name, c \in Cred \ {0} : LoginPost(w, b, i, n, c)
                   \/ \E i \in Ip, n \in SsoName : GoogleRefused(w, i, n)
                   \/ \E b \in Browser, i \in Ip, r \in BOOLEAN : Arrive(w, b, i, r)
        BY <4>5 DEF LoginPost, GoogleRefused, Arrive, tokens
      <4>6. CASE \E w \in Worker : Admit(w) \/ FailRead(w) \/ FailWrite(w) \/ LoginFails(w) \/ View(w) \/ Unlock(w) \/ RevokeToken(w)
        BY <4>6 DEF Admit, FailRead, FailWrite, LoginFails, View, Unlock, RevokeToken, tokens
      <4>7. CASE \E w \in Worker :
                   \/ \E n \in LocalName, r \in Role : AddUser(w, n, r)
                   \/ \E u \in UserId : DeleteUser(w, u) \/ (\E r \in Role : SetUserRole(w, u, r))
                                                         \/ (\E d \in BOOLEAN : SetUserDisabled(w, u, d))
        <5>1. ASSUME NEW w \in Worker, NEW us, Edit(w, us) PROVE UNCHANGED tokens
          BY <5>1 DEF Edit
        <5>2. UNCHANGED tokens
          BY <4>7, <5>1 DEF AddUser, DeleteUser, SetUserRole, SetUserDisabled
        <5> QED BY <5>2 DEF tokens
      <4> QED BY <1>5, <2>3, <4>1, <4>2, <4>3, <4>4, <4>5, <4>6, <4>7 DEF Next
    <3> QED BY <2>1, <3>1, PopRest
  <2> QED BY <2>2, <2>3
<1> QED BY <1>3, <1>4, <1>5

LEMMA PopInit == Init => PopInv
<1> SUFFICES ASSUME Init PROVE PopInv
  OBVIOUS
<1>1. Holding = {}
  BY DEF Init, Holding, Idle
<1>2. Cardinality(Holding) = 0 /\ Cardinality(Worker) \in Nat
  BY <1>1, AccessAssumption, FS_EmptySet, FS_CardinalityType
<1>3. shown = 0 /\ ~secret
  BY Zenon DEF Init
<1> QED BY <1>1, <1>2, <1>3 DEF PopInv

LEMMA SoundTables == TypeOK /\ AdminInv /\ PopInv => TablesSound
<1> SUFFICES ASSUME TypeOK, AdminInv, PopInv PROVE TablesSound
  OBVIOUS
<1>1. EnvAdminKept
  BY BootFacts DEF EnvAdminKept, AdminInv
<1>2. ShownOnceEach
  <2>1. Cardinality(Holding) \in Nat /\ Cardinality(Worker) \in Nat
    BY HoldingFacts DEF Holding
  <2> QED BY <2>1 DEF ShownOnceEach, PopInv, TypeOK
<1> QED BY <1>1, <1>2 DEF TablesSound

\* For any .env files, names and workers: the credentials of .env open the
\* door as long as it names the same user, whatever administrators and
\* identity providers do; and a one-time secret is shown to no more requests
\* than there are workers (seed_env_user, set_user_role, pop_once).
THEOREM TablesStaySound == Spec => []TablesSound
<1>1. TypeOK /\ PopInv /\ [Next]_vars => PopInv'
  <2>1. ASSUME PopInv, UNCHANGED vars PROVE PopInv'
    BY <2>1 DEF PopInv, Holding, vars
  <2> QED BY <2>1, PopStep
<1> QED BY <1>1, TypeInit, TypeStep, AdminInit, AdminStep, PopInit, SoundTables, PTL DEF Spec

-----------------------------------------------------------------------------
(* The wrong passwords of an address, with two workers *)

\* Twice what two workers can still try, both free to read a count of x.
Chances(x) == IF x < MaxAttempts THEN (MaxAttempts - x) * (MaxAttempts - x + 3) ELSE 0

\* Until the lock, if no older count is written.
Climb(x) == IF x < MaxAttempts THEN MaxAttempts - x ELSE 1

\* Twice what is left to try when the workers' counts are x and y: the
\* higher one climbs to the lock, then the lower one is written over it.
\* -1: a worker the lock keeps out.
Left(x, y) ==
    IF x >= 0 /\ y >= 0 THEN IF x <= y THEN 2 * Climb(y) + 2 + Chances(x + 1)
                                       ELSE 2 * Climb(x) + 2 + Chances(y + 1)
    ELSE IF x >= 0 THEN 2 + Chances(x + 1)
    ELSE IF y >= 0 THEN 2 + Chances(y + 1)
    ELSE 0

LEMMA ChancesFall ==
    /\ \A x \in Nat : Chances(x) \in Nat /\ Climb(x) \in 1..MaxAttempts
    /\ \A x \in Nat : x < MaxAttempts => Chances(x) = 2 * Climb(x) + 2 + Chances(x + 1)
    /\ \A x \in Nat : x + 1 < MaxAttempts => Climb(x) = Climb(x + 1) + 1
    /\ \A x \in Nat : x >= MaxAttempts => Chances(x) = 0
    /\ \A x, y \in Nat : x <= y => Chances(y) <= Chances(x) /\ Climb(y) <= Climb(x)
<1>0. MaxAttempts \in Nat /\ MaxAttempts > 0
  BY AccessAssumption
<1>1. \A d \in Nat : d * (d + 3) \in Nat
  OBVIOUS
<1>2. ASSUME NEW d \in Nat, NEW e \in Nat, d <= e PROVE d * (d + 3) <= e * (e + 3)
  <2>1. d * (d + 3) <= e * (d + 3)
    BY <1>2
  <2>2. e * (d + 3) <= e * (e + 3)
    BY <1>2
  <2>3. d * (d + 3) \in Nat /\ e * (d + 3) \in Nat /\ e * (e + 3) \in Nat
    OBVIOUS
  <2> QED BY <2>1, <2>2, <2>3
<1>3. ASSUME NEW d \in Nat PROVE (d + 1) * (d + 1 + 3) = 2 * (d + 1) + 2 + d * (d + 3)
  OBVIOUS
<1>4. \A x \in Nat : Chances(x) \in Nat /\ Climb(x) \in 1..MaxAttempts
  <2> SUFFICES ASSUME NEW x \in Nat PROVE Chances(x) \in Nat /\ Climb(x) \in 1..MaxAttempts
    OBVIOUS
  <2>1. Climb(x) \in 1..MaxAttempts
    BY <1>0 DEF Climb
  <2>2. CASE x < MaxAttempts
    <3>1. MaxAttempts - x \in Nat
      BY <1>0, <2>2
    <3> QED BY <1>1, <2>1, <2>2, <3>1 DEF Chances
  <2>3. CASE ~(x < MaxAttempts)
    BY <2>1, <2>3 DEF Chances
  <2> QED BY <2>2, <2>3
<1>5. ASSUME NEW x \in Nat, x < MaxAttempts PROVE Chances(x) = 2 * Climb(x) + 2 + Chances(x + 1)
  <2> DEFINE d == MaxAttempts - (x + 1)
  <2>1. d \in Nat /\ MaxAttempts - x = d + 1 /\ (x + 1 < MaxAttempts <=> d # 0)
    BY <1>0, <1>5
  <2>2. Chances(x) = (d + 1) * (d + 1 + 3) /\ Climb(x) = d + 1
    BY <1>5, <2>1 DEF Chances, Climb
  <2>3. Chances(x + 1) = d * (d + 3)
    BY <2>1 DEF Chances
  <2> HIDE DEF d
  <2> QED BY <1>3, <2>1, <2>2, <2>3
<1>6. \A x \in Nat : (x + 1 < MaxAttempts => Climb(x) = Climb(x + 1) + 1) /\ (x >= MaxAttempts => Chances(x) = 0)
  BY <1>0 DEF Climb, Chances
<1>7. ASSUME NEW x \in Nat, NEW y \in Nat, x <= y PROVE Chances(y) <= Chances(x) /\ Climb(y) <= Climb(x)
  <2>1. Climb(y) <= Climb(x)
    BY <1>0, <1>7 DEF Climb
  <2>2. CASE y < MaxAttempts
    <3>1. MaxAttempts - y \in Nat /\ MaxAttempts - x \in Nat /\ MaxAttempts - y <= MaxAttempts - x /\ x < MaxAttempts
      BY <1>0, <1>7, <2>2
    <3> QED BY <1>2, <2>1, <2>2, <3>1 DEF Chances
  <2>3. CASE ~(y < MaxAttempts)
    <3>1. Chances(y) = 0 /\ Chances(x) \in Nat
      BY <1>4, <2>3 DEF Chances
    <3> QED BY <2>1, <3>1
  <2> QED BY <2>2, <2>3
<1> QED BY <1>4, <1>5, <1>6, <1>7

Count == Nat \cup {-1}

LEMMA LeftCases ==
    /\ \A x, y \in Nat : x <= y => Left(x, y) = 2 * Climb(y) + 2 + Chances(x + 1) /\ Left(y, x) = Left(x, y)
    /\ \A x \in Nat : Left(x, -1) = 2 + Chances(x + 1) /\ Left(-1, x) = Left(x, -1)
    /\ Left(-1, -1) = 0
    /\ \A x \in Count : x \in Nat \/ x = -1
<1>1. ASSUME NEW x \in Nat, NEW y \in Nat, x <= y
      PROVE  Left(x, y) = 2 * Climb(y) + 2 + Chances(x + 1) /\ Left(y, x) = Left(x, y)
  <2>1. x >= 0 /\ y >= 0 /\ (y <= x => x = y)
    BY <1>1
  <2> QED BY <1>1, <2>1 DEF Left
<1>2. \A x \in Nat : Left(x, -1) = 2 + Chances(x + 1) /\ Left(-1, x) = Left(x, -1)
  BY DEF Left
<1>3. Left(-1, -1) = 0
  BY DEF Left
<1> QED BY <1>1, <1>2, <1>3 DEF Count

LEMMA LeftBound ==
    ASSUME NEW x \in Count, NEW y \in Count
    PROVE  /\ Left(x, y) \in Nat /\ Left(x, y) = Left(y, x) /\ Chances(1) \in Nat
           /\ x # 0 /\ y # 0 => Left(x, y) <= 4 + Chances(1)
<1>1. MaxAttempts \in Nat /\ MaxAttempts > 0
  BY AccessAssumption
<1>2. \A z \in Nat : Chances(z) \in Nat /\ Climb(z) \in Nat /\ z + 1 \in Nat
  BY <1>1, ChancesFall
<1>3. ASSUME NEW z \in Nat, z # 0
      PROVE  Chances(z) <= Chances(1) /\ Chances(z + 1) <= Chances(1)
  <2>1. 1 <= z /\ z + 1 \in Nat /\ 1 <= z + 1
    BY <1>3
  <2> QED BY <2>1, ChancesFall
<1>4. ASSUME NEW t \in Nat, NEW z \in Nat, t <= z
      PROVE  /\ Left(t, z) \in Nat /\ Left(z, t) = Left(t, z)
             /\ t # 0 => Left(t, z) <= 4 + Chances(1)
  <2>1. Left(t, z) = 2 * Climb(z) + 2 + Chances(t + 1) /\ Left(z, t) = Left(t, z)
    BY <1>4, LeftCases
  <2>2. Climb(z) <= Climb(t) /\ Climb(z) \in Nat /\ Climb(t) \in Nat /\ Chances(t + 1) \in Nat /\ Chances(1) \in Nat
    BY <1>2, <1>4, ChancesFall
  <2>3. CASE t < MaxAttempts
    <3>1. Chances(t) = 2 * Climb(t) + 2 + Chances(t + 1)
      BY <2>3, ChancesFall
    <3>2. t # 0 => Chances(t) <= Chances(1)
      BY <1>3
    <3> QED BY <1>2, <2>1, <2>2, <3>1, <3>2
  <2>4. CASE ~(t < MaxAttempts)
    <3>1. Climb(t) = 1 /\ Chances(t + 1) = 0
      BY <1>1, <2>4 DEF Climb, Chances
    <3> QED BY <1>2, <2>1, <2>2, <3>1
  <2> QED BY <2>3, <2>4
<1>5. ASSUME NEW z \in Nat
      PROVE  /\ Left(z, -1) \in Nat /\ Left(-1, z) = Left(z, -1)
             /\ z # 0 => Left(z, -1) <= 4 + Chances(1)
  <2>1. Left(z, -1) = 2 + Chances(z + 1) /\ Left(-1, z) = Left(z, -1)
    BY LeftCases
  <2> QED BY <1>2, <1>3, <2>1
<1>6. Left(-1, -1) = 0 /\ Chances(1) \in Nat
  BY <1>2, LeftCases
<1>7. CASE x \in Nat /\ y \in Nat
  <2>1. x <= y \/ y <= x
    BY <1>7
  <2> QED BY <1>4, <1>6, <1>7, <2>1
<1>8. CASE x = -1 \/ y = -1
  <2>1. (x \in Nat \/ x = -1) /\ (y \in Nat \/ y = -1)
    BY LeftCases
  <2> QED BY <1>5, <1>6, <1>8, <2>1
<1> QED BY <1>7, <1>8, LeftCases

\* What two counts leave, at least, when they and the lower of them are bounded.
LEMMA LeftAtLeast ==
    ASSUME NEW x \in Nat, NEW y \in Nat, NEW g \in Nat, NEW h \in Nat, x <= g, y <= g, x <= h \/ y <= h
    PROVE  Left(x, y) >= 2 * Climb(g) + 2 + Chances(h + 1)
<1>1. ASSUME NEW t \in Nat, NEW z \in Nat, t <= z, z <= g, t <= h
      PROVE  Left(t, z) >= 2 * Climb(g) + 2 + Chances(h + 1)
  <2>1. Left(t, z) = 2 * Climb(z) + 2 + Chances(t + 1)
    BY <1>1, LeftCases
  <2>2. t + 1 \in Nat /\ h + 1 \in Nat /\ t + 1 <= h + 1
    BY <1>1
  <2>3. Chances(h + 1) <= Chances(t + 1) /\ Climb(g) <= Climb(z)
    BY <1>1, <2>2, ChancesFall
  <2>4. Chances(h + 1) \in Nat /\ Chances(t + 1) \in Nat /\ Climb(g) \in Nat /\ Climb(z) \in Nat
    BY <2>2, ChancesFall, AccessAssumption
  <2> QED BY <2>1, <2>3, <2>4
<1>2. (x <= y /\ x <= h) \/ (y <= x /\ y <= h)
  OBVIOUS
<1>3. Left(x, y) = Left(y, x)
  BY LeftBound DEF Count
<1> QED BY <1>1, <1>2, <1>3

LEMMA LeftOneAtLeast ==
    ASSUME NEW x \in Nat, NEW y \in Count, NEW h \in Nat, x <= h
    PROVE  Left(x, y) >= 2 + Chances(h + 1)
<1>0. h + 1 \in Nat /\ x + 1 \in Nat /\ x + 1 <= h + 1
  OBVIOUS
<1>1. Chances(h + 1) \in Nat /\ Chances(x + 1) \in Nat /\ Chances(h + 1) <= Chances(x + 1)
  BY <1>0, ChancesFall
<1>2. CASE y = -1
  BY <1>1, <1>2, LeftCases
<1>3. CASE y \in Nat
  <2> DEFINE g == x + y
  <2>1. g \in Nat /\ x <= g /\ y <= g
    BY <1>3
  <2> HIDE DEF g
  <2>2. Left(x, y) >= 2 * Climb(g) + 2 + Chances(h + 1)
    BY <1>3, <2>1, LeftAtLeast
  <2>3. Climb(g) \in Nat /\ Left(x, y) \in Nat
    <3>1. x \in Count
      BY DEF Count
    <3>2. Climb(g) \in Nat
      BY <2>1, ChancesFall, AccessAssumption
    <3> QED BY <3>1, <3>2, LeftBound
  <2> QED BY <1>1, <2>2, <2>3
<1> QED BY <1>2, <1>3, LeftCases

\* Counts that rise, and workers that are kept out, leave less.
LEMMA LeftFalls ==
    ASSUME NEW x \in Count, NEW y \in Count, NEW u \in Count, NEW v \in Count,
           u = -1 \/ (x >= 0 /\ x <= u), v = -1 \/ (y >= 0 /\ y <= v)
    PROVE  Left(u, v) <= Left(x, y)
<1>0. /\ (x \in Nat \/ x = -1) /\ (y \in Nat \/ y = -1) /\ (u \in Nat \/ u = -1) /\ (v \in Nat \/ v = -1)
      /\ Left(x, y) \in Nat /\ Left(x, y) = Left(y, x)
  BY LeftCases, LeftBound
<1>1. CASE u = -1 /\ v = -1
  BY <1>0, <1>1, LeftCases
<1>2. CASE u \in Nat /\ v = -1
  <2>1. x \in Nat /\ x <= u
    BY <1>0, <1>2
  <2> QED BY <1>2, <2>1, LeftOneAtLeast, LeftCases
<1>3. CASE u = -1 /\ v \in Nat
  <2>1. y \in Nat /\ y <= v
    BY <1>0, <1>3
  <2>2. Left(y, x) >= 2 + Chances(v + 1) /\ Left(u, v) = 2 + Chances(v + 1)
    BY <1>3, <2>1, LeftOneAtLeast, LeftCases
  <2> QED BY <1>0, <2>2
<1>4. CASE u \in Nat /\ v \in Nat
  <2>1. x \in Nat /\ y \in Nat /\ x <= u /\ y <= v
    BY <1>0, <1>4
  <2>2. CASE u <= v
    <3>1. x <= v /\ y <= v
      BY <1>4, <2>1, <2>2
    <3> QED BY <1>4, <2>1, <2>2, <3>1, LeftAtLeast, LeftCases
  <2>3. CASE v <= u
    <3>1. x <= u /\ y <= u
      BY <1>4, <2>1, <2>3
    <3>2. Left(v, u) = 2 * Climb(u) + 2 + Chances(v + 1) /\ Left(u, v) = Left(v, u)
      BY <1>4, <2>3, LeftCases
    <3>3. Left(x, y) >= 2 * Climb(u) + 2 + Chances(v + 1)
      BY <1>4, <2>1, <3>1, LeftAtLeast
    <3> QED BY <3>2, <3>3
  <2> QED BY <1>4, <2>2, <2>3
<1> QED BY <1>0, <1>1, <1>2, <1>3, <1>4

\* Writing b + 1, read when the count was b, uses up one try.
LEMMA LeftAfterWrite ==
    ASSUME NEW b \in Nat, NEW x \in Nat, x <= b, NEW y \in Count, NEW m \in Count
    PROVE  /\ b + 1 < MaxAttempts /\ m >= 0 /\ m <= b + 1 /\ (m <= b => y >= 0 /\ y <= m) =>
                Left(b + 1, m) + 2 <= Left(x, y)
           /\ b + 1 >= MaxAttempts /\ (m >= 0 => y >= 0) /\ (m >= 0 /\ m <= b => y <= m) =>
                Left(-1, m) + 2 <= Left(x, y)
<1>0. /\ MaxAttempts \in Nat /\ (m \in Nat \/ m = -1) /\ (y \in Nat \/ y = -1)
      /\ Left(x, y) \in Nat /\ b + 1 \in Nat
  <2>1. x \in Count
    BY DEF Count
  <2>2. MaxAttempts \in Nat /\ b + 1 \in Nat
    BY AccessAssumption
  <2> QED BY <2>1, <2>2, LeftCases, LeftBound
<1>1. \A z \in Nat : Chances(z) \in Nat /\ Climb(z) \in Nat /\ Climb(z) >= 1
  BY ChancesFall, AccessAssumption
<1>3. ASSUME b + 1 < MaxAttempts, m >= 0, m <= b + 1, m <= b => y >= 0 /\ y <= m
      PROVE  Left(b + 1, m) + 2 <= Left(x, y)
  <2>0. m \in Nat
    BY <1>0, <1>3
  <2>1. Climb(b) = Climb(b + 1) + 1 /\ Chances(b + 1) = 2 * Climb(b + 1) + 2 + Chances(b + 1 + 1)
    BY <1>0, <1>3, ChancesFall
  <2>2. CASE m <= b
    <3>1. Left(b + 1, m) = 2 * Climb(b + 1) + 2 + Chances(m + 1)
      BY <1>0, <1>3, <2>0, LeftCases
    <3>2. y \in Nat /\ y <= m /\ y <= b
      BY <1>0, <1>3, <2>0, <2>2
    <3>3. Left(x, y) >= 2 * Climb(b) + 2 + Chances(m + 1)
      BY <2>0, <3>2, LeftAtLeast
    <3>4. Climb(b + 1) \in Nat /\ Chances(m + 1) \in Nat
      <4>1. m + 1 \in Nat
        BY <2>0
      <4> QED BY <1>0, <1>1, <4>1
    <3> QED BY <1>0, <2>1, <3>1, <3>3, <3>4
  <2>3. CASE m = b + 1
    <3>1. Left(b + 1, m) = Chances(b + 1)
      BY <1>0, <2>1, <2>3, LeftCases
    <3>2. Left(x, y) >= 2 + Chances(b + 1)
      BY LeftOneAtLeast
    <3>3. Chances(b + 1) \in Nat
      BY <1>0, <1>1
    <3> QED BY <1>0, <3>1, <3>2, <3>3
  <2> QED BY <1>3, <2>0, <2>2, <2>3
<1>4. ASSUME b + 1 >= MaxAttempts, m >= 0 => y >= 0, m >= 0 /\ m <= b => y <= m
      PROVE  Left(-1, m) + 2 <= Left(x, y)
  <2>1. CASE m = -1
    <3>1. Left(-1, m) = 0
      BY <2>1, LeftCases
    <3>2. Left(x, y) >= 2 + Chances(b + 1) /\ Chances(b + 1) \in Nat
      BY <1>0, <1>1, LeftOneAtLeast
    <3> QED BY <1>0, <3>1, <3>2
  <2>2. CASE m \in Nat /\ m <= b
    <3>1. y \in Nat /\ y <= m /\ y <= b /\ Left(-1, m) = 2 + Chances(m + 1) /\ m + 1 \in Nat
      <4>1. y \in Nat /\ y <= m
        BY <1>0, <1>4, <2>2
      <4> QED BY <2>2, <4>1, LeftCases
    <3>2. Left(x, y) >= 2 * Climb(b) + 2 + Chances(m + 1)
      BY <2>2, <3>1, LeftAtLeast
    <3>3. Chances(m + 1) \in Nat /\ Climb(b) \in Nat /\ Climb(b) >= 1
      BY <1>1, <3>1
    <3> QED BY <1>0, <3>1, <3>2, <3>3
  <2>3. CASE m \in Nat /\ m > b
    <3>1. m + 1 \in Nat /\ m + 1 >= MaxAttempts /\ y \in Nat
      BY <1>0, <1>4, <2>3
    <3>2. Left(-1, m) = 2
      BY <2>3, <3>1, ChancesFall, LeftCases
    <3> DEFINE g == x + y
    <3>3. g \in Nat /\ x <= g /\ y <= g
      BY <3>1
    <3> HIDE DEF g
    <3>4. Left(x, y) >= 2 * Climb(g) + 2 + Chances(x + 1)
      BY <3>1, <3>3, LeftAtLeast
    <3>5. Climb(g) \in Nat /\ Climb(g) >= 1 /\ Chances(x + 1) \in Nat
      BY <1>1, <3>3
    <3> QED BY <1>0, <3>2, <3>4, <3>5
  <2> QED BY <1>0, <2>1, <2>2, <2>3
<1> QED BY <1>3, <1>4

\* The count a worker may still write for an address, as far as it is news:
\* what it has read, or what it would read if the lock lets it.
CountOf(w, i) ==
    IF w \notin Worker THEN -1
    ELSE IF req[w].pc = "counting" /\ req[w].ip = i /\ req[w].n # 0 /\ req[w].n <= fails[i].n THEN req[w].n
    ELSE IF \/ ~fails[i].locked
            \/ req[w].pc = "refused" /\ req[w].ip = i
            \/ req[w].pc = "counting" /\ req[w].ip = i /\ req[w].n # 0 THEN fails[i].n
    ELSE -1

\* Twice the failures w is about to put to a row that has come or gone.
Late(w, i) ==
    IF w \in Worker /\ req[w].pc = "counting" /\ req[w].ip = i /\ ~(req[w].n = 0 <=> fails[i].n = 0)
    THEN 2 ELSE 0

\* Twice what is left to count.  Without a row the first INSERT keeps out
\* the other worker's.
Rest(a, b, i) == IF fails[i].n = 0 THEN 4 + Chances(1) ELSE Left(CountOf(a, i), CountOf(b, i))

\* Twice the tries made and those left stay within the bound; only one of
\* two workers can find the row come or gone, by what the other one did.
GuessInv(a, b) ==
    \A i \in Ip : /\ 2 * guesses[i] + Rest(a, b, i) + Late(a, i) + Late(b, i) <= 6 + Chances(1)
                 /\ Late(a, i) + Late(b, i) <= 2

LEMMA LateType == ASSUME NEW w, NEW i PROVE Late(w, i) \in {0, 2} /\ Late(w, i)' \in {0, 2}
  BY DEF Late

LEMMA CountOfType ==
    ASSUME TypeOK, NEW w, NEW i \in Ip
    PROVE  /\ CountOf(w, i) \in Count /\ (CountOf(w, i) = -1 \/ CountOf(w, i) <= fails[i].n)
           /\ fails[i].n # 0 => CountOf(w, i) # 0
<1>1. fails[i].n \in Nat /\ fails[i].n <= fails[i].n
  BY DEF TypeOK
<1>2. w \in Worker /\ req[w].pc = "counting" => req[w].n \in Nat
  BY ReqTypes
<1> QED BY <1>1, <1>2 DEF CountOf, Count

LEMMA CountOfNext ==
    ASSUME TypeOK', NEW w, NEW i \in Ip
    PROVE  CountOf(w, i)' \in Count /\ (fails'[i].n # 0 => CountOf(w, i)' # 0)
<1>1. fails'[i].n \in Nat
  BY DEF TypeOK
<1>2. ASSUME w \in Worker, req'[w].pc = "counting" PROVE req'[w].n \in Nat
  <2>1. req'[w] \in Request
    BY <1>2 DEF TypeOK
  <2> QED BY <1>2, <2>1 DEF Request
<1> QED BY <1>1, <1>2 DEF CountOf, Count

\* What a worker does to its request, the failure it counts aside.
Turns(v) ==
    \/ req'[v] = req[v]
    \/ req'[v].pc \notin {"refused", "counting"}
    \/ req'[v].pc = "refused" /\ ~fails[req'[v].ip].locked
    \/ /\ req[v].pc = "refused" /\ req'[v].pc = "counting"
       /\ req'[v].ip = req[v].ip /\ req'[v].n = fails[req[v].ip].n

LEMMA TurnsStep ==
    ASSUME TypeOK, Next, NEW v \in Worker
    PROVE  Turns(v)
<1>1. CASE \E e \in Env : Restart(e)
  BY <1>1 DEF Restart, Idle, Turns
<1>2. CASE \/ \E i \in Ip : LockExpires(i)
           \/ \E b \in Browser : Logout(b) \/ GoesIdle(b)
           \/ \E b \in Browser, n \in SsoName : \/ \E g \in SUBSET Role, a \in BOOLEAN : SsoCallback(b, n, g, a)
                                                \/ \E i \in Ip : GoogleCallback(b, i, n)
  <2>1. req' = req
    BY <1>2 DEF LockExpires, Logout, GoesIdle, SsoCallback, GoogleCallback
  <2> QED BY <2>1 DEF Turns
<1>3. ASSUME NEW w \in Worker, NEW j, j.pc \notin {"refused", "counting"}, req' = [req EXCEPT ![w] = j]
      PROVE  Turns(v)
  BY <1>3 DEF TypeOK, Turns
<1>4. ASSUME NEW w \in Worker, NEW i \in Ip, ~fails[i].locked, req' = [req EXCEPT ![w] = [pc |-> "refused", ip |-> i]]
      PROVE  Turns(v)
  BY <1>4 DEF TypeOK, Turns
<1>5. ASSUME NEW w \in Worker, \E b \in Browser, i \in Ip, n \in Name, c \in Cred \ {0} : LoginPost(w, b, i, n, c)
      PROVE  Turns(v)
  <2>1. PICK b \in Browser, i \in Ip, n \in Name, c \in Cred \ {0} : LoginPost(w, b, i, n, c)
    BY <1>5
  <2> DEFINE who == {u \in Named(n) : Live(u) /\ users[u].cred = c}
             u0  == CHOOSE u \in who : TRUE
             j   == [pc |-> "verified", from |-> b, ip |-> i, s |-> SignIn(u0, n, users[u0].role, FALSE)]
  <2>2. /\ ~fails[i].locked
        /\ req' = [req EXCEPT ![w] = j] \/ req' = [req EXCEPT ![w] = [pc |-> "refused", ip |-> i]]
    BY <2>1 DEF LoginPost
  <2>3. j.pc = "verified"
    OBVIOUS
  <2> HIDE DEF j
  <2> QED BY <1>3, <1>4, <2>2, <2>3
<1>6. ASSUME NEW w \in Worker, \E i \in Ip, n \in SsoName : GoogleRefused(w, i, n)
      PROVE  Turns(v)
  BY <1>4, <1>6 DEF GoogleRefused
<1>7. ASSUME NEW w \in Worker, FailRead(w)
      PROVE  Turns(v)
  BY <1>7 DEF FailRead, TypeOK, Turns
<1>8. ASSUME NEW w \in Worker, \E b \in Browser, i \in Ip, ok \in BOOLEAN : Arrive(w, b, i, ok)
      PROVE  Turns(v)
  <2>1. PICK b \in Browser, i \in Ip, ok \in BOOLEAN : Arrive(w, b, i, ok)
    BY <1>8
  <2> DEFINE j == [pc |-> "serving", from |-> b, s |-> Revalidated(cookie[b], ok), got |-> FALSE]
  <2>2. req' = [req EXCEPT ![w] = j] \/ req' = req
    BY <2>1 DEF Arrive
  <2>3. j.pc = "serving"
    OBVIOUS
  <2> HIDE DEF j
  <2> QED BY <1>3, <2>2, <2>3 DEF Turns
<1>9. ASSUME NEW w \in Worker, \E t \in BOOLEAN : PopRead(w, t)
      PROVE  Turns(v)
  <2>1. PICK t \in BOOLEAN : PopRead(w, t)
    BY <1>9
  <2>2. req[w] \in Serving
    BY <2>1, ReqTypes DEF PopRead, MayServe
  <2>3. v # w => req'[v] = req[v]
    BY <2>1 DEF PopRead, TypeOK
  <2>4. v = w => req'[v].pc = "popping"
    <3>1. req'[w] = [[[req[w] EXCEPT !.pc = "popping"] EXCEPT !.got = secret /\ t] EXCEPT !.s.handle = FALSE]
      BY <2>1 DEF PopRead, TypeOK
    <3> QED BY <2>2, <3>1 DEF Serving
  <2> QED BY <2>3, <2>4 DEF Turns
<1>10. ASSUME NEW w \in Worker,
              \/ Admit(w) \/ FailWrite(w) \/ LoginFails(w) \/ View(w) \/ Unlock(w) \/ CreateToken(w) \/ RevokeToken(w) \/ PopDelete(w)
              \/ \E n \in LocalName, r \in Role : AddUser(w, n, r)
              \/ \E u \in UserId : DeleteUser(w, u) \/ (\E r \in Role : SetUserRole(w, u, r))
                                                    \/ (\E d \in BOOLEAN : SetUserDisabled(w, u, d))
       PROVE  Turns(v)
  <2>1. req' = [req EXCEPT ![w] = Idle]
    BY <1>10 DEF Admit, FailWrite, LoginFails, View, Unlock, CreateToken, RevokeToken, PopDelete, AddUser, DeleteUser,
                 SetUserRole, SetUserDisabled, Edit, Answer
  <2> QED BY <1>3, <2>1 DEF Idle
<1> QED BY <1>1, <1>2, <1>5, <1>6, <1>7, <1>8, <1>9, <1>10 DEF Next

\* A count is started over, or left alone, unless a failure is counted.
LEMMA EntryStep ==
    ASSUME TypeOK, Next, \A w \in Worker : ~FailWrite(w), NEW i \in Ip
    PROVE  guesses'[i] = 0 \/ (fails'[i] = fails[i] /\ guesses'[i] = guesses[i])
<1>0. fails \in [Ip -> [n : Nat, locked : BOOLEAN]] /\ guesses \in [Ip -> Nat]
  BY DEF TypeOK
<1>1. CASE \/ \E e \in Env : Restart(e)
           \/ \E b \in Browser : Logout(b) \/ GoesIdle(b)
           \/ \E b \in Browser, n \in SsoName, g \in SUBSET Role, a \in BOOLEAN : SsoCallback(b, n, g, a)
  <2>1. UNCHANGED <<fails, guesses>>
    BY <1>1 DEF Restart, Logout, GoesIdle, SsoCallback, tables
  <2> QED BY <2>1
<1>2. CASE \/ \E k \in Ip : LockExpires(k)
           \/ \E b \in Browser, n \in SsoName, k \in Ip : GoogleCallback(b, k, n)
  <2>1. PICK k \in Ip : (\E x : fails' = [fails EXCEPT ![k] = x]) /\ guesses' = [guesses EXCEPT ![k] = 0]
    <3>1. CASE \E k \in Ip : LockExpires(k)
      BY <3>1 DEF LockExpires
    <3>2. CASE \E b \in Browser, n \in SsoName, k \in Ip : GoogleCallback(b, k, n)
      BY <3>2 DEF GoogleCallback
    <3> QED BY <1>2, <3>1, <3>2
  <2> QED BY <1>0, <2>1
<1>3. ASSUME NEW w \in Worker, Admit(w)
      PROVE  guesses'[i] = 0 \/ (fails'[i] = fails[i] /\ guesses'[i] = guesses[i])
  <2>1. req[w].ip \in Ip
    BY <1>3, ReqTypes DEF Admit, Verified
  <2> QED BY <1>0, <1>3, <2>1 DEF Admit
<1>4. ASSUME NEW w \in Worker, Unlock(w)
      PROVE  guesses'[i] = 0
  BY <1>4 DEF Unlock
<1>5. ASSUME NEW w \in Worker,
             \/ \E b \in Browser, k \in Ip, n \in Name, c \in Cred \ {0} : LoginPost(w, b, k, n, c)
             \/ \E k \in Ip, n \in SsoName : GoogleRefused(w, k, n)
             \/ \E b \in Browser, k \in Ip, r \in BOOLEAN : Arrive(w, b, k, r)
             \/ FailRead(w) \/ LoginFails(w) \/ View(w) \/ CreateToken(w) \/ RevokeToken(w) \/ PopDelete(w)
             \/ \E t \in BOOLEAN : PopRead(w, t)
      PROVE  UNCHANGED <<fails, guesses>>
  BY <1>5 DEF LoginPost, GoogleRefused, Arrive, FailRead, LoginFails, View, CreateToken, RevokeToken, PopDelete, PopRead, tables
<1>6. ASSUME NEW w \in Worker,
             \/ \E n \in LocalName, r \in Role : AddUser(w, n, r)
             \/ \E u \in UserId : DeleteUser(w, u) \/ (\E r \in Role : SetUserRole(w, u, r))
                                                   \/ (\E d \in BOOLEAN : SetUserDisabled(w, u, d))
      PROVE  UNCHANGED <<fails, guesses>>
  <2>1. ASSUME NEW us, Edit(w, us) PROVE UNCHANGED <<fails, guesses>>
    BY <2>1 DEF Edit
  <2> QED BY <1>6, <2>1 DEF AddUser, DeleteUser, SetUserRole, SetUserDisabled
<1> QED BY <1>1, <1>2, <1>3, <1>4, <1>5, <1>6 DEF Next

\* A turn leaves what the worker may write where the counter is not touched.
LEMMA CountRises ==
    ASSUME TypeOK, TypeOK', NEW w, w \in Worker => Turns(w), NEW i \in Ip, fails'[i] = fails[i]
    PROVE  CountOf(w, i)' = -1 \/ (CountOf(w, i) >= 0 /\ CountOf(w, i) <= CountOf(w, i)')
<1>0. fails[i].n \in Nat
  BY DEF TypeOK
<1>1. CASE w \notin Worker
  BY <1>1 DEF CountOf
<1>2. CASE w \in Worker
  <2>0. req[w].pc = "counting" => req[w].n \in Nat
    BY <1>2, ReqTypes
  <2>1. CASE req'[w] = req[w]
    BY <1>0, <1>2, <2>0, <2>1 DEF CountOf
  <2>2. CASE req'[w].pc \notin {"refused", "counting"}
    BY <1>0, <1>2, <2>0, <2>2 DEF CountOf
  <2>3. CASE req'[w].pc = "refused" /\ ~fails[req'[w].ip].locked
    BY <1>0, <1>2, <2>0, <2>3 DEF CountOf
  <2>4. CASE /\ req[w].pc = "refused" /\ req'[w].pc = "counting"
             /\ req'[w].ip = req[w].ip /\ req'[w].n = fails[req[w].ip].n
    BY <1>0, <1>2, <2>4 DEF CountOf
  <2> QED BY <1>2, <2>1, <2>2, <2>3, <2>4 DEF Turns
<1> QED BY <1>1, <1>2

\* Nor does a turn make it late where the counter is not touched.
LEMMA LateFalls ==
    ASSUME TypeOK, NEW w, w \in Worker => Turns(w), NEW i \in Ip, fails'[i] = fails[i]
    PROVE  Late(w, i)' <= Late(w, i)
<1>1. CASE w \notin Worker
  BY <1>1 DEF Late
<1>2. CASE w \in Worker
  BY <1>2 DEF Late, Turns
<1> QED BY <1>1, <1>2

\* What is left when no count is touched, and while the row is there.
LEMMA RestFalls ==
    ASSUME TypeOK, TypeOK', NEW a, NEW b, a \in Worker => Turns(a), b \in Worker => Turns(b),
           NEW i \in Ip, fails'[i] = fails[i]
    PROVE  Rest(a, b, i)' <= Rest(a, b, i) /\ Rest(a, b, i) \in Nat /\ Rest(a, b, i)' \in Nat
<1> DEFINE x == CountOf(a, i)
           y == CountOf(b, i)
<1>1. x \in Count /\ y \in Count /\ x' \in Count /\ y' \in Count
  BY CountOfType, CountOfNext
<1>2. (x' = -1 \/ (x >= 0 /\ x <= x')) /\ (y' = -1 \/ (y >= 0 /\ y <= y'))
  BY CountRises
<1>3. Left(x', y') <= Left(x, y) /\ Left(x', y') \in Nat /\ Left(x, y) \in Nat /\ Chances(1) \in Nat
  BY <1>1, <1>2, LeftFalls, LeftBound
<1>4. Rest(a, b, i) = (IF fails[i].n = 0 THEN 4 + Chances(1) ELSE Left(x, y))
  BY DEF Rest
<1>5. Rest(a, b, i)' = (IF fails[i].n = 0 THEN 4 + Chances(1) ELSE Left(x', y'))
  BY DEF Rest, Chances
<1> HIDE DEF x, y
<1> QED BY <1>3, <1>4, <1>5

LEMMA RestBound ==
    ASSUME TypeOK', NEW a, NEW b, NEW i \in Ip
    PROVE  Rest(a, b, i)' \in Nat /\ Rest(a, b, i)' <= 4 + Chances(1) /\ Chances(1) \in Nat
<1> DEFINE x == CountOf(a, i)'
           y == CountOf(b, i)'
<1>1. x \in Count /\ y \in Count /\ (fails'[i].n # 0 => x # 0 /\ y # 0)
  BY CountOfNext
<1>2. Rest(a, b, i)' = (IF fails'[i].n = 0 THEN 4 + Chances(1) ELSE Left(x, y))
  BY DEF Rest, Chances
<1> HIDE DEF x, y
<1>3. Left(x, y) \in Nat /\ (x # 0 /\ y # 0 => Left(x, y) <= 4 + Chances(1)) /\ Chances(1) \in Nat
  BY <1>1, LeftBound
<1> QED BY <1>1, <1>2, <1>3

\* Nobody but the worker that wrote or deleted the row can be late anew.
LEMMA LateStep ==
    ASSUME TypeOK, TypeOK', Next, NEW a, NEW b, a # b, Worker \subseteq {a, b}, NEW i \in Ip, Late(a, i) + Late(b, i) <= 2
    PROVE  Late(a, i)' + Late(b, i)' <= 2
<1>0. /\ Late(a, i) \in {0, 2} /\ Late(b, i) \in {0, 2} /\ Late(a, i)' \in {0, 2} /\ Late(b, i)' \in {0, 2}
      /\ fails \in [Ip -> [n : Nat, locked : BOOLEAN]]
  BY LateType DEF TypeOK
<1>1. ASSUME NEW w \in Worker, req'[w].pc = "idle" PROVE Late(a, i)' + Late(b, i)' <= 2
  <2>1. Late(w, i)' = 0
    BY <1>1 DEF Late
  <2>2. w = a \/ w = b
    OBVIOUS
  <2> QED BY <1>0, <2>1, <2>2
<1>2. CASE fails'[i] = fails[i]
  <2>1. Late(a, i)' <= Late(a, i) /\ Late(b, i)' <= Late(b, i)
    BY <1>2, LateFalls, TurnsStep
  <2> QED BY <1>0, <2>1
<1>3. CASE \E k \in Ip : LockExpires(k)
  <2>1. PICK k \in Ip : fails' = [fails EXCEPT ![k].locked = FALSE] /\ req' = req
    BY <1>3 DEF LockExpires
  <2>2. fails'[i].n = fails[i].n
    BY <1>0, <2>1
  <2>3. Late(a, i)' = Late(a, i) /\ Late(b, i)' = Late(b, i)
    BY <2>1, <2>2 DEF Late
  <2> QED BY <2>3
<1>4. CASE \E c \in Browser, n \in SsoName, k \in Ip : GoogleCallback(c, k, n)
  <2>1. PICK w \in Worker : req[w] = Idle /\ req' = req
    BY <1>4 DEF GoogleCallback, Free
  <2> QED BY <1>1, <2>1 DEF Idle
<1>5. ASSUME NEW w \in Worker, Admit(w) \/ FailWrite(w) \/ Unlock(w)
      PROVE  Late(a, i)' + Late(b, i)' <= 2
  <2>1. req' = [req EXCEPT ![w] = Idle]
    BY <1>5 DEF Admit, FailWrite, Unlock, Answer
  <2>2. req'[w].pc = "idle"
    BY <2>1 DEF Idle, TypeOK
  <2> QED BY <1>1, <2>2
<1>6. CASE \/ \E e \in Env : Restart(e)
           \/ \E c \in Browser : Logout(c) \/ GoesIdle(c)
           \/ \E c \in Browser, n \in SsoName, g \in SUBSET Role, d \in BOOLEAN : SsoCallback(c, n, g, d)
  <2>1. fails' = fails
    BY <1>6 DEF Restart, Logout, GoesIdle, SsoCallback, tables
  <2> QED BY <1>2, <2>1
<1>7. ASSUME NEW w \in Worker,
             \/ \E c \in Browser, k \in Ip, n \in Name, d \in Cred \ {0} : LoginPost(w, c, k, n, d)
             \/ \E k \in Ip, n \in SsoName : GoogleRefused(w, k, n)
             \/ \E c \in Browser, k \in Ip, r \in BOOLEAN : Arrive(w, c, k, r)
             \/ FailRead(w) \/ LoginFails(w) \/ View(w) \/ CreateToken(w) \/ RevokeToken(w) \/ PopDelete(w)
             \/ \E t \in BOOLEAN : PopRead(w, t)
      PROVE  fails' = fails
  BY <1>7 DEF LoginPost, GoogleRefused, Arrive, FailRead, LoginFails, View, CreateToken, RevokeToken, PopDelete,
              PopRead, tables
<1>8. ASSUME NEW w \in Worker,
             \/ \E n \in LocalName, r \in Role : AddUser(w, n, r)
             \/ \E u \in UserId : DeleteUser(w, u) \/ (\E r \in Role : SetUserRole(w, u, r))
                                                   \/ (\E d \in BOOLEAN : SetUserDisabled(w, u, d))
      PROVE  fails' = fails
  <2>1. ASSUME NEW us, Edit(w, us) PROVE fails' = fails
    BY <2>1 DEF Edit
  <2> QED BY <1>8, <2>1 DEF AddUser, DeleteUser, SetUserRole, SetUserDisabled
<1> QED BY <1>2, <1>3, <1>4, <1>5, <1>6, <1>7, <1>8 DEF Next

\* A count that is stored uses up one try.
LEMMA WriteKeeps ==
    ASSUME TypeOK, TypeOK', NEW w \in Worker, NEW v, v # w, FailWrite(w), Stores(w),
           NEW i \in Ip, i = req[w].ip, NEW b \in Nat, b = req[w].n
    PROVE  Rest(w, v, i)' + 2 + Late(v, i)' <= Rest(w, v, i) + Late(v, i)
<1> DEFINE x == CountOf(w, i)
           y == CountOf(v, i)
<1>1. req[w].pc = "counting" /\ (b = 0 <=> fails[i].n = 0)
  BY DEF FailWrite, Stores
<1>2. /\ fails'[i].n = b + 1 /\ (fails'[i].locked <=> b + 1 >= MaxAttempts)
      /\ req'[w].pc = "idle" /\ (v \in Worker => req'[v] = req[v])
  <2>1. /\ fails' = [fails EXCEPT ![i] = [n |-> b + 1, locked |-> b + 1 >= MaxAttempts]]
        /\ req' = [req EXCEPT ![w] = Idle]
    BY DEF FailWrite
  <2>2. fails'[i] = [n |-> b + 1, locked |-> b + 1 >= MaxAttempts]
    BY <2>1 DEF TypeOK
  <2>3. fails'[i].n = b + 1 /\ (fails'[i].locked <=> b + 1 >= MaxAttempts)
    <3>1. fails'[i].n = b + 1
      BY <2>2
    <3>2. fails'[i].locked = (b + 1 >= MaxAttempts)
      BY <2>2
    <3>3. fails'[i].locked <=> b + 1 >= MaxAttempts
      BY <3>2, Zenon
    <3> QED BY <3>1, <3>3
  <2>4. req'[w] = Idle /\ (v \in Worker => req'[v] = req[v])
    BY <2>1 DEF TypeOK
  <2> QED BY <2>3, <2>4 DEF Idle
<1>0. MaxAttempts \in Nat /\ MaxAttempts > 0 /\ fails[i].n \in Nat /\ Chances(1) \in Nat
  BY AccessAssumption, ChancesFall DEF TypeOK
<1>3. x' \in Count /\ y \in Count /\ y' \in Count /\ x \in Count
  BY CountOfType, CountOfNext
<1>4. x' = (IF b + 1 >= MaxAttempts THEN -1 ELSE b + 1)
  BY <1>0, <1>2 DEF CountOf
<1>5. v \in Worker /\ req[v].pc = "counting" => req[v].n \in Nat
  BY ReqTypes
<1>6. v \notin Worker => y = -1 /\ y' = -1 /\ Late(v, i) = 0 /\ Late(v, i)' = 0
  BY DEF CountOf, Late
<1>7. Late(v, i) \in {0, 2} /\ Late(v, i)' \in {0, 2}
  BY LateType
<1>8. Rest(w, v, i)' = Left(x', y')
  <2>1. b + 1 # 0
    OBVIOUS
  <2> QED BY <1>2, <2>1 DEF Rest
<1>9. /\ v \in Worker /\ b + 1 < MaxAttempts => y' >= 0 /\ y' <= b + 1
      /\ y' = -1 \/ y' <= b + 1
  BY <1>0, <1>2, <1>5, <1>6 DEF CountOf
<1>10. CASE fails[i].n = 0
  <2>1. b = 0 /\ Rest(w, v, i) = 4 + Chances(1)
    BY <1>1, <1>10 DEF Rest
  <2>2. y' \in {-1, 1}
    <3>1. y' # 0
      BY <1>2, <2>1, CountOfNext
    <3> QED BY <1>3, <1>9, <2>1, <3>1 DEF Count
  <2>3. CASE 1 < MaxAttempts
    <3>1. x' = 1 /\ Left(1, 1) = Chances(1)
      <4>1. Chances(1) = 2 * Climb(1) + 2 + Chances(1 + 1)
        BY <2>3, ChancesFall
      <4>2. Left(1, 1) = 2 * Climb(1) + 2 + Chances(1 + 1)
        BY LeftCases
      <4> QED BY <1>0, <1>4, <2>1, <2>3, <4>1, <4>2
    <3>2. Left(1, -1) <= Left(1, 1) /\ Left(1, -1) \in Nat
      <4>1. 1 \in Count /\ -1 \in Count /\ 1 >= 0 /\ 1 <= 1
        BY DEF Count
      <4>2. Left(1, -1) <= Left(1, 1)
        BY <4>1, LeftFalls
      <4> QED BY <4>1, <4>2, LeftBound
    <3> HIDE DEF x, y
    <3> QED BY <1>0, <1>7, <1>8, <2>1, <2>2, <3>1, <3>2
  <2>4. CASE ~(1 < MaxAttempts)
    <3>1. x' = -1 /\ Chances(1) = 0 /\ Chances(1 + 1) = 0
      BY <1>0, <1>4, <2>1, <2>4, ChancesFall
    <3>2. Left(-1, -1) = 0 /\ Left(-1, 1) = 2
      BY <3>1, LeftCases
    <3>3. y' = 1 => Late(v, i)' = 0
      BY <1>0, <1>2, <1>5, <2>1, <2>4 DEF CountOf, Late
    <3> HIDE DEF x, y
    <3> QED BY <1>7, <1>8, <2>1, <2>2, <3>1, <3>2, <3>3
  <2> QED BY <2>3, <2>4
<1>11. CASE fails[i].n # 0
  <2>1. b # 0 /\ Rest(w, v, i) = Left(x, y)
    BY <1>1, <1>11 DEF Rest
  <2>2. x \in Nat /\ x <= b
    BY <1>0, <1>1, <2>1 DEF CountOf, Count
  <2>3. Late(v, i)' <= Late(v, i)
    <3>1. b + 1 # 0 /\ fails'[i].n # 0
      BY <1>2
    <3> QED BY <1>2, <1>11, <3>1 DEF Late
  <2>4. v \in Worker /\ b + 1 < MaxAttempts => (y' <= b => y >= 0 /\ y <= y')
    BY <1>0, <1>2, <1>5 DEF CountOf
  <2>5. b + 1 >= MaxAttempts => (y' >= 0 => y >= 0) /\ (y' >= 0 /\ y' <= b => y <= y')
    BY <1>0, <1>2, <1>5 DEF CountOf
  <2> HIDE DEF x, y
  <2>6. Left(x', y') + 2 <= Left(x, y)
    <3>1. CASE b + 1 >= MaxAttempts
      BY <1>3, <1>4, <2>2, <2>5, <3>1, LeftAfterWrite
    <3>2. CASE b + 1 < MaxAttempts /\ v \in Worker
      <4>1. x' = b + 1
        BY <1>0, <1>4, <3>2
      <4> QED BY <1>3, <1>9, <2>2, <2>4, <3>2, <4>1, LeftAfterWrite
    <3>3. CASE b + 1 < MaxAttempts /\ v \notin Worker
      <4>1. x' = b + 1 /\ b + 1 \in Count /\ y' = -1
        BY <1>0, <1>3, <1>4, <1>6, <3>3
      <4>2. Left(b + 1, b + 1) + 2 <= Left(x, y)
        BY <1>3, <2>2, <3>3, <4>1, LeftAfterWrite
      <4>3. Left(b + 1, -1) <= Left(b + 1, b + 1)
        BY <1>3, <4>1, LeftFalls
      <4>4. Left(b + 1, -1) \in Nat /\ Left(b + 1, b + 1) \in Nat /\ Left(x, y) \in Nat
        BY <1>3, <4>1, LeftBound
      <4> QED BY <4>1, <4>2, <4>3, <4>4
    <3> QED BY <1>0, <3>1, <3>2, <3>3
  <2>7. Left(x', y') \in Nat /\ Left(x, y) \in Nat
    BY <1>3, LeftBound
  <2> QED BY <1>7, <1>8, <2>1, <2>3, <2>6, <2>7
<1> QED BY <1>10, <1>11

LEMMA GuessWrite ==
    ASSUME TypeOK, TypeOK', Next, NEW w \in Worker, NEW v, v # w, FailWrite(w), NEW i \in Ip,
           2 * guesses[i] + Rest(w, v, i) + Late(w, i) + Late(v, i) <= 6 + Chances(1)
    PROVE  2 * guesses'[i] + Rest(w, v, i)' + Late(w, i)' + Late(v, i)' <= 6 + Chances(1)
<1>0. /\ guesses[i] \in Nat /\ Chances(1) \in Nat /\ Rest(w, v, i)' \in Nat
      /\ Late(w, i) \in {0, 2} /\ Late(w, i)' \in {0, 2} /\ Late(v, i) \in {0, 2} /\ Late(v, i)' \in {0, 2}
  BY LateType, RestBound DEF TypeOK
<1>1. req[w].ip \in Ip /\ req[w].n \in Nat /\ req[w].pc = "counting" /\ Turns(w) /\ (v \in Worker => Turns(v))
  BY ReqTypes, TurnsStep DEF FailWrite
<1>2. Late(w, i)' = 0
  BY DEF FailWrite, TypeOK, Idle, Late
<1>3. guesses' = [guesses EXCEPT ![req[w].ip] = @ + 1] /\ guesses \in [Ip -> Nat]
  BY DEF FailWrite, TypeOK
<1>4. CASE i = req[w].ip /\ Stores(w)
  <2>1. PICK b \in Nat : b = req[w].n
    BY <1>1
  <2>2. Rest(w, v, i)' + 2 + Late(v, i)' <= Rest(w, v, i) + Late(v, i)
    BY <1>4, <2>1, WriteKeeps
  <2>3. Late(w, i) = 0
    BY <1>4 DEF Late, Stores
  <2>4. Rest(w, v, i) \in Int
    <3>1. CountOf(w, i) \in Count /\ CountOf(v, i) \in Count
      BY CountOfType
    <3>2. Left(CountOf(w, i), CountOf(v, i)) \in Nat
      BY <3>1, LeftBound
    <3> QED BY <1>0, <3>2 DEF Rest
  <2> QED BY <1>0, <1>2, <1>3, <1>4, <2>2, <2>3, <2>4
<1>5. CASE ~(i = req[w].ip /\ Stores(w))
  <2>1. fails'[i] = fails[i]
    BY <1>1, <1>5 DEF FailWrite, TypeOK
  <2>2. Rest(w, v, i)' <= Rest(w, v, i) /\ Rest(w, v, i) \in Nat
    BY <1>1, <2>1, RestFalls
  <2>3. Late(v, i)' <= Late(v, i)
    BY <1>1, <2>1, LateFalls
  <2>4. CASE i # req[w].ip
    <3>1. guesses'[i] = guesses[i]
      BY <1>3, <2>4
    <3> QED BY <1>0, <1>2, <2>2, <2>3, <3>1
  <2>5. CASE i = req[w].ip /\ ~Stores(w)
    <3>1. guesses'[i] = guesses[i] + 1
      BY <1>3, <2>5
    <3>2. Late(w, i) = 2
      BY <1>1, <2>5 DEF Late, Stores
    <3> QED BY <1>0, <1>2, <2>2, <2>3, <3>1, <3>2
  <2> QED BY <1>5, <2>4, <2>5
<1> QED BY <1>4, <1>5

LEMMA RestEither ==
    ASSUME NEW a, NEW b, NEW i \in Ip
    PROVE  /\ TypeOK => Rest(a, b, i) = Rest(b, a, i)
           /\ TypeOK' => Rest(a, b, i)' = Rest(b, a, i)'
<1>1. ASSUME TypeOK PROVE Rest(a, b, i) = Rest(b, a, i)
  <2>1. CountOf(a, i) \in Count /\ CountOf(b, i) \in Count
    BY <1>1, CountOfType
  <2>2. Left(CountOf(a, i), CountOf(b, i)) = Left(CountOf(b, i), CountOf(a, i))
    BY <2>1, LeftBound
  <2> QED BY <2>2 DEF Rest
<1>2. ASSUME TypeOK' PROVE Rest(a, b, i)' = Rest(b, a, i)'
  <2>1. CountOf(a, i)' \in Count /\ CountOf(b, i)' \in Count
    BY <1>2, CountOfNext
  <2>2. Left(CountOf(a, i)', CountOf(b, i)') = Left(CountOf(b, i)', CountOf(a, i)')
    BY <2>1, LeftBound
  <2> QED BY <2>2 DEF Rest
<1> QED BY <1>1, <1>2

LEMMA GuessStep ==
    ASSUME TypeOK, NEW a, NEW b, a # b, Worker \subseteq {a, b}, GuessInv(a, b), [Next]_vars
    PROVE  GuessInv(a, b)'
<1>1. TypeOK'
  BY TypeStep
<1>2. CASE UNCHANGED vars
  BY <1>2 DEF GuessInv, Rest, Late, CountOf, vars
<1>3. CASE Next
  <2> SUFFICES ASSUME NEW i \in Ip
               PROVE  /\ 2 * guesses'[i] + Rest(a, b, i)' + Late(a, i)' + Late(b, i)' <= 6 + Chances(1)
                      /\ Late(a, i)' + Late(b, i)' <= 2
    BY DEF GuessInv, Chances
  <2>1. 2 * guesses[i] + Rest(a, b, i) + Late(a, i) + Late(b, i) <= 6 + Chances(1) /\ Late(a, i) + Late(b, i) <= 2
    BY DEF GuessInv
  <2>2. Late(a, i)' + Late(b, i)' <= 2
    BY <1>1, <1>3, <2>1, LateStep
  <2>3. /\ Late(a, i) \in {0, 2} /\ Late(b, i) \in {0, 2} /\ Late(a, i)' \in {0, 2} /\ Late(b, i)' \in {0, 2}
        /\ Rest(a, b, i)' \in Nat /\ Rest(a, b, i)' <= 4 + Chances(1) /\ Chances(1) \in Nat /\ guesses[i] \in Nat
        /\ guesses'[i] \in Nat /\ Rest(a, b, i) = Rest(b, a, i) /\ Rest(a, b, i)' = Rest(b, a, i)'
    <3>1. Rest(a, b, i) = Rest(b, a, i) /\ Rest(a, b, i)' = Rest(b, a, i)'
      BY <1>1, RestEither
    <3>2. guesses[i] \in Nat /\ guesses'[i] \in Nat
      BY <1>1 DEF TypeOK
    <3>3. Rest(a, b, i)' \in Nat /\ Rest(a, b, i)' <= 4 + Chances(1) /\ Chances(1) \in Nat
      BY <1>1, RestBound
    <3> QED BY <3>1, <3>2, <3>3, LateType
  <2>4. ASSUME NEW w \in Worker, FailWrite(w)
        PROVE  2 * guesses'[i] + Rest(a, b, i)' + Late(a, i)' + Late(b, i)' <= 6 + Chances(1)
    <3>1. CASE w = a
      BY <1>1, <1>3, <2>1, <2>4, <3>1, GuessWrite
    <3>2. CASE w = b
      <4>1. Rest(b, a, i) \in Int
        <5>1. CountOf(a, i) \in Count /\ CountOf(b, i) \in Count
          BY CountOfType
        <5>2. Left(CountOf(b, i), CountOf(a, i)) \in Nat
          BY <5>1, LeftBound
        <5> QED BY <2>3, <5>2 DEF Rest
      <4>2. 2 * guesses[i] + Rest(b, a, i) + Late(b, i) + Late(a, i) <= 6 + Chances(1)
        BY <2>1, <2>3, <4>1
      <4>3. 2 * guesses'[i] + Rest(b, a, i)' + Late(b, i)' + Late(a, i)' <= 6 + Chances(1)
        BY <1>1, <1>3, <2>4, <3>2, <4>2, GuessWrite
      <4> QED BY <2>3, <4>3
    <3> QED BY <3>1, <3>2
  <2>5. CASE \A w \in Worker : ~FailWrite(w)
    <3>1. CASE guesses'[i] = 0
      BY <2>2, <2>3, <3>1
    <3>2. CASE fails'[i] = fails[i] /\ guesses'[i] = guesses[i]
      <4>1. (a \in Worker => Turns(a)) /\ (b \in Worker => Turns(b))
        BY <1>3, TurnsStep
      <4>2. Rest(a, b, i)' <= Rest(a, b, i) /\ Rest(a, b, i) \in Nat
        BY <1>1, <3>2, <4>1, RestFalls
      <4>3. Late(a, i)' <= Late(a, i) /\ Late(b, i)' <= Late(b, i)
        BY <3>2, <4>1, LateFalls
      <4> QED BY <2>1, <2>3, <3>2, <4>2, <4>3
    <3> QED BY <1>3, <2>5, <3>1, <3>2, EntryStep
  <2> QED BY <2>2, <2>4, <2>5
<1> QED BY <1>2, <1>3

\* is_locked and record_failure, for every MAX_LOGIN_ATTEMPTS, any number of
\* addresses, browsers and events: with two workers no address gets to try
\* more than MaxAttempts * (MaxAttempts + 1) / 2 + 2 wrong passwords between
\* two times its count starts over (and as many more as the database refused
\* to count), although the lock is looked at and the counter read long before
\* it is written, and the row it was read from may have come or gone.
THEOREM GuessesStayBounded ==
    ASSUME NEW a, NEW b, a # b, Worker \subseteq {a, b}
    PROVE  Spec => []GuessesBounded
<1>1. Init => GuessInv(a, b)
  <2> SUFFICES ASSUME Init, NEW i \in Ip
               PROVE  /\ 2 * guesses[i] + Rest(a, b, i) + Late(a, i) + Late(b, i) <= 6 + Chances(1)
                      /\ Late(a, i) + Late(b, i) <= 2
    BY DEF GuessInv
  <2>1. guesses[i] = 0 /\ Rest(a, b, i) = 4 + Chances(1)
    BY DEF Init, Rest
  <2>2. Late(a, i) = 0 /\ Late(b, i) = 0 /\ Chances(1) \in Nat
    BY ChancesFall DEF Init, Idle, Late
  <2> QED BY <2>1, <2>2
<1>2. TypeOK /\ GuessInv(a, b) /\ [Next]_vars => GuessInv(a, b)'
  BY GuessStep
<1>3. TypeOK /\ GuessInv(a, b) => GuessesBounded
  <2> SUFFICES ASSUME TypeOK, GuessInv(a, b), NEW i \in Ip
               PROVE  guesses[i] <= (MaxAttempts * (MaxAttempts + 1)) \div 2 + 2
    BY DEF GuessesBounded
  <2> DEFINE M == MaxAttempts * (MaxAttempts + 1)
             L == Rest(a, b, i)
  <2>1. M \in Nat /\ guesses[i] \in Nat /\ Late(a, i) \in Nat /\ Late(b, i) \in Nat
    BY AccessAssumption, LateType DEF TypeOK
  <2>2. L \in Nat
    <3>1. CountOf(a, i) \in Count /\ CountOf(b, i) \in Count
      BY CountOfType
    <3>2. Left(CountOf(a, i), CountOf(b, i)) \in Nat /\ Chances(1) \in Nat
      BY <3>1, LeftBound
    <3> QED BY <3>2 DEF Rest
  <2>3. Chances(1) + 2 = M
    <3>1. MaxAttempts \in Nat /\ MaxAttempts > 0
      BY AccessAssumption
    <3>2. CASE MaxAttempts = 1
      BY <3>2 DEF Chances
    <3>3. CASE MaxAttempts > 1
      <4>1. Chances(1) = (MaxAttempts - 1) * (MaxAttempts - 1 + 3)
        BY <3>1, <3>3 DEF Chances
      <4>2. (MaxAttempts - 1) * (MaxAttempts - 1 + 3) + 2 = MaxAttempts * (MaxAttempts + 1)
        BY <3>1
      <4> QED BY <4>1, <4>2
    <3> QED BY <3>1, <3>2, <3>3
  <2>4. 2 * guesses[i] + L + Late(a, i) + Late(b, i) <= 6 + Chances(1) /\ Chances(1) \in Nat
    BY ChancesFall DEF GuessInv
  <2> HIDE DEF M, L
  <2>5. 2 * guesses[i] <= M + 4
    BY <2>1, <2>2, <2>3, <2>4
  <2>6. guesses[i] <= M \div 2 + 2
    BY <2>1, <2>5
  <2> QED BY <2>6 DEF M
<1> QED BY <1>1, <1>2, <1>3, TypeInit, TypeStep, PTL DEF Spec

=============================================================================
