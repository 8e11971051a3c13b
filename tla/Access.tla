------------------------------- MODULE Access -------------------------------
(***************************************************************************)
(* Signing in and staying signed in: auth.py, the sign-in and user routes  *)
(* of app.py, the three single sign-on modules, the API tokens, and the    *)
(* one-time secrets of db.py.                                              *)
(*                                                                         *)
(* gunicorn's workers each serve one request at a time.  The session lives *)
(* in the browser's cookie: a request works on the copy it came with, and  *)
(* its answer replaces the cookie.  A password check (bcrypt) takes long,  *)
(* so a sign-in is several steps; so is counting a failure, which reads    *)
(* the counter and writes it back.  A clock is not kept: a lock runs out   *)
(* and a session idles out at any moment.                                  *)
(***************************************************************************)
EXTENDS Integers, FiniteSets

CONSTANTS
    Worker, Browser, Ip,
    AllowedIp,     \* IP_WHITELIST
    LocalName,     \* usernames add_user accepts
    SsoName,       \* email addresses an identity provider vouches for
    NoName,
    Env,           \* the .env files the program is started with
    Boot,          \* the first of them
    DefaultRole,   \* OIDC_DEFAULT_ROLE and SAML_DEFAULT_ROLE
    MaxAttempts,   \* MAX_LOGIN_ATTEMPTS
    MaxUser,       \* bound: user ids
    Bound          \* bound: how often the kinds of Event happen together

\* guess: a wrong password.  change: a restart, a single sign-on, an edit of
\* the users, a token, an unlock, an idle session, or a statement that fails.
Event == {"guess", "change"}

Role == {"viewer", "operator", "admin"}
Cred == 0..3        \* a password with its TOTP secret; 0: nobody knows it, 3: add_user made it
Name == LocalName \cup SsoName \cup {e.name : e \in Env}

\* APP_USERNAME, APP_PASSWORD_HASH with TOTP_SECRET, and the GOOGLE_*_EMAILS.
EnvFile == [name : Name, cred : Cred \ {3}, allow : [SsoName -> Role \cup {"none"}]]

ASSUME AccessAssumption ==
    /\ NoName \notin Name /\ IsFiniteSet(Worker)
    /\ Boot \in Env /\ Env \subseteq EnvFile
    /\ DefaultRole \in Role \cup {"none"}
    /\ MaxAttempts \in Nat \ {0} /\ MaxUser \in Nat \ {0}
    /\ Bound \subseteq [Event -> Nat]

VARIABLES
    env,        \* the environment the processes run with
    users,      \* the rows of `users`; NoName: no such row
    lastId,     \* the newest id (AUTOINCREMENT never reuses one)
    fails,      \* login_attempts, by address
    cookie,     \* the session each browser holds
    req,        \* the request each worker serves
    token,      \* the API tokens made, and whether they still work
    secret,     \* the one-time secret waiting under once.<handle>
    shown,      \* how often it was put on a page
    guesses,    \* failures put to the table, by address, since it last started over
    used        \* events so far

vars == <<env, users, lastId, fails, cookie, req, token, secret, shown, guesses, used>>
tables == <<users, lastId, fails>>
tokens == <<token, secret, shown>>

-----------------------------------------------------------------------------
UserId == 1..MaxUser

Row   == [name : Name \cup {NoName}, cred : Cred, role : Role, disabled : BOOLEAN]
NoRow == [name |-> NoName, cred |-> 0, role |-> "viewer", disabled |-> FALSE]

\* uid 0: not logged in.  fresh: last_active is within SESSION_TIMEOUT_MIN.
Session == [uid : 0..MaxUser, name : Name \cup {NoName}, role : Role, google : BOOLEAN,
            fresh : BOOLEAN, handle : BOOLEAN]
Anon    == [uid |-> 0, name |-> NoName, role |-> "viewer", google |-> FALSE, fresh |-> FALSE, handle |-> FALSE]

Idle == [pc |-> "idle"]

SignIn(u, n, r, g) == [uid |-> u, name |-> n, role |-> r, google |-> g, fresh |-> TRUE, handle |-> FALSE]

Request ==
    [pc : {"idle"}]
    \cup [pc : {"verified"}, from : Browser, ip : Ip, s : Session]
    \cup [pc : {"refused"}, ip : Ip]
    \cup [pc : {"counting"}, ip : Ip, n : Nat]
    \cup [pc : {"serving", "popping"}, from : Browser, s : Session, got : BOOLEAN]

TypeOK ==
    /\ env \in Env
    /\ users \in [UserId -> Row] /\ lastId \in 0..MaxUser
    /\ fails \in [Ip -> [n : Nat, locked : BOOLEAN]]
    /\ cookie \in [Browser -> Session]
    /\ req \in [Worker -> Request]
    /\ token \in {"none", "good", "revoked"} /\ secret \in BOOLEAN /\ shown \in Nat
    /\ guesses \in [Ip -> Nat] /\ used \in [Event -> Nat]

Spend(e) == LET u == [used EXCEPT ![e] = @ + 1] IN u \in Bound /\ used' = u

Rank == [r \in Role \cup {"none"} |->
            CASE r = "none" -> 0 [] r = "viewer" -> 1 [] r = "operator" -> 2 [] r = "admin" -> 3]

Exists(u) == u \in UserId /\ users[u].name # NoName
Live(u)   == Exists(u) /\ ~users[u].disabled
Named(n)  == {u \in UserId : users[u].name = n}

\* A Google session has the role of the allowlist, any other the row's.
RoleNow(s) ==
    IF ~Live(s.uid) THEN "none"
    ELSE IF s.google /\ users[s.uid].name \in SsoName THEN env.allow[users[s.uid].name]
    ELSE IF s.google THEN "none"
    ELSE users[s.uid].role

-----------------------------------------------------------------------------
(* Starting: seed_env_user runs at every boot. *)

Seed(us, last, e) ==
    LET old == {u \in UserId : us[u].name = e.name} IN
    IF e.cred = 0 THEN us
    ELSE IF old # {}
    THEN [u \in UserId |-> IF u \in old /\ us[u].cred # e.cred
                           THEN [us[u] EXCEPT !.cred = e.cred, !.role = "admin", !.disabled = FALSE]
                           ELSE us[u]]
    ELSE [us EXCEPT ![last + 1] = [name |-> e.name, cred |-> e.cred, role |-> "admin",
                                   disabled |-> FALSE]]

SeedsRow(us, e) == e.cred # 0 /\ \A u \in UserId : us[u].name # e.name

Init ==
    /\ env = Boot
    /\ users = Seed([u \in UserId |-> NoRow], 0, Boot)
    /\ lastId = IF Boot.cred = 0 THEN 0 ELSE 1
    /\ fails = [i \in Ip |-> [n |-> 0, locked |-> FALSE]]
    /\ cookie = [b \in Browser |-> Anon]
    /\ req = [w \in Worker |-> Idle]
    /\ token = "none" /\ secret = FALSE /\ shown = 0
    /\ guesses = [i \in Ip |-> 0]
    /\ used = [e \in Event |-> 0]

\* The requests under way are lost; cookies and tables survive.
Restart(e) ==
    /\ Spend("change")
    /\ SeedsRow(users, e) => lastId < MaxUser
    /\ env' = e
    /\ users' = Seed(users, lastId, e)
    /\ lastId' = IF SeedsRow(users, e) THEN lastId + 1 ELSE lastId
    /\ req' = [w \in Worker |-> Idle]
    /\ UNCHANGED <<fails, cookie, tokens, guesses>>

-----------------------------------------------------------------------------
(* Signing in with a password *)

MutantLoginPost(w, b, i, n, c) ==
    LET who == {u \in Named(n) : Live(u) /\ users[u].cred = c} IN
    /\ req[w] = Idle /\ i \in AllowedIp
    /\ IF who # {}
       THEN /\ req' = [req EXCEPT ![w] = [pc |-> "verified", from |-> b, ip |-> i,
                           s |-> LET u == CHOOSE u \in who : TRUE IN SignIn(u, n, users[u].role, FALSE)]]
            /\ UNCHANGED used
       ELSE /\ Spend("guess")
            /\ req' = [req EXCEPT ![w] = [pc |-> "refused", ip |-> i]]
    /\ UNCHANGED <<env, tables, cookie, tokens, guesses>>

\* The lock is looked at and the row read; then the password is compared.
LoginPost(w, b, i, n, c) ==
    LET who == {u \in Named(n) : Live(u) /\ users[u].cred = c} IN
    /\ req[w] = Idle /\ i \in AllowedIp
    /\ ~fails[i].locked
    /\ IF who # {}
       THEN /\ req' = [req EXCEPT ![w] = [pc |-> "verified", from |-> b, ip |-> i,
                           s |-> LET u == CHOOSE u \in who : TRUE IN SignIn(u, n, users[u].role, FALSE)]]
            /\ UNCHANGED used
       ELSE /\ Spend("guess")
            /\ req' = [req EXCEPT ![w] = [pc |-> "refused", ip |-> i]]
    /\ UNCHANGED <<env, tables, cookie, tokens, guesses>>

\* clear_failures, and the answer carries a new session.
Admit(w) ==
    /\ req[w].pc = "verified"
    /\ fails' = [fails EXCEPT ![req[w].ip] = [n |-> 0, locked |-> FALSE]]
    /\ guesses' = [guesses EXCEPT ![req[w].ip] = 0]
    /\ cookie' = [cookie EXCEPT ![req[w].from] = req[w].s]
    /\ req' = [req EXCEPT ![w] = Idle]
    /\ UNCHANGED <<env, users, lastId, tokens, used>>

\* record_failure, one statement at a time.
FailRead(w) ==
    /\ req[w].pc = "refused"
    /\ req' = [req EXCEPT ![w] = [pc |-> "counting", ip |-> req[w].ip, n |-> fails[req[w].ip].n]]
    /\ UNCHANGED <<env, tables, cookie, tokens, guesses, used>>

\* Whether the statement finds the table as it was read: an UPDATE changes
\* nothing when the row is gone, an INSERT is refused (ip is UNIQUE) when
\* another request has made it.
Stores(w) == req[w].n = 0 <=> fails[req[w].ip].n = 0

\* A failure that is not the last one writes locked_until = NULL.
FailWrite(w) ==
    LET n == req[w].n + 1 IN
    /\ req[w].pc = "counting"
    /\ fails' = IF Stores(w)
                THEN [fails EXCEPT ![req[w].ip] = [n |-> n, locked |-> n >= MaxAttempts]]
                ELSE fails
    /\ guesses' = [guesses EXCEPT ![req[w].ip] = @ + 1]
    /\ req' = [req EXCEPT ![w] = Idle]
    /\ UNCHANGED <<env, users, lastId, cookie, tokens, used>>

\* A statement of login_post or google_callback fails ("database is locked"):
\* the request ends there, nothing counted, cleared or signed in.
LoginFails(w) ==
    /\ req[w].pc \in {"verified", "refused", "counting"}
    /\ Spend("change")
    /\ req' = [req EXCEPT ![w] = Idle]
    /\ UNCHANGED <<env, tables, cookie, tokens, guesses>>

\* The time of a lock is over; the count is not started again.
LockExpires(i) ==
    /\ fails[i].locked
    /\ fails' = [fails EXCEPT ![i].locked = FALSE]
    /\ guesses' = [guesses EXCEPT ![i] = 0]
    /\ UNCHANGED <<env, users, lastId, cookie, req, tokens, used>>

-----------------------------------------------------------------------------
(* Single sign-on *)

\* The best role of the user's groups, else the default; "none" is a refusal.
RoleForClaims(groups, admissible) ==
    IF ~admissible THEN "none"
    ELSE IF "admin" \in groups THEN "admin"
    ELSE IF "operator" \in groups THEN "operator"
    ELSE IF "viewer" \in groups THEN "viewer"
    ELSE DefaultRole

\* upsert_sso_user for a name that is not disabled: the row's role follows
\* the provider, and a new row has a password nobody knows.
Upsert(n, r) ==
    LET old == Named(n) IN
    IF old # {}
    THEN /\ \A u \in old : ~users[u].disabled
         /\ users' = [u \in UserId |-> IF u \in old THEN [users[u] EXCEPT !.role = r] ELSE users[u]]
         /\ UNCHANGED lastId
    ELSE /\ lastId < MaxUser
         /\ lastId' = lastId + 1
         /\ users' = [users EXCEPT ![lastId + 1] =
                         [name |-> n, cred |-> 0, role |-> r, disabled |-> FALSE]]

\* A worker to serve what is one step here.
Free == \E w \in Worker : req[w] = Idle

IdOf(us, n) == CHOOSE u \in UserId : us[u].name = n

\* sso_callback and saml_acs: neither looks at the lock nor at the
\* addresses; both refuse without counting a failure.
SsoCallback(b, n, groups, admissible) ==
    LET r == RoleForClaims(groups, admissible) IN
    /\ Spend("change") /\ Free
    /\ r # "none"
    /\ Upsert(n, r)
    /\ cookie' = [cookie EXCEPT ![b] = SignIn(IdOf(users', n), n, r, FALSE)]
    /\ UNCHANGED <<env, fails, req, tokens, guesses>>

\* google_callback: admitted by the allowlist of the running process.
GoogleCallback(b, i, n) ==
    /\ Spend("change") /\ Free
    /\ i \in AllowedIp /\ ~fails[i].locked
    /\ env.allow[n] # "none"
    /\ Upsert(n, env.allow[n])
    /\ cookie' = [cookie EXCEPT ![b] = SignIn(IdOf(users', n), n, env.allow[n], TRUE)]
    /\ fails' = [fails EXCEPT ![i] = [n |-> 0, locked |-> FALSE]]
    /\ guesses' = [guesses EXCEPT ![i] = 0]
    /\ UNCHANGED <<env, req, tokens>>

\* _google_failed: a refused account counts like a wrong password.
GoogleRefused(w, i, n) ==
    /\ Spend("guess")
    /\ req[w] = Idle
    /\ i \in AllowedIp /\ ~fails[i].locked
    /\ \/ env.allow[n] = "none"
       \/ \E u \in Named(n) : users[u].disabled
    /\ req' = [req EXCEPT ![w] = [pc |-> "refused", ip |-> i]]
    /\ UNCHANGED <<env, tables, cookie, tokens, guesses>>

-----------------------------------------------------------------------------
(* A request of someone signed in *)

\* _revalidate_session; when the table cannot be read the session stays.
Revalidated(s, readable) ==
    IF ~readable THEN s
    ELSE IF RoleNow(s) = "none" THEN Anon
    ELSE [s EXCEPT !.role = RoleNow(s), !.name = users[s.uid].name]

\* before_request, then login_required: signed out, or served and touched.
Arrive(w, b, i, readable) ==
    LET s == Revalidated(cookie[b], readable) IN
    /\ req[w] = Idle /\ cookie[b].uid # 0
    /\ i \in AllowedIp
    /\ IF readable THEN UNCHANGED used ELSE Spend("change")
    /\ IF s.uid # 0 /\ s.fresh
       THEN /\ req' = [req EXCEPT ![w] = [pc |-> "serving", from |-> b, s |-> s, got |-> FALSE]]
            /\ UNCHANGED cookie
       ELSE /\ cookie' = [cookie EXCEPT ![b] = Anon]
            /\ UNCHANGED req
    /\ UNCHANGED <<env, tables, tokens, guesses>>

MayServe(w, need) == req[w].pc = "serving" /\ Rank[req[w].s.role] >= Rank[need]

\* The answer, with the session the request worked on.
Answer(w, s) ==
    /\ cookie' = [cookie EXCEPT ![req[w].from] = s]
    /\ req' = [req EXCEPT ![w] = Idle]

\* A page, or a refusal for want of a role.
View(w) ==
    /\ req[w].pc = "serving"
    /\ Answer(w, req[w].s)
    /\ UNCHANGED <<env, tables, tokens, guesses, used>>

MutantEdit(w, us) ==
    /\ MayServe(w, "admin")
    /\ Spend("change")
    /\ us # users
    /\ users' = us
    /\ Answer(w, req[w].s)
    /\ UNCHANGED <<env, fails, tokens, guesses>>

\* What set_user_disabled, set_user_role and delete_user refuse of row 1.
Edit(w, us) ==
    /\ MayServe(w, "admin")
    /\ Spend("change")
    /\ us # users
    /\ us[1].name = users[1].name
    /\ us[1].disabled => users[1].disabled
    /\ us[1].role \in {users[1].role, "admin"}
    /\ users' = us
    /\ Answer(w, req[w].s)
    /\ UNCHANGED <<env, fails, tokens, guesses>>

MutantAddUser(w, n, r) ==
    LET u == CHOOSE u \in UserId : ~Exists(u) IN
    /\ Named(n) = {} /\ \E v \in UserId : ~Exists(v)
    /\ lastId' = IF u > lastId THEN u ELSE lastId
    /\ Edit(w, [users EXCEPT ![u] = [name |-> n, cred |-> 3, role |-> r, disabled |-> FALSE]])

\* add_user; lastId is AUTOINCREMENT's.
AddUser(w, n, r) ==
    /\ Named(n) = {} /\ lastId < MaxUser
    /\ lastId' = lastId + 1
    /\ Edit(w, [users EXCEPT ![lastId + 1] = [name |-> n, cred |-> 3, role |-> r, disabled |-> FALSE]])

SetUserRole(w, u, r)     == Exists(u) /\ Edit(w, [users EXCEPT ![u].role = r]) /\ UNCHANGED lastId
SetUserDisabled(w, u, d) == Exists(u) /\ Edit(w, [users EXCEPT ![u].disabled = d]) /\ UNCHANGED lastId
DeleteUser(w, u)         == Exists(u) /\ Edit(w, [users EXCEPT ![u] = NoRow]) /\ UNCHANGED lastId

\* security_unlock: every address starts over.
Unlock(w) ==
    /\ MayServe(w, "operator")
    /\ Spend("change")
    /\ fails' = [i \in Ip |-> [n |-> 0, locked |-> FALSE]]
    /\ guesses' = [i \in Ip |-> 0]
    /\ Answer(w, req[w].s)
    /\ UNCHANGED <<env, users, lastId, tokens>>

\* The secret is parked in `settings` and the session holds its handle.
CreateToken(w) ==
    /\ MayServe(w, "admin")
    /\ token = "none" /\ Spend("change")
    /\ token' = "good" /\ secret' = TRUE
    /\ Answer(w, [req[w].s EXCEPT !.handle = TRUE])
    /\ UNCHANGED <<env, tables, shown, guesses>>

RevokeToken(w) ==
    /\ MayServe(w, "admin")
    /\ token = "good" /\ token' = "revoked"
    /\ Answer(w, req[w].s)
    /\ UNCHANGED <<env, tables, secret, shown, guesses, used>>

\* admin_tokens_page takes the handle out of the session; pop_once reads,
\* and after five minutes finds the secret too old ...
PopRead(w, inTime) ==
    /\ MayServe(w, "admin") /\ req[w].s.handle
    /\ req' = [req EXCEPT ![w].pc = "popping", ![w].got = secret /\ inTime, ![w].s.handle = FALSE]
    /\ UNCHANGED <<env, tables, cookie, tokens, guesses, used>>

\* ... then deletes, and the page shows what was read.
PopDelete(w) ==
    /\ req[w].pc = "popping"
    /\ secret' = FALSE
    /\ shown' = IF req[w].got THEN shown + 1 ELSE shown
    /\ Answer(w, req[w].s)
    /\ UNCHANGED <<env, tables, token, guesses, used>>

Logout(b) ==
    /\ cookie[b].uid # 0 /\ Free
    /\ cookie' = [cookie EXCEPT ![b] = Anon]
    /\ UNCHANGED <<env, tables, req, tokens, guesses, used>>

\* SESSION_TIMEOUT_MIN pass without a request.
GoesIdle(b) ==
    /\ cookie[b].fresh /\ Spend("change")
    /\ cookie' = [cookie EXCEPT ![b].fresh = FALSE]
    /\ UNCHANGED <<env, tables, req, tokens, guesses>>

-----------------------------------------------------------------------------
Next ==
    \/ \E e \in Env : Restart(e)
    \/ \E i \in Ip : LockExpires(i)
    \/ \E b \in Browser : Logout(b) \/ GoesIdle(b)
    \/ \E b \in Browser, n \in SsoName : \/ \E g \in SUBSET Role, a \in BOOLEAN : SsoCallback(b, n, g, a)
                                         \/ \E i \in Ip : GoogleCallback(b, i, n)
    \/ \E w \in Worker :
          \/ \E b \in Browser, i \in Ip, n \in Name, c \in Cred \ {0} : LoginPost(w, b, i, n, c)
          \/ \E i \in Ip, n \in SsoName : GoogleRefused(w, i, n)
          \/ \E b \in Browser, i \in Ip, r \in BOOLEAN : Arrive(w, b, i, r)
          \/ Admit(w) \/ FailRead(w) \/ FailWrite(w) \/ LoginFails(w)
          \/ View(w) \/ Unlock(w) \/ CreateToken(w) \/ RevokeToken(w) \/ PopDelete(w)
          \/ \E t \in BOOLEAN : PopRead(w, t)
          \/ \E n \in LocalName, r \in Role : AddUser(w, n, r)
          \/ \E u \in UserId : DeleteUser(w, u) \/ (\E r \in Role : SetUserRole(w, u, r))
                                                \/ (\E d \in BOOLEAN : SetUserDisabled(w, u, d))

Spec == Init /\ [][Next]_vars

-----------------------------------------------------------------------------
\* The sessions in the browsers and in the requests under way.
Held == {cookie[b] : b \in Browser}
        \cup {req[w].s : w \in {v \in Worker : req[v].pc \in {"verified", "serving", "popping"}}}

\* Nobody is taken for somebody else: the row a cookie's or a request's
\* user_id points to belongs to the person who signed in, or is gone.  The
\* requests _revalidate_session lets pass unchecked (the table could not be
\* read), sessions kept in a browser while the account was deleted and other
\* people were added, and the callbacks that find a row by its name included.
ServedAsOneself == \A s \in Held : s.uid # 0 => users[s.uid].name \in {s.name, NoName}

\* is_locked and record_failure: the wrong passwords an address gets to
\* try.  With one worker it is MaxAttempts; two workers can check the lock
\* before either counts, a count read early can be written late, over a
\* larger one and over its lock, and a count can be lost to a row that came
\* or went meanwhile.  Failures whose statement the database refused outright
\* (LoginFails) come on top.
GuessesBounded ==
    \A i \in Ip : guesses[i] <= (MaxAttempts * (MaxAttempts + 1)) \div 2 + 2

\* auth.py, "so it can never be locked out": whoever holds the credentials
\* of .env can sign in as an admin, whatever admins and providers did, and
\* however often .env changed.  As long as .env names the user it named at
\* first: the others of them are not row 1, and no provider knows the name.
EnvAdminKept ==
    Boot.cred # 0 /\ env.cred # 0 /\ env.name = Boot.name /\ env.name \notin SsoName =>
        \E u \in UserId : /\ users[u].name = env.name /\ users[u].cred = env.cred
                          /\ users[u].role = "admin" /\ ~users[u].disabled

\* pop_once: a one-time secret is seen by no more requests than were at it
\* at once.
ShownOnceEach == shown <= Cardinality(Worker)

\* What the tables hold makes sense, and their promises to an administrator
\* are kept: .env always opens the door, a secret is shown once.
TablesSound == TypeOK /\ EnvAdminKept /\ ShownOnceEach
=============================================================================
