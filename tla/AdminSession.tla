---------------------------- MODULE AdminSession ----------------------------
(***************************************************************************)
(* Signing in to the admin console: the administrator's row and its        *)
(* password (apps/license-server/src/admin-auth), the tokens the server    *)
(* signs, and the browser tabs that hold them (apps/license-admin: lib/api,*)
(* store/auth.store, App, LoginPage, SettingsPage).                        *)
(*                                                                         *)
(* The server seeds the row when it starts.  A login or a change of        *)
(* password reads the row, awaits bcrypt, and then writes.  A tab keeps    *)
(* its token in memory and in the local storage, which all tabs share and  *)
(* read only when they load; a request carries the token its tab has when  *)
(* it is sent.  Passwords have the ten characters that form and DTO ask    *)
(* for, and the clocks of browser and server agree.                        *)
(***************************************************************************)
EXTENDS Naturals

CONSTANTS
    Tabs,       \* browser tabs of the console
    Requests,   \* requests that may be in flight
    Passwords,
    Seed,       \* the password whose hash is ADMIN_PASSWORD_HASH
    NoPassword,
    NoTab,
    MaxTokens,  \* bound: tokens ever signed
    MaxCrashes  \* bound: deaths of the server

ASSUME SessionAssumption ==
    /\ Seed \in Passwords /\ NoPassword \notin Passwords /\ NoTab \notin Tabs
    /\ MaxTokens \in Nat /\ MaxCrashes \in Nat

VARIABLES
    row,        \* passwordHash of the admin's row, or NoPassword
    server,     \* how far the server has come
    crashes,
    signed,     \* tokens signed so far
    live,       \* those that have not expired
    stored,     \* the token in local storage, 0 for none
    tab,        \* the token each tab holds, 0 on the login page
    req,        \* requests in flight
    left,       \* history: tokens an administrator has signed out of
    chosen      \* history: the administrator's password: the seed of the first
                \* start, and from the first change on the one last changed to

serverVars == <<row, server, crashes, signed, live, chosen>>
browserVars == <<stored, tab, left>>
vars == <<serverVars, browserVars, req>>

Hash == Passwords \cup {NoPassword}
Token == 0 .. MaxTokens

\* A request: the tab that sent it, the token it carries, the passwords typed,
\* the hash its handler has read, the answer; a login's has the token granted.
\* since is history: the administrator's passwords since it was sent.
NoRequest == [op |-> "none", at |-> "idle", from |-> NoTab, token |-> 0,
              typed |-> NoPassword, new |-> NoPassword, snap |-> NoPassword,
              answer |-> "none", grant |-> 0, since |-> {}]

Request == [op : {"none", "login", "change", "page"}, at : {"idle", "sent", "read", "answered"},
            from : Tabs \cup {NoTab}, token : Token, typed : Hash, new : Hash, snap : Hash,
            answer : {"none", "ok", "refused"}, grant : Token, since : SUBSET Hash]

SessionTypeOK ==
    /\ row \in Hash
    /\ server \in {"down", "counted", "up"}
    /\ crashes \in 0 .. MaxCrashes
    /\ signed \in Token
    /\ live \subseteq 1 .. signed
    /\ stored \in 0 .. signed
    /\ tab \in [Tabs -> 0 .. signed]
    /\ req \in [Requests -> Request]
    /\ \A r \in Requests : req[r].token <= signed /\ req[r].grant <= signed
    /\ left \subseteq 1 .. signed
    /\ row = NoPassword => signed = 0
    /\ chosen \in Hash

Init ==
    /\ row = NoPassword
    /\ server = "down"
    /\ crashes = 0
    /\ signed = 0
    /\ live = {}
    /\ stored = 0
    /\ tab = [t \in Tabs |-> 0]
    /\ req = [r \in Requests |-> NoRequest]
    /\ left = {}
    /\ chosen = NoPassword

-----------------------------------------------------------------------------
(* The server starts: onModuleInit, seedFirstAdmin                         *)

\* Whether the server goes on to seed.  Mutant: at every start.
SeedsAlways == TRUE
Seeds == row = NoPassword

\* count.  Nothing to do if there is an administrator, or none is configured.
CountAdmins ==
    /\ server = "down"
    /\ server' \in IF Seeds THEN {"counted", "up"} ELSE {"up"}
    /\ UNCHANGED <<row, chosen, crashes, signed, live, browserVars, req>>

\* What requests under way have seen of the administrator's password.
Seen(q, pw) == IF q.at \in {"sent", "read"} THEN [q EXCEPT !.since = @ \cup {pw}] ELSE q

\* create, and the server begins to listen.
CreateAdmin ==
    /\ server = "counted"
    /\ row' = Seed
    /\ chosen' = IF chosen = NoPassword THEN Seed ELSE chosen
    /\ server' = "up"
    /\ req' = [r \in Requests |-> Seen(req[r], chosen')]
    /\ UNCHANGED <<crashes, signed, live, browserVars>>

\* The server dies; docker starts it again.  The requests it was handling fail
\* in the browser without a status.
Crash ==
    /\ server # "down" /\ crashes < MaxCrashes
    /\ server' = "down"
    /\ crashes' = crashes + 1
    /\ req' = [r \in Requests |-> IF req[r].at = "read" THEN NoRequest ELSE req[r]]
    /\ UNCHANGED <<row, chosen, signed, live, browserVars>>

-----------------------------------------------------------------------------
(* The tabs                                                                *)

Put(r, q) == req' = [req EXCEPT ![r] = q]
Sent(op, t) == [NoRequest EXCEPT !.op = op, !.at = "sent", !.from = t,
                                 !.token = tab[t], !.since = {chosen}]

\* The login form; its button is disabled while a login is pending.
SubmitLogin(r, t, pw) ==
    /\ req[r].at = "idle" /\ tab[t] = 0
    /\ \A s \in Requests : ~(req[s].op = "login" /\ req[s].from = t)
    /\ Put(r, [Sent("login", t) EXCEPT !.typed = pw])
    /\ UNCHANGED <<serverVars, browserVars>>

\* The password form.
SubmitChange(r, t, pw, new) ==
    /\ req[r].at = "idle" /\ tab[t] # 0
    /\ Put(r, [Sent("change", t) EXCEPT !.typed = pw, !.new = new])
    /\ UNCHANGED <<serverVars, browserVars>>

\* Any other request of a page.
PageRequest(r, t) ==
    /\ req[r].at = "idle" /\ tab[t] # 0
    /\ Put(r, Sent("page", t))
    /\ UNCHANGED <<serverVars, browserVars>>

\* setAuth, clearAuth: memory and local storage.  Mutant: memory only.
SetAuth(t, token) ==
    /\ tab' = [tab EXCEPT ![t] = token]
    /\ stored' = token
ClearMemory(t) == tab' = [tab EXCEPT ![t] = 0] /\ UNCHANGED stored
ClearAuth(t) == SetAuth(t, 0)

SignOut(t) ==
    /\ tab[t] # 0
    /\ ClearAuth(t)
    /\ left' = left \cup {tab[t]}
    /\ UNCHANGED <<serverVars, req>>

\* The check App makes when it renders.
RenderExpired(t) ==
    /\ tab[t] # 0 /\ tab[t] \notin live
    /\ ClearAuth(t)
    /\ UNCHANGED <<serverVars, left, req>>

\* A tab is loaded, again or for the first time: it takes the token in local
\* storage, and forgets the requests it had in flight.  Mutant: the store
\* writes what the tab had in memory.
StoreRewritten(t) == IF tab[t] # 0 THEN tab[t] ELSE stored
StoreRead(t) == stored

Load(t) ==
    /\ tab' = [tab EXCEPT ![t] = StoreRead(t)]
    /\ stored' = StoreRead(t)
    /\ req' = [r \in Requests |-> IF req[r].from # t THEN req[r]
                                  ELSE IF req[r].at = "answered" THEN NoRequest
                                  ELSE [req[r] EXCEPT !.from = NoTab]]
    /\ UNCHANGED <<serverVars, left>>

\* The network loses a request or an answer; fetch throws, and nothing else.
Lose(r) ==
    /\ req[r].at \in {"sent", "answered"}
    /\ Put(r, NoRequest)
    /\ UNCHANGED <<serverVars, browserVars>>

\* request(): the answer is a 401 and its path is not /admin/login.
ClearsAuth(r) == req[r].op # "login" /\ req[r].answer = "refused"

\* The answer reaches the tab.  What a 401 clears is the token of now, not the
\* one its request was sent with.
Receive(r) ==
    LET q == req[r]  t == req[r].from IN
    /\ q.at = "answered"
    /\ CASE q.op = "login" /\ q.answer = "ok" -> SetAuth(t, q.grant)
         [] ClearsAuth(r) -> ClearAuth(t)
         [] OTHER -> UNCHANGED <<stored, tab>>
    /\ Put(r, NoRequest)
    /\ UNCHANGED <<serverVars, left>>

-----------------------------------------------------------------------------
(* Handlers                                                                *)

\* The answer sets out for the tab, unless it no longer waits.
Answered(q, answer, grant) ==
    IF q.from = NoTab THEN NoRequest
    ELSE [NoRequest EXCEPT !.op = q.op, !.at = "answered", !.from = q.from,
                           !.answer = answer, !.grant = grant]
Answer(r, answer) == Put(r, Answered(req[r], answer, 0))

\* AdminJwtGuard: the signature and the expiry, and no look at the row.
Guarded(r) == req[r].token \in live

Page(r) ==
    /\ server = "up" /\ req[r].at = "sent" /\ req[r].op = "page"
    /\ Answer(r, IF Guarded(r) THEN "ok" ELSE "refused")
    /\ UNCHANGED <<serverVars, browserVars>>

\* login and changePassword begin with findUnique; the guard comes first.
ReadRow(r) ==
    /\ server = "up" /\ req[r].at = "sent"
    /\ \/ req[r].op = "login"
       \/ req[r].op = "change" /\ Guarded(r)
    /\ Put(r, [req[r] EXCEPT !.at = "read", !.snap = row])
    /\ UNCHANGED <<serverVars, browserVars>>

RefuseChange(r) ==
    /\ server = "up" /\ req[r].at = "sent" /\ req[r].op = "change" /\ ~Guarded(r)
    /\ Answer(r, "refused")
    /\ UNCHANGED <<serverVars, browserVars>>

\* bcrypt.compare against the hash that was read; without a row, against one
\* nobody knows the password of.
Compares(r) == req[r].typed = req[r].snap

RefusePassword(r) ==
    /\ req[r].at = "read" /\ ~Compares(r)
    /\ Answer(r, "refused")
    /\ UNCHANGED <<serverVars, browserVars>>

\* login: the token.
Grant(r) ==
    /\ req[r].at = "read" /\ req[r].op = "login" /\ Compares(r)
    /\ signed < MaxTokens
    /\ signed' = signed + 1
    /\ live' = live \cup {signed + 1}
    /\ Put(r, Answered(req[r], "ok", signed + 1))
    /\ UNCHANGED <<row, chosen, server, crashes, browserVars>>

\* changePassword: the update, whatever the row has become since it was read.
WriteRow(r) ==
    LET q == req[r] IN
        /\ q.at = "read" /\ q.op = "change" /\ Compares(r)
        /\ row' = q.new /\ chosen' = q.new
        /\ req' = [s \in Requests |-> IF s = r THEN Answered(q, "ok", 0)
                                      ELSE Seen(req[s], q.new)]
        /\ UNCHANGED <<server, crashes, signed, live, browserVars>>

\* Eight hours are over.
Expire(k) ==
    /\ k \in live
    /\ live' = live \ {k}
    /\ UNCHANGED <<row, chosen, server, crashes, signed, browserVars, req>>

-----------------------------------------------------------------------------
Starts == CountAdmins \/ CreateAdmin
Handles(r) ==
    \/ Page(r) \/ ReadRow(r) \/ RefuseChange(r)
    \/ RefusePassword(r) \/ Grant(r) \/ WriteRow(r)

Next ==
    \/ Starts \/ Crash
    \/ \E r \in Requests, t \in Tabs :
         \/ \E pw \in Passwords : SubmitLogin(r, t, pw)
         \/ \E pw, new \in Passwords : SubmitChange(r, t, pw, new)
         \/ PageRequest(r, t)
    \/ \E t \in Tabs : SignOut(t) \/ RenderExpired(t) \/ Load(t)
    \/ \E r \in Requests : Handles(r) \/ Receive(r) \/ Lose(r)
    \/ \E k \in live : Expire(k)

Spec == Init /\ [][Next]_vars

-----------------------------------------------------------------------------
(* Properties                                                              *)

\* A password is taken, for a session or for a change of it, only if it was the
\* administrator's own at some time since it was sent: the seed until the first
\* change of password, and then the last one changed to.  The old one is good for
\* the requests that were under way during the change and for no other, and no
\* restart makes that of the environment good again.
PasswordWasCurrent ==
    \A r \in Requests : req[r].at = "read" /\ Compares(r) => req[r].typed \in req[r].since

\* When every tab is on the login page there is no token in the local storage
\* for the next load to find, in whatever order tabs signed in and out, expired
\* and were loaded.
NothingLeftBehind == (\A t \in Tabs : tab[t] = 0) => stored = 0

\* A session somebody has signed out of does not come back into the local
\* storage, though another tab may still hold its token.
SignedOutStaysOut == stored \notin left
=============================================================================
