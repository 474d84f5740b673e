------------------------ MODULE AdminSession_proofs ------------------------
(***************************************************************************)
(* Proofs about AdminSession for any sets of tabs, requests and passwords  *)
(* and any bounds: its types and its three safety properties, from one      *)
(* inductive invariant.                                                    *)
(***************************************************************************)
EXTENDS AdminSession, TLAPS

\* Tokens that have reached a tab.
Out == left \cup {tab[t] : t \in Tabs}

\* A request, when the row is w, n tokens have been signed and out have reached a
\* tab: what its handler has read was the administrator's password since it was
\* sent, a token that has been granted and not delivered is nowhere else, and an
\* answer has a tab to go to.
Good(q, w, n, out) ==
    /\ q \in Request /\ q.token <= n /\ q.grant <= n
    /\ q.at \in {"sent", "read"} => /\ w \in q.since
                                    /\ q.op \in {"login", "change"} => q.typed \in Passwords
                                    /\ q.op = "change" => q.new \in Passwords
    /\ q.at = "read" => /\ q.snap \in q.since /\ q.op \in {"login", "change"}
                        /\ w = NoPassword => q.snap = NoPassword
    /\ q.grant # 0 => q.grant \notin out
    /\ q.at = "answered" => q.from \in Tabs

Sessions ==
    /\ row \in Hash
    /\ server \in {"down", "counted", "up"}
    /\ crashes \in 0 .. MaxCrashes
    /\ signed \in Token
    /\ live \subseteq 1 .. signed
    /\ stored \in 0 .. signed
    /\ tab \in [Tabs -> 0 .. signed]
    /\ left \subseteq 1 .. signed
    /\ row = NoPassword => signed = 0
    /\ chosen = row
    /\ server = "counted" => row = NoPassword

AllGood ==
    /\ req \in [Requests -> Request]
    /\ \A r \in Requests : Good(req[r], row, signed, Out)

\* No token is granted twice.
Unique == \A r, s \in Requests : r # s /\ req[r].grant = req[s].grant => req[r].grant = 0

\* What is in local storage is in some tab, and nobody has signed out of it.
Kept == /\ stored # 0 => \E t \in Tabs : tab[t] = stored
        /\ stored \notin left

SessionInv == Sessions /\ AllGood /\ Unique /\ Kept

-----------------------------------------------------------------------------
(* Requests                                                                *)

\* The empty request relies on nothing.
LEMMA NoRequestIsGood ==
    ASSUME NEW w, NEW n \in Nat, NEW out
    PROVE  Good(NoRequest, w, n, out) /\ NoRequest \in Request /\ NoRequest.grant = 0
<1>1. NoRequest \in Request
  BY SessionAssumption DEF NoRequest, Request, Hash, Token
<1> QED BY <1>1 DEF NoRequest, Good

\* A request that has been sent, whatever has been typed.
LEMMA SentIs ==
    ASSUME Sessions, NEW op \in {"login", "change", "page"}, NEW t \in Tabs
    PROVE  /\ Sent(op, t) \in Request
           /\ Sent(op, t).op = op /\ Sent(op, t).at = "sent" /\ Sent(op, t).token = tab[t]
           /\ Sent(op, t).since = {row} /\ Sent(op, t).answer = "none" /\ Sent(op, t).grant = 0
<1>1. tab[t] \in Token /\ {chosen} \in SUBSET Hash /\ chosen = row
  <2>1. tab[t] \in 0 .. signed /\ signed \in 0 .. MaxTokens /\ row \in Hash /\ chosen = row
    BY DEF Sessions, Token
  <2> QED BY <2>1, SessionAssumption DEF Token
<1>2. NoRequest \in Request
  BY NoRequestIsGood
<1>3. Sent(op, t) \in Request
  BY <1>1, <1>2 DEF Sent, Request
<1> QED BY <1>1, <1>3 DEF Sent, NoRequest

\* A request that is being sent, with the token of its tab, is good.
LEMMA SentIsGood ==
    ASSUME Sessions, NEW t \in Tabs, NEW q \in Request,
           q.at = "sent", q.token = tab[t], q.since = {row}, q.answer = "none", q.grant = 0,
           q.op \in {"login", "change"} => q.typed \in Passwords,
           q.op = "change" => q.new \in Passwords
    PROVE  Good(q, row, signed, Out)
<1>1. tab[t] <= signed /\ 0 <= signed
  BY SessionAssumption DEF Sessions, Token
<1> QED BY <1>1 DEF Good

\* A request stays good when it sees the password change.
LEMMA SeenIsGood ==
    ASSUME NEW q \in Request, NEW w, NEW n, NEW out, Good(q, w, n, out),
           NEW pw \in Passwords
    PROVE  Good(Seen(q, pw), pw, n, out) /\ Seen(q, pw) \in Request /\ Seen(q, pw).grant = q.grant
<1>1. CASE q.at \in {"sent", "read"}
  <2> DEFINE s == [q EXCEPT !.since = @ \cup {pw}]
  <2>1. /\ s.op = q.op /\ s.at = q.at /\ s.token = q.token /\ s.grant = q.grant
        /\ s.answer = q.answer /\ s.typed = q.typed /\ s.new = q.new /\ s.snap = q.snap
        /\ s.since = q.since \cup {pw} /\ s.from = q.from
    BY DEF Request
  <2>2. s \in Request
    <3>1. q.since \cup {pw} \in SUBSET Hash
      BY DEF Request, Hash
    <3> QED BY <3>1 DEF Request
  <2>3. Seen(q, pw) = s
    BY <1>1 DEF Seen
  <2> HIDE DEF s
  <2> QED BY <2>1, <2>2, <2>3, SessionAssumption DEF Good
<1>2. CASE q.at \notin {"sent", "read"}
  BY <1>2 DEF Seen, Good
<1> QED BY <1>1, <1>2

\* A request stays good when the page that sent it is gone.
LEMMA ForgottenIsGood ==
    ASSUME NEW q \in Request, NEW w, NEW n, NEW out, Good(q, w, n, out),
           q.at # "answered"
    PROVE  LET s == [q EXCEPT !.from = NoTab] IN
           Good(s, w, n, out) /\ s \in Request /\ s.grant = q.grant
<1> DEFINE s == [q EXCEPT !.from = NoTab]
<1>1. /\ s.op = q.op /\ s.at = q.at /\ s.token = q.token /\ s.grant = q.grant
      /\ s.answer = q.answer /\ s.typed = q.typed /\ s.new = q.new /\ s.snap = q.snap
      /\ s.since = q.since
  BY DEF Request
<1>2. s \in Request
  BY DEF Request
<1> HIDE DEF s
<1>3. Good(s, w, n, out)
  BY <1>1, <1>2 DEF Good
<1> QED BY <1>1, <1>2, <1>3 DEF s

\* A request stays good when its handler reads the hash.
LEMMA ReadIsGood ==
    ASSUME NEW q \in Request, NEW w \in Hash, NEW n, NEW out, Good(q, w, n, out),
           q.at = "sent", q.op \in {"login", "change"}
    PROVE  LET s == [q EXCEPT !.at = "read", !.snap = w] IN
           Good(s, w, n, out) /\ s \in Request /\ s.grant = q.grant
<1> DEFINE s == [q EXCEPT !.at = "read", !.snap = w]
<1>1. /\ s.op = q.op /\ s.at = "read" /\ s.token = q.token /\ s.grant = q.grant
      /\ s.answer = q.answer /\ s.typed = q.typed /\ s.new = q.new /\ s.snap = w
      /\ s.since = q.since
  BY DEF Request
<1>2. s \in Request
  BY DEF Request
<1> HIDE DEF s
<1>3. Good(s, w, n, out)
  BY <1>1, <1>2 DEF Good
<1> QED BY <1>1, <1>2, <1>3 DEF s

\* An answer, with the token that is granted if one is.
LEMMA AnsweredIsGood ==
    ASSUME NEW q \in Request, NEW w, NEW n \in Nat, NEW out,
           NEW answer \in {"ok", "refused"}, NEW grant \in Token, grant <= n,
           grant # 0 => grant \notin out
    PROVE  LET s == Answered(q, answer, grant) IN
           Good(s, w, n, out) /\ s \in Request /\ s.grant \in {0, grant}
<1> DEFINE s == [NoRequest EXCEPT !.op = q.op, !.at = "answered", !.from = q.from,
                   !.answer = answer, !.grant = grant]
<1>1. /\ s.op = q.op /\ s.at = "answered" /\ s.token = 0 /\ s.grant = grant
      /\ s.answer = answer /\ s.from = q.from
  BY DEF NoRequest
<1>2. s \in Request
  <2>1. q.op \in {"none", "login", "change", "page"} /\ q.from \in Tabs \cup {NoTab}
    BY DEF Request
  <2>2. NoRequest \in Request
    BY NoRequestIsGood
  <2> QED BY <2>1, <2>2 DEF Request
<1>3. CASE q.from = NoTab
  BY <1>3, NoRequestIsGood DEF Answered
<1>4. CASE q.from # NoTab
  <2>1. Answered(q, answer, grant) = s /\ q.from \in Tabs
    BY <1>4 DEF Answered, Request
  <2> HIDE DEF s
  <2> QED BY <1>1, <1>2, <2>1 DEF Good
<1> QED BY <1>3, <1>4

\* What is said of a request stays true when more tokens are signed and what
\* reaches a tab is not the request's own grant.
LEMMA StaysGood ==
    ASSUME NEW q, NEW w, NEW n \in Nat, NEW m \in Nat, NEW out, NEW put,
           Good(q, w, n, out), n <= m,
           q.grant # 0 /\ q.grant \in put => q.grant \in out
    PROVE  Good(q, w, m, put)
<1>1. q.token \in Nat /\ q.grant \in Nat /\ q.token <= n /\ q.grant <= n
  BY SessionAssumption DEF Good, Request, Token
<1>2. q.token <= m /\ q.grant <= m
  BY <1>1
<1> QED BY <1>2 DEF Good

\* A step that changes one request and grants nothing.
LEMMA OneRequest ==
    ASSUME AllGood, Unique, NEW r \in Requests, NEW q \in Request, Put(r, q),
           Good(q, row', signed', Out'), q.grant \in {0, req[r].grant},
           \A s \in Requests \ {r} : Good(req[s], row', signed', Out')
    PROVE  AllGood' /\ Unique'
<1>1. req' = [req EXCEPT ![r] = q]
  BY DEF Put
<1>2. req' \in [Requests -> Request] /\ req'[r] = q /\ \A s \in Requests \ {r} : req'[s] = req[s]
  BY <1>1 DEF AllGood
<1>3. AllGood'
  BY <1>2 DEF AllGood
<1>4. Unique'
  BY <1>2 DEF Unique
<1> QED BY <1>3, <1>4

\* A step that does so and leaves everything else alone.
LEMMA OnlyOneRequest ==
    ASSUME SessionInv, NEW r \in Requests, NEW q \in Request, Put(r, q),
           Good(q, row, signed, Out), q.grant \in {0, req[r].grant},
           UNCHANGED <<serverVars, browserVars>>
    PROVE  SessionInv'
<1>1. /\ row' = row /\ chosen' = chosen /\ server' = server /\ crashes' = crashes /\ signed' = signed
      /\ live' = live /\ stored' = stored /\ tab' = tab /\ left' = left
  BY DEF serverVars, browserVars
<1>2. Out' = Out
  BY <1>1 DEF Out
<1>3. AllGood' /\ Unique'
  BY <1>1, <1>2, OneRequest DEF SessionInv, AllGood
<1> QED BY <1>1, <1>3 DEF SessionInv, Sessions, Kept

-----------------------------------------------------------------------------
(* The tabs                                                                *)

\* Submitting a form keeps the invariant.
LEMMA SubmitsKeep ==
    ASSUME SessionInv, NEW r \in Requests, NEW t \in Tabs,
           NEW pw \in Passwords, NEW new \in Passwords,
           SubmitLogin(r, t, pw) \/ SubmitChange(r, t, pw, new) \/ PageRequest(r, t)
    PROVE  SessionInv'
<1>1. Sessions /\ pw \in Hash /\ new \in Hash
  BY DEF SessionInv, Hash
<1>2. CASE SubmitLogin(r, t, pw)
  <2> DEFINE q == [Sent("login", t) EXCEPT !.typed = pw]
  <2>1. q \in Request
    BY <1>1, SentIs DEF Request
  <2>2. /\ q.op = "login" /\ q.at = "sent" /\ q.token = tab[t] /\ q.since = {row}
        /\ q.answer = "none" /\ q.grant = 0 /\ q.typed = pw
    BY <1>1, SentIs DEF Request
  <2>3. Put(r, q) /\ UNCHANGED <<serverVars, browserVars>>
    BY <1>2 DEF SubmitLogin
  <2> HIDE DEF q
  <2>4. Good(q, row, signed, Out)
    BY <1>1, <2>1, <2>2, SentIsGood
  <2> QED BY <2>1, <2>2, <2>3, <2>4, OnlyOneRequest
<1>3. CASE SubmitChange(r, t, pw, new)
  <2> DEFINE q == [Sent("change", t) EXCEPT !.typed = pw, !.new = new]
  <2>1. q \in Request
    <3>1. Sent("change", t) \in Request
      BY <1>1, SentIs
    <3> QED BY <1>1, <3>1 DEF Request
  <2>2. /\ q.op = "change" /\ q.at = "sent" /\ q.token = tab[t] /\ q.since = {row}
        /\ q.answer = "none" /\ q.grant = 0 /\ q.typed = pw /\ q.new = new
    BY <1>1, SentIs DEF Request
  <2>3. Put(r, q) /\ UNCHANGED <<serverVars, browserVars>>
    BY <1>3 DEF SubmitChange
  <2> HIDE DEF q
  <2>4. Good(q, row, signed, Out)
    BY <1>1, <2>1, <2>2, SentIsGood
  <2> QED BY <2>1, <2>2, <2>3, <2>4, OnlyOneRequest
<1>4. CASE PageRequest(r, t)
  <2> DEFINE q == Sent("page", t)
  <2>1. /\ q \in Request /\ q.op = "page" /\ q.at = "sent" /\ q.token = tab[t]
        /\ q.since = {row} /\ q.answer = "none" /\ q.grant = 0
    BY <1>1, SentIs
  <2>2. Put(r, q) /\ UNCHANGED <<serverVars, browserVars>>
    BY <1>4 DEF PageRequest
  <2> HIDE DEF q
  <2>3. Good(q, row, signed, Out)
    BY <1>1, <2>1, SentIsGood
  <2> QED BY <2>1, <2>2, <2>3, OnlyOneRequest
<1> QED BY <1>2, <1>3, <1>4

\* A tab is left without a token, or loaded with the stored one: no token that
\* is under way reaches a tab.
LEMMA ClearKeeps ==
    ASSUME SessionInv, NEW t \in Tabs, ClearAuth(t), left' \in {left, left \cup {tab[t]}},
           left' \subseteq 1 .. signed, UNCHANGED serverVars,
           req' \in [Requests -> Request],
           \A r \in Requests : req'[r] \in {req[r], NoRequest}
    PROVE  SessionInv'
<1>1. row' = row /\ chosen' = chosen /\ server' = server /\ crashes' = crashes
      /\ signed' = signed /\ live' = live
  BY DEF serverVars
<1>2. stored' = 0 /\ tab' = [tab EXCEPT ![t] = 0]
  BY DEF ClearAuth, SetAuth
<1>3. /\ tab' \in [Tabs -> 0 .. signed] /\ tab'[t] = 0
      /\ \A u \in Tabs \ {t} : tab'[u] = tab[u]
  BY <1>2, SessionAssumption DEF SessionInv, Sessions, Token
<1>4. Sessions'
  BY <1>1, <1>2, <1>3, SessionAssumption DEF SessionInv, Sessions, Token
<1>5. \A k : k \in Out' => k \in Out \/ k = 0
  BY <1>3 DEF Out
<1>6. signed \in Nat
  BY SessionAssumption DEF SessionInv, Sessions, Token
<1>7. ASSUME NEW r \in Requests
      PROVE  Good(req'[r], row, signed, Out') /\ req'[r].grant \in {0, req[r].grant}
  <2>1. Good(req[r], row, signed, Out)
    BY DEF SessionInv, AllGood
  <2>2. Good(req[r], row, signed, Out')
    BY <1>5, <1>6, <2>1, StaysGood
  <2> QED BY <1>6, <2>2, NoRequestIsGood
<1>8. AllGood'
  BY <1>1, <1>7 DEF AllGood
<1>9. Unique'
  BY <1>7 DEF SessionInv, Unique
<1>10. Kept'
  <2>1. 0 \notin left'
    BY DEF SessionInv, Sessions
  <2> QED BY <1>2, <2>1 DEF Kept
<1> QED BY <1>4, <1>8, <1>9, <1>10 DEF SessionInv

\* So does signing out.
LEMMA SignOutKeeps ==
    ASSUME SessionInv, NEW t \in Tabs, SignOut(t) \/ RenderExpired(t)
    PROVE  SessionInv'
<1>1. req' = req /\ ClearAuth(t) /\ tab[t] # 0 /\ UNCHANGED serverVars
      /\ left' \in {left, left \cup {tab[t]}}
  BY DEF SignOut, RenderExpired
<1>2. tab[t] \in 1 .. signed /\ left \subseteq 1 .. signed
  BY <1>1, SessionAssumption DEF SessionInv, Sessions, Token
<1>3. req' \in [Requests -> Request]
  BY <1>1 DEF SessionInv, AllGood
<1> QED BY <1>1, <1>2, <1>3, ClearKeeps

\* So does loading the page, which takes the stored token.
LEMMA LoadKeeps ==
    ASSUME SessionInv, NEW t \in Tabs, Load(t)
    PROVE  SessionInv'
<1>1. /\ row' = row /\ chosen' = chosen /\ server' = server /\ crashes' = crashes /\ signed' = signed
      /\ live' = live /\ left' = left /\ stored' = stored /\ tab' = [tab EXCEPT ![t] = stored]
  BY DEF Load, StoreRead, serverVars
<1>2. /\ tab' \in [Tabs -> 0 .. signed] /\ tab'[t] = stored
      /\ \A u \in Tabs \ {t} : tab'[u] = tab[u]
  BY <1>1 DEF SessionInv, Sessions
<1>3. Sessions'
  BY <1>1, <1>2 DEF SessionInv, Sessions
<1>4. \A k : k \in Out' => k \in Out \/ k = 0
  BY <1>1, <1>2 DEF Out, SessionInv, Kept
<1>5. signed \in Nat
  BY SessionAssumption DEF SessionInv, Sessions, Token
<1>6. ASSUME NEW r \in Requests
      PROVE  /\ Good(req'[r], row, signed, Out')
             /\ req'[r] \in Request /\ req'[r].grant \in {0, req[r].grant}
  <2> DEFINE q == [req[r] EXCEPT !.from = NoTab]
  <2>1. Good(req[r], row, signed, Out) /\ req[r] \in Request
    BY DEF SessionInv, AllGood
  <2>2. Good(req[r], row, signed, Out')
    BY <1>4, <1>5, <2>1, StaysGood
  <2>3. req[r].at # "answered" =>
          Good(q, row, signed, Out') /\ q \in Request /\ q.grant = req[r].grant
    BY <2>1, <2>2, ForgottenIsGood
  <2>4. req'[r] \in {req[r], NoRequest} \/ (req[r].at # "answered" /\ req'[r] = q)
    BY DEF Load
  <2> HIDE DEF q
  <2> QED BY <1>5, <2>1, <2>2, <2>3, <2>4, NoRequestIsGood
<1>7. AllGood'
  <2>1. req' \in [Requests -> Request]
    BY <1>6 DEF Load
  <2> QED BY <1>1, <1>6, <2>1 DEF AllGood
<1>8. Unique'
  BY <1>6 DEF SessionInv, Unique
<1>9. Kept'
  BY <1>1, <1>2 DEF SessionInv, Kept
<1> QED BY <1>3, <1>7, <1>8, <1>9 DEF SessionInv

\* The token of a login reaches one tab, and is no other request's grant.
LEMMA ReceiveKeeps ==
    ASSUME SessionInv, NEW r \in Requests, Receive(r)
    PROVE  SessionInv'
<1> DEFINE t == req[r].from
<1>0. t \in Tabs
  BY DEF SessionInv, AllGood, Good, Receive
<1>1. UNCHANGED <<serverVars, left>> /\ req' = [req EXCEPT ![r] = NoRequest]
  BY DEF Receive, Put
<1>2. signed \in Nat /\ NoRequest \in Request /\ NoRequest.grant = 0 /\ left \subseteq 1 .. signed
  BY NoRequestIsGood, SessionAssumption DEF SessionInv, Sessions, Token
<1>3. /\ req' \in [Requests -> Request] /\ req'[r] = NoRequest
      /\ \A s \in Requests \ {r} : req'[s] = req[s]
  BY <1>1, <1>2 DEF SessionInv, AllGood
<1>4. \A s \in Requests : req'[s] \in {req[s], NoRequest}
  BY <1>3
<1>5. CASE ClearAuth(t)
  BY <1>0, <1>1, <1>2, <1>3, <1>4, <1>5, ClearKeeps
<1>6. CASE UNCHANGED <<stored, tab>>
  <2>1. Put(r, NoRequest) /\ UNCHANGED <<serverVars, browserVars>>
    BY <1>1, <1>6 DEF Put, browserVars
  <2>2. Good(NoRequest, row, signed, Out)
    BY <1>2, NoRequestIsGood
  <2> QED BY <1>2, <2>1, <2>2, OnlyOneRequest
<1>7. CASE SetAuth(t, req[r].grant)
  <2> DEFINE g == req[r].grant
  <2>1. /\ row' = row /\ chosen' = chosen /\ server' = server /\ crashes' = crashes /\ signed' = signed
        /\ live' = live /\ left' = left
    BY <1>1 DEF serverVars
  <2>2. Good(req[r], row, signed, Out)
    BY DEF SessionInv, AllGood
  <2>3. g \in 0 .. signed /\ (g # 0 => g \notin Out)
    BY <1>2, <2>2, SessionAssumption DEF Good, Request, Token
  <2> HIDE DEF g
  <2>4. stored' = g /\ tab' = [tab EXCEPT ![t] = g]
    BY <1>7 DEF SetAuth, g
  <2>5. /\ tab' \in [Tabs -> 0 .. signed] /\ tab'[t] = g
        /\ \A u \in Tabs \ {t} : tab'[u] = tab[u]
    BY <1>0, <2>3, <2>4 DEF SessionInv, Sessions
  <2>6. Sessions'
    BY <2>1, <2>3, <2>4, <2>5 DEF SessionInv, Sessions
  <2>7. \A k : k \in Out' => k \in Out \/ k = g
    BY <1>0, <2>1, <2>5 DEF Out
  <2>8. ASSUME NEW s \in Requests \ {r} PROVE Good(req[s], row, signed, Out')
    <3>1. Good(req[s], row, signed, Out)
      BY DEF SessionInv, AllGood
    <3>2. req[s].grant = g => req[s].grant = 0
      BY DEF SessionInv, Unique, g
    <3> QED BY <1>2, <2>7, <3>1, <3>2, StaysGood
  <2>9. AllGood' /\ Unique'
    BY <1>1, <1>2, <2>1, <2>8, NoRequestIsGood, OneRequest DEF SessionInv, AllGood, Put
  <2>10. Kept'
    <3>1. g \notin left
      BY <1>2, <2>3 DEF Out
    <3> QED BY <1>0, <2>1, <2>4, <2>5, <3>1 DEF Kept
  <2> QED BY <2>6, <2>9, <2>10 DEF SessionInv
<1> QED BY <1>5, <1>6, <1>7 DEF Receive

\* So does a request or an answer that is lost.
LEMMA LoseKeeps ==
    ASSUME SessionInv, NEW r \in Requests, Lose(r)
    PROVE  SessionInv'
<1>1. signed \in Nat
  BY SessionAssumption DEF SessionInv, Sessions, Token
<1>2. Put(r, NoRequest) /\ UNCHANGED <<serverVars, browserVars>>
  BY DEF Lose
<1> QED BY <1>1, <1>2, NoRequestIsGood, OnlyOneRequest

-----------------------------------------------------------------------------
(* The server                                                              *)

\* So does the start of the server, which seeds at most once.
LEMMA StartKeeps ==
    ASSUME SessionInv, Starts
    PROVE  SessionInv'
<1>1. CASE CountAdmins
  <2>1. /\ row' = row /\ chosen' = chosen /\ crashes' = crashes /\ signed' = signed /\ live' = live
        /\ stored' = stored /\ tab' = tab /\ left' = left /\ req' = req
        /\ server' \in {"counted", "up"} /\ (server' = "counted" => row = NoPassword)
    BY <1>1 DEF CountAdmins, Seeds, browserVars
  <2> QED BY <2>1 DEF SessionInv, Sessions, AllGood, Unique, Kept, Out
<1>2. CASE CreateAdmin
  <2>0. chosen = NoPassword
    BY <1>2 DEF CreateAdmin, SessionInv, Sessions
  <2>1. /\ row' = Seed /\ chosen' = Seed /\ crashes' = crashes /\ signed' = signed /\ live' = live
        /\ stored' = stored /\ tab' = tab /\ left' = left /\ server' = "up"
        /\ req' = [r \in Requests |-> Seen(req[r], Seed)]
    BY <1>2, <2>0 DEF CreateAdmin, browserVars
  <2>2. Seed \in Passwords /\ Seed \in Hash /\ Seed # NoPassword
    BY SessionAssumption DEF Hash
  <2>3. Sessions'
    BY <2>1, <2>2 DEF SessionInv, Sessions
  <2>4. Out' = Out
    BY <2>1 DEF Out
  <2>5. ASSUME NEW r \in Requests
        PROVE  /\ Good(req'[r], Seed, signed, Out)
               /\ req'[r] \in Request /\ req'[r].grant = req[r].grant
    BY <2>1, <2>2, SeenIsGood DEF SessionInv, AllGood
  <2>6. AllGood'
    <3>1. req' \in [Requests -> Request]
      BY <2>1, <2>5
    <3> QED BY <2>1, <2>4, <2>5, <3>1 DEF AllGood
  <2>7. Unique'
    BY <2>5 DEF SessionInv, Unique
  <2> QED BY <2>1, <2>3, <2>6, <2>7 DEF SessionInv, Kept
<1> QED BY <1>1, <1>2 DEF Starts

\* So does its crash.
LEMMA CrashKeeps ==
    ASSUME SessionInv, Crash
    PROVE  SessionInv'
<1>1. /\ row' = row /\ chosen' = chosen /\ crashes' = crashes + 1 /\ signed' = signed /\ live' = live
      /\ stored' = stored /\ tab' = tab /\ left' = left /\ server' = "down"
      /\ crashes < MaxCrashes
      /\ req' = [r \in Requests |-> IF req[r].at = "read" THEN NoRequest ELSE req[r]]
  BY DEF Crash, browserVars
<1>2. Sessions'
  <2>1. crashes' \in 0 .. MaxCrashes
    BY <1>1, SessionAssumption DEF SessionInv, Sessions
  <2> QED BY <1>1, <2>1 DEF SessionInv, Sessions
<1>3. Out' = Out
  BY <1>1 DEF Out
<1>4. signed \in Nat
  BY SessionAssumption DEF SessionInv, Sessions, Token
<1>5. ASSUME NEW r \in Requests
      PROVE  /\ Good(req'[r], row, signed, Out)
             /\ req'[r] \in Request /\ req'[r].grant \in {0, req[r].grant}
  BY <1>1, <1>4, NoRequestIsGood DEF SessionInv, AllGood
<1>6. AllGood'
  <2>1. req' \in [Requests -> Request]
    BY <1>1, <1>5
  <2> QED BY <1>1, <1>3, <1>5, <2>1 DEF AllGood
<1>7. Unique'
  BY <1>5 DEF SessionInv, Unique
<1> QED BY <1>1, <1>2, <1>6, <1>7 DEF SessionInv, Kept

\* So does an answer that grants nothing.
LEMMA AnswersKeep ==
    ASSUME SessionInv, NEW r \in Requests,
           Page(r) \/ RefuseChange(r) \/ RefusePassword(r)
    PROVE  SessionInv'
<1>1. signed \in Nat /\ 0 \in Token /\ 0 <= signed
  BY SessionAssumption DEF SessionInv, Sessions, Token
<1>2. req[r] \in Request /\ Good(req[r], row, signed, Out)
  BY DEF SessionInv, AllGood
<1>3. PICK answer \in {"ok", "refused"} :
        /\ Put(r, Answered(req[r], answer, 0)) /\ UNCHANGED <<serverVars, browserVars>>
  <2>1. CASE Page(r)
    BY <2>1 DEF Page, Answer
  <2>2. CASE RefuseChange(r)
    BY <2>2 DEF RefuseChange, Answer
  <2>3. CASE RefusePassword(r)
    BY <2>3 DEF RefusePassword, Answer
  <2> QED BY <2>1, <2>2, <2>3
<1> DEFINE q == Answered(req[r], answer, 0)
<1>4. Good(q, row, signed, Out) /\ q \in Request /\ q.grant = 0
  <2>1. req[r] \in Request /\ (0 # 0 => 0 \notin Out)
    BY <1>2
  <2>2. Good(q, row, signed, Out) /\ q \in Request /\ q.grant \in {0, 0}
    BY <1>1, <2>1, AnsweredIsGood
  <2> QED BY <2>2
<1> HIDE DEF q
<1>5. Put(r, q)
  BY <1>3 DEF q
<1> QED BY <1>3, <1>4, <1>5, OnlyOneRequest

\* So does the read of the hash.
LEMMA ReadKeeps ==
    ASSUME SessionInv, NEW r \in Requests, ReadRow(r)
    PROVE  SessionInv'
<1> DEFINE q == [req[r] EXCEPT !.at = "read", !.snap = row]
<1>1. req[r] \in Request /\ Good(req[r], row, signed, Out) /\ row \in Hash
  BY DEF SessionInv, AllGood, Sessions
<1>2. Good(q, row, signed, Out) /\ q \in Request /\ q.grant = req[r].grant
  BY <1>1, ReadIsGood DEF ReadRow
<1>3. Put(r, q) /\ UNCHANGED <<serverVars, browserVars>>
  BY DEF ReadRow
<1> HIDE DEF q
<1> QED BY <1>2, <1>3, OnlyOneRequest

\* The token of a login is one nobody has.
LEMMA GrantKeeps ==
    ASSUME SessionInv, NEW r \in Requests, Grant(r)
    PROVE  SessionInv'
<1> DEFINE g == signed + 1
<1> DEFINE q == Answered(req[r], "ok", g)
<1>1. /\ row' = row /\ chosen' = chosen /\ server' = server /\ crashes' = crashes /\ signed' = g
      /\ live' = live \cup {g} /\ stored' = stored /\ tab' = tab /\ left' = left
      /\ req' = [req EXCEPT ![r] = q]
  BY DEF Grant, Put, browserVars
<1>2. signed \in Nat /\ g \in Token /\ g \in Nat /\ signed < g /\ g # 0 /\ 0 <= signed
  BY SessionAssumption DEF Grant, SessionInv, Sessions, Token
<1>3. req[r] \in Request /\ Good(req[r], row, signed, Out)
  BY DEF SessionInv, AllGood
<1>4. row # NoPassword
  BY <1>3, SessionAssumption DEF Grant, Compares, Good
<1>5. Out' = Out /\ \A k \in Out : k \in 0 .. signed
  BY <1>1 DEF Out, SessionInv, Sessions
<1>6. Good(q, row, g, Out) /\ q \in Request /\ q.grant \in {0, g}
  <2>1. g \notin Out /\ g <= g
    BY <1>2, <1>5
  <2> HIDE DEF g
  <2> QED BY <1>2, <1>3, <2>1, AnsweredIsGood
<1> HIDE DEF q, g
<1>7. ASSUME NEW s \in Requests \ {r}
      PROVE  Good(req[s], row, g, Out) /\ req[s].grant # g
  <2>1. Good(req[s], row, signed, Out)
    BY DEF SessionInv, AllGood
  <2>2. req[s].grant \in Nat /\ req[s].grant <= signed
    BY <2>1, SessionAssumption DEF Good, Request, Token
  <2> QED BY <1>2, <2>1, <2>2, StaysGood
<1>8. /\ req' \in [Requests -> Request] /\ req'[r] = q
      /\ \A s \in Requests \ {r} : req'[s] = req[s]
  BY <1>1, <1>6 DEF SessionInv, AllGood
<1>9. AllGood'
  BY <1>1, <1>5, <1>6, <1>7, <1>8 DEF AllGood
<1>10. Unique'
  BY <1>6, <1>7, <1>8 DEF SessionInv, Unique
<1>11. Sessions'
  <2>1. \A k : k \in 1 .. signed => k \in 1 .. g
    BY <1>2
  <2>2. \A k : k \in 0 .. signed => k \in 0 .. g
    BY <1>2
  <2>3. g \in 1 .. g
    BY <1>2
  <2>4. tab \in [Tabs -> 0 .. g] /\ stored \in 0 .. g /\ left \subseteq 1 .. g
        /\ live' \subseteq 1 .. g
    BY <1>1, <2>1, <2>2, <2>3 DEF SessionInv, Sessions
  <2> QED BY <1>1, <1>2, <1>4, <2>4 DEF SessionInv, Sessions
<1>12. Kept'
  BY <1>1 DEF SessionInv, Kept
<1> QED BY <1>9, <1>10, <1>11, <1>12 DEF SessionInv

\* So does the write of a new password.
LEMMA WriteKeeps ==
    ASSUME SessionInv, NEW r \in Requests, WriteRow(r)
    PROVE  SessionInv'
<1> DEFINE new == req[r].new
<1> DEFINE q == Answered(req[r], "ok", 0)
<1>1. /\ row' = new /\ chosen' = new /\ server' = server /\ crashes' = crashes /\ signed' = signed
      /\ live' = live /\ stored' = stored /\ tab' = tab /\ left' = left
      /\ req' = [s \in Requests |-> IF s = r THEN q ELSE Seen(req[s], new)]
  BY DEF WriteRow, browserVars
<1>2. signed \in Nat /\ 0 \in Token /\ 0 <= signed
  BY SessionAssumption DEF SessionInv, Sessions, Token
<1>3. req[r] \in Request /\ Good(req[r], row, signed, Out)
  BY DEF SessionInv, AllGood
<1>4. new \in Passwords /\ new \in Hash /\ new # NoPassword
  BY <1>3, SessionAssumption DEF WriteRow, Good, Hash
<1>5. Good(q, new, signed, Out) /\ q \in Request /\ q.grant = 0
  <2> HIDE DEF new
  <2> QED BY <1>2, <1>3, AnsweredIsGood
<1> HIDE DEF q, new
<1>6. Out' = Out
  BY <1>1 DEF Out
<1>7. ASSUME NEW s \in Requests
      PROVE  /\ Good(req'[s], new, signed, Out)
             /\ req'[s] \in Request /\ req'[s].grant \in {0, req[s].grant}
  <2>1. CASE s = r
    BY <1>1, <1>5, <2>1
  <2>2. CASE s # r
    <3>1. req[s] \in Request /\ Good(req[s], row, signed, Out)
      BY DEF SessionInv, AllGood
    <3> QED BY <1>1, <1>4, <2>2, <3>1, SeenIsGood
  <2> QED BY <2>1, <2>2
<1>8. AllGood'
  <2>1. req' \in [Requests -> Request]
    BY <1>1, <1>7
  <2> QED BY <1>1, <1>6, <1>7, <2>1 DEF AllGood
<1>9. Unique'
  BY <1>7 DEF SessionInv, Unique
<1>10. Sessions' /\ Kept'
  <2>1. row # NoPassword
    BY <1>3, SessionAssumption DEF WriteRow, Compares, Good
  <2> QED BY <1>1, <1>4, <2>1 DEF SessionInv, Sessions, Kept
<1> QED BY <1>8, <1>9, <1>10 DEF SessionInv

\* So does the expiry of a token.
LEMMA ExpireKeeps ==
    ASSUME SessionInv, NEW k, Expire(k)
    PROVE  SessionInv'
<1>1. /\ row' = row /\ chosen' = chosen /\ server' = server /\ crashes' = crashes /\ signed' = signed
      /\ live' = live \ {k} /\ stored' = stored /\ tab' = tab /\ left' = left /\ req' = req
  BY DEF Expire, browserVars
<1>2. Out' = Out /\ signed \in Nat
  BY <1>1, SessionAssumption DEF Out, SessionInv, Sessions, Token
<1>3. ASSUME NEW r \in Requests PROVE Good(req[r], row, signed, Out)
  BY <1>1, <1>2, StaysGood DEF SessionInv, AllGood
<1>4. AllGood'
  BY <1>1, <1>2, <1>3 DEF SessionInv, AllGood
<1> QED BY <1>1, <1>4 DEF SessionInv, Sessions, Unique, Kept

\* The invariant holds in every reachable state.
THEOREM SessionInvHolds == Spec => []SessionInv
<1>1. Init => SessionInv
  <2> SUFFICES ASSUME Init PROVE SessionInv
    OBVIOUS
  <2>1. signed = 0 /\ stored = 0 /\ left = {} /\ \A r \in Requests : req[r] = NoRequest
    BY DEF Init
  <2>2. Sessions
    BY SessionAssumption DEF Init, Sessions, Hash, Token
  <2>3. AllGood
    BY <2>1, NoRequestIsGood DEF Init, AllGood
  <2>4. Unique /\ Kept
    BY <2>1, NoRequestIsGood DEF Unique, Kept
  <2> QED BY <2>2, <2>3, <2>4 DEF SessionInv
<1>2. SessionInv /\ [Next]_vars => SessionInv'
  <2> SUFFICES ASSUME SessionInv, [Next]_vars PROVE SessionInv'
    OBVIOUS
  <2>1. CASE Starts \/ Crash
    BY <2>1, StartKeeps, CrashKeeps
  <2>2. ASSUME NEW r \in Requests, NEW t \in Tabs, NEW pw \in Passwords, NEW new \in Passwords,
               SubmitLogin(r, t, pw) \/ SubmitChange(r, t, pw, new)
        PROVE  SessionInv'
    BY <2>2, SubmitsKeep
  <2>3. ASSUME NEW r \in Requests, NEW t \in Tabs, PageRequest(r, t)
        PROVE  SessionInv'
    BY <2>3, SubmitsKeep, SessionAssumption
  <2>4. ASSUME NEW t \in Tabs, SignOut(t) \/ RenderExpired(t) \/ Load(t)
        PROVE  SessionInv'
    BY <2>4, SignOutKeeps, LoadKeeps
  <2>5. ASSUME NEW r \in Requests, Handles(r)
        PROVE  SessionInv'
    BY <2>5, AnswersKeep, ReadKeeps, GrantKeeps, WriteKeeps DEF Handles
  <2>6. ASSUME NEW r \in Requests, Receive(r) \/ Lose(r)
        PROVE  SessionInv'
    BY <2>6, ReceiveKeeps, LoseKeeps
  <2>7. ASSUME NEW k \in live, Expire(k)
        PROVE  SessionInv'
    BY <2>7, ExpireKeeps
  <2>8. CASE UNCHANGED vars
    BY <2>8 DEF vars, serverVars, browserVars, SessionInv, Sessions, AllGood, Unique, Kept, Out
  <2> QED BY <2>1, <2>2, <2>3, <2>4, <2>5, <2>6, <2>7, <2>8 DEF Next
<1> QED BY <1>1, <1>2, PTL DEF Spec

-----------------------------------------------------------------------------
(* What follows                                                            *)

\* The shapes of rows, tabs, requests and tokens; and a token is signed only
\* once there is an administrator.
THEOREM SessionTypes == Spec => []SessionTypeOK
<1>1. SessionInv => SessionTypeOK
  BY DEF SessionInv, Sessions, AllGood, Good, SessionTypeOK
<1> QED BY <1>1, SessionInvHolds, PTL

\* The password a handler accepts has been the row's since the request was sent,
\* whatever changes of password and restarts came between.
THEOREM TakenPasswords == Spec => []PasswordWasCurrent
<1>1. SessionInv => PasswordWasCurrent
  BY DEF SessionInv, AllGood, Good, PasswordWasCurrent, Compares
<1> QED BY <1>1, SessionInvHolds, PTL

\* The token in local storage is one some tab has.
THEOREM Leftovers == Spec => []NothingLeftBehind
<1>1. SessionInv => NothingLeftBehind
  BY DEF SessionInv, Kept, NothingLeftBehind
<1> QED BY <1>1, SessionInvHolds, PTL

\* A token somebody has signed out of stays out of the local storage, because
\* no login is answered with it again and no load writes it back.
THEOREM SignedOut == Spec => []SignedOutStaysOut
<1>1. SessionInv => SignedOutStaysOut
  BY DEF SessionInv, Kept, SignedOutStaysOut
<1> QED BY <1>1, SessionInvHolds, PTL
=============================================================================
