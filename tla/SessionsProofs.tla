--------------------------- MODULE SessionsProofs ---------------------------
(***************************************************************************)
(* Sessions for every number of users, tabs and requests in flight, every  *)
(* time to live and every bound on the clock and on the signing keys.      *)
(***************************************************************************)
EXTENDS Sessions, TLAPS

-----------------------------------------------------------------------------
(* Requests *)

\* What a request has at each stage: a login names a user until it is answered and
\* a token after that; whoever was authenticated sent a token, and what was read of
\* the row goes back with the answer to /auth/me.
Shaped(r) ==
    /\ r.kind = "login" /\ r.answer = "none" => r.name # None
    /\ r.kind = "login" /\ r.answer = "ok" => r.issued # None
    /\ r.kind # "login" /\ r.seen # None => r.token # None
    /\ r.kind = "me" /\ r.answer = "ok" => r.seen # None

Typed == TypeOK /\ \A s \in InFlight : Shaped(reqs[s])

\* The lifetime of a token is a number of hours.
LEMMA TtlNat == ttl \in Nat
  BY SessionsAssumption DEF SessionsAssumption, ttl

\* What the cleaning up of an effect leaves of its request.
LEMMA UnlivedFields ==
    ASSUME NEW r \in Request
    PROVE  LET e == [r EXCEPT !.live = FALSE]
           IN  /\ e \in Request /\ ~e.live /\ e.fit = r.fit /\ e.unfit = r.unfit
               /\ e.tab = r.tab /\ e.kind = r.kind /\ e.token = r.token
               /\ e.name = r.name /\ e.right = r.right
               /\ e.seen = r.seen /\ e.answer = r.answer /\ e.issued = r.issued
  BY DEF Request

\* What the reading of a row leaves of the request.
LEMMA SeenFields ==
    ASSUME NEW r \in Request, NEW x \in BOOLEAN
    PROVE  LET e == [r EXCEPT !.seen = x]
           IN  /\ e \in Request /\ e.seen = x /\ e.fit = r.fit /\ e.unfit = r.unfit
               /\ e.tab = r.tab /\ e.kind = r.kind /\ e.token = r.token
               /\ e.name = r.name /\ e.right = r.right /\ e.live = r.live
               /\ e.answer = r.answer /\ e.issued = r.issued
  BY DEF Request

\* What the interceptor sends, and that it is judged at once.
LEMMA SentRequest ==
    ASSUME TypeOK, NEW t \in Tabs, NEW kind \in Kinds, NEW name \in Users \union {None},
           NEW right \in BOOLEAN, kind = "login" => name # None
    PROVE  LET r == Sent(t, kind, name, right)
           IN  /\ r \in Request /\ Shaped(r)
               /\ r.tab = t /\ r.kind = kind /\ r.token = stored
               /\ r.live /\ r.seen = None /\ r.answer = "none" /\ r.issued = None
               /\ Deserves(r, users, key, now) => r.fit
               /\ ~Deserves(r, users, key, now) => r.unfit
<1> DEFINE r == [tab |-> t, kind |-> kind, token |-> stored, name |-> name, right |-> right,
                 live |-> TRUE, seen |-> None, answer |-> "none", issued |-> None,
                 fit |-> FALSE, unfit |-> FALSE]
           d == Deserves(r, users, key, now)
           n == ~d
           e == [r EXCEPT !.fit = d, !.unfit = n]
<1>1. Sent(t, kind, name, right) = e
  BY DEF Sent
<1>2. /\ r \in Request
      /\ r.tab = t /\ r.kind = kind /\ r.token = stored /\ r.name = name
      /\ r.live /\ r.seen = None /\ r.answer = "none" /\ r.issued = None
  BY DEF Request, Answers, TypeOK
<1> HIDE DEF r
<1>3. d \in BOOLEAN /\ n \in BOOLEAN /\ (n <=> ~d)
  BY DEF Deserves
<1>4. /\ e \in Request /\ (e.fit <=> d) /\ (e.unfit <=> n)
      /\ e.tab = r.tab /\ e.kind = r.kind /\ e.token = r.token
      /\ e.name = r.name /\ e.right = r.right /\ e.live = r.live
      /\ e.seen = r.seen /\ e.answer = r.answer /\ e.issued = r.issued
  <2> HIDE DEF d, n
  <2> QED BY <1>2, <1>3 DEF Request
<1> HIDE DEF e, n
<1>5. Deserves(e, users, key, now) <=> d
  BY <1>4 DEF Deserves
<1> HIDE DEF d
<1>6. Shaped(e)
  BY <1>2, <1>4 DEF Shaped
<1> QED BY <1>1, <1>2, <1>3, <1>4, <1>5, <1>6

\* What an answer leaves of its request.
LEMMA AnsweredRequest ==
    ASSUME TypeOK, NEW r \in Request, Shaped(r), r.answer = "none", NEW answer \in Answers \ {"none"},
           r.kind = "me" /\ answer = "ok" => r.seen # None
    PROVE  LET e == Answered(r, answer)
           IN  /\ e \in Request /\ Shaped(e)
               /\ e.tab = r.tab /\ e.kind = r.kind /\ e.token = r.token
               /\ e.live = r.live /\ e.answer = answer
               /\ e.seen # None => e.kind = "me" /\ answer = "ok" /\ e.seen = r.seen
               /\ e.issued # None => e.issued.key = key /\ e.kind = "login"
               /\ answer = "ok" /\ r.fit => e.fit
               /\ answer \in {"401", "403"} /\ r.unfit => e.unfit
<1> DEFINE new == [sub |-> r.name, key |-> key, exp |-> now + ttl]
           issued == IF answer = "ok" /\ r.kind = "login" THEN new ELSE None
           seen == IF answer = "ok" /\ r.kind = "me" THEN r.seen ELSE None
           fit == r.fit /\ answer = "ok"
           unfit == r.unfit /\ answer \in {"401", "403"}
           e == [r EXCEPT !.answer = answer, !.name = None, !.right = FALSE,
                          !.issued = issued, !.seen = seen, !.fit = fit, !.unfit = unfit]
<1>1. Answered(r, answer) = e
  BY DEF Answered
<1>2. answer = "ok" /\ r.kind = "login" => new \in Token
  <2>1. now + ttl \in 0..(MaxTime + ttl)
    BY TtlNat, SessionsAssumption DEF SessionsAssumption, TypeOK
  <2> QED BY <2>1 DEF Shaped, Request, Token, TypeOK
<1>3. /\ issued \in Token \union {None}
      /\ answer = "ok" /\ r.kind = "login" => issued # None
      /\ issued # None => issued.key = key /\ r.kind = "login"
  BY <1>2, NoneIsNoRecord
<1>4. /\ seen \in BOOLEAN \union {None}
      /\ seen # None => r.kind = "me" /\ answer = "ok" /\ seen = r.seen
      /\ r.kind = "me" /\ answer = "ok" => seen # None
  BY DEF Request
<1>5. /\ fit \in BOOLEAN /\ unfit \in BOOLEAN
      /\ answer = "ok" /\ r.fit => fit
      /\ answer \in {"401", "403"} /\ r.unfit => unfit
  OBVIOUS
<1> HIDE DEF issued, seen, fit, unfit
<1>6. /\ e \in Request
      /\ e.tab = r.tab /\ e.kind = r.kind /\ e.token = r.token
      /\ e.live = r.live /\ e.answer = answer /\ e.seen = seen /\ e.issued = issued
      /\ (fit => e.fit) /\ (unfit => e.unfit)
  <2>1. e \in Request
    BY <1>3, <1>4, <1>5 DEF Request
  <2>2. /\ e.tab = r.tab /\ e.kind = r.kind /\ e.token = r.token /\ e.live = r.live
        /\ e.answer = answer /\ e.seen = seen /\ e.issued = issued
    BY DEF Request
  <2>3. (fit => e.fit) /\ (unfit => e.unfit)
    BY <1>5 DEF Request
  <2> QED BY <2>1, <2>2, <2>3
<1> HIDE DEF e
<1>7. Shaped(e)
  BY <1>3, <1>4, <1>6 DEF Shaped
<1> QED BY <1>1, <1>3, <1>4, <1>5, <1>6, <1>7

\* A request that only goes on being watched, or whose effect is cleaned up.
Same(e, r) ==
    /\ e \in Request
    /\ e.tab = r.tab /\ e.kind = r.kind /\ e.token = r.token /\ e.name = r.name
    /\ e.right = r.right /\ e.seen = r.seen /\ e.answer = r.answer
    /\ e.issued = r.issued
    /\ (r.fit => e.fit) /\ (r.unfit => e.unfit) /\ (e.live => r.live)

\* A request that is the same has the same shape.
LEMMA SameShape == ASSUME NEW e, NEW r, Same(e, r), Shaped(r) PROVE Shaped(e)
  BY DEF Same, Shaped

\* Requests on their way are judged again after every change of the server.
LEMMA WatchedRequest ==
    ASSUME TypeOK, NEW us, NEW k, NEW n, NEW s \in Slots
    PROVE  LET r == reqs[s]
               e == Watched(us, k, n)[s]
           IN  /\ r = None => e = None
               /\ r # None => Same(e, r)
               /\ r # None /\ r.answer = "none" =>
                    /\ Deserves(e, us, k, n) => e.fit
                    /\ ~Deserves(e, us, k, n) => e.unfit
<1> DEFINE r == reqs[s]
           w == Watched(us, k, n)[s]
<1>1. CASE r = None \/ r.answer # "none"
  <2>1. w = r
    BY <1>1 DEF Watched
  <2>2. r # None => Same(r, r)
    BY DEF Same, TypeOK
  <2> QED BY <1>1, <2>1, <2>2
<1>2. CASE r # None /\ r.answer = "none"
  <2> DEFINE d == Deserves(r, us, k, n)
             x == r.fit \/ d
             y == r.unfit \/ ~d
             e == [r EXCEPT !.fit = x, !.unfit = y]
  <2>1. w = e
    BY <1>2 DEF Watched
  <2>2. /\ x \in BOOLEAN /\ (r.fit => x) /\ (d => x)
        /\ y \in BOOLEAN /\ (r.unfit => y) /\ (~d => y)
    OBVIOUS
  <2>3. r \in Request
    BY <1>2 DEF TypeOK
  <2> HIDE DEF r, d, x, y
  <2>4. /\ e \in Request /\ (x => e.fit) /\ (y => e.unfit)
        /\ e.tab = r.tab /\ e.kind = r.kind /\ e.token = r.token
        /\ e.name = r.name /\ e.right = r.right /\ e.live = r.live
        /\ e.seen = r.seen /\ e.answer = r.answer /\ e.issued = r.issued
    BY <2>2, <2>3 DEF Request
  <2> HIDE DEF e
  <2>5. Same(e, r)
    BY <2>2, <2>4 DEF Same
  <2>6. Deserves(e, us, k, n) <=> d
    BY <2>4 DEF Deserves, d
  <2> QED BY <1>2, <2>1, <2>2, <2>4, <2>5, <2>6 DEF r
<1> QED BY <1>1, <1>2

\* The requests after the effect of a tab is cleaned up.
CleanUp(t) ==
    [s \in Slots |-> IF s \in InFlight /\ reqs[s].tab = t /\ reqs[s].kind = "me"
                       THEN [reqs[s] EXCEPT !.live = FALSE] ELSE reqs[s]]

\* The cleaning up leaves every request the same, but for the effect it stands for.
LEMMA CleanedUp ==
    ASSUME TypeOK, NEW t \in Tabs, NEW s \in Slots
    PROVE  LET e == CleanUp(t)[s]
               r == reqs[s]
           IN  /\ e # None <=> r # None
               /\ r # None => /\ Same(e, r)
                              /\ r.tab = t /\ r.kind = "me" => ~e.live
<1>1. CASE reqs[s] = None
  BY <1>1 DEF InFlight, CleanUp
<1>2. CASE reqs[s] # None
  <2>1. reqs[s] \in Request
    BY <1>2 DEF TypeOK
  <2> DEFINE e == [reqs[s] EXCEPT !.live = FALSE]
  <2>2. Same(e, reqs[s]) /\ ~e.live
    BY <2>1, UnlivedFields DEF Same
  <2>3. Same(reqs[s], reqs[s])
    BY <2>1 DEF Same
  <2>4. /\ CleanUp(t)[s] = e \/ CleanUp(t)[s] = reqs[s]
        /\ reqs[s].tab = t /\ reqs[s].kind = "me" => CleanUp(t)[s] = e
    BY <1>2 DEF CleanUp, InFlight
  <2> HIDE DEF e
  <2> QED BY <1>2, <2>2, <2>3, <2>4, NoneIsNoRecord DEF Same
<1> QED BY <1>1, <1>2

-----------------------------------------------------------------------------
(* Type correctness *)

\* Requests are well formed.
ReqsTyped ==
    /\ reqs \in [Slots -> Request \union {None}]
    /\ \A s \in Slots : reqs[s] # None => Shaped(reqs[s])

\* A step that touches one request keeps the shape of all.
LEMMA OneRequest ==
    ASSUME Typed, NEW s \in Slots, NEW e, reqs' = [reqs EXCEPT ![s] = e],
           e # None => e \in Request /\ Shaped(e)
    PROVE  ReqsTyped'
  BY DEF Typed, TypeOK, ReqsTyped, InFlight

\* A step after which every request is gone or the same.
LEMMA SameRequests ==
    ASSUME Typed, NEW f, reqs' = [s \in Slots |-> f[s]],
           \A s \in Slots : f[s] # None => reqs[s] # None /\ Same(f[s], reqs[s])
    PROVE  ReqsTyped'
<1>1. \A s \in Slots : f[s] # None => f[s] \in Request /\ Shaped(f[s])
  BY SameShape DEF Typed, InFlight, Same
<1> QED BY <1>1 DEF ReqsTyped

\* The server's work keeps the shape of requests.
LEMMA ServerTyped ==
    ASSUME Typed, NEW s \in Slots, Work(s)
    PROVE  Typed'
<1> DEFINE r == reqs[s]
<1>1. /\ r \in Request /\ Shaped(r) /\ r.answer = "none"
      /\ UNCHANGED <<server, stored, tabs, mixed>>
  BY DEF Work, ReadAccount, Issue, Authenticate, Handle, Fail, InFlight, Typed, TypeOK
<1>2. ASSUME NEW answer \in Answers \ {"none"}, Reply(s, answer),
             r.kind = "me" /\ answer = "ok" => r.seen # None
      PROVE  ReqsTyped'
  <2>1. /\ Answered(r, answer) \in Request /\ Shaped(Answered(r, answer))
    BY <1>1, <1>2, AnsweredRequest DEF Typed
  <2> QED BY <1>2, <2>1, OneRequest DEF Reply
<1>3. ASSUME NEW x \in BOOLEAN, reqs' = [reqs EXCEPT ![s].seen = x],
             r.kind # "login" => r.token # None
      PROVE  ReqsTyped'
  <2> DEFINE e == [r EXCEPT !.seen = x]
  <2>1. e \in Request /\ Shaped(e)
    BY <1>1, <1>3, SeenFields DEF Shaped
  <2>2. reqs' = [reqs EXCEPT ![s] = e]
    BY <1>3
  <2> QED BY <2>1, <2>2, OneRequest
<1>4. ReqsTyped'
  <2>1. CASE ReadAccount(s)
    <3>1. r.kind = "login" /\ r.name \in Users
      BY <1>1, <2>1 DEF ReadAccount, Shaped, Request
    <3>2. users[r.name].active \in BOOLEAN
      BY <3>1 DEF Typed, TypeOK, User
    <3>3. \/ reqs' = [reqs EXCEPT ![s].seen = users[r.name].active] \/ Reply(s, "401")
      BY <2>1 DEF ReadAccount
    <3> QED BY <1>2, <1>3, <3>1, <3>2, <3>3 DEF Answers
  <2>2. CASE Issue(s)
    <3>1. r.kind = "login" /\ (Reply(s, "401") \/ Reply(s, "ok") \/ Reply(s, "403"))
      BY <2>2 DEF Issue
    <3> QED BY <1>2, <3>1 DEF Answers
  <2>3. CASE Authenticate(s)
    <3>1. \/ Reply(s, "401") \/ Reply(s, "403")
          \/ /\ Valid(r.token, key, now)
             /\ reqs' = [reqs EXCEPT ![s].seen = users[r.token.sub].may]
      BY <2>3 DEF Authenticate, Standing
    <3>2. Valid(r.token, key, now) => r.token # None /\ users[r.token.sub].may \in BOOLEAN
      BY <1>1 DEF Valid, Request, Token, Typed, TypeOK, User
    <3> QED BY <1>2, <1>3, <3>1, <3>2 DEF Answers
  <2>4. CASE Handle(s)
    <3>1. r.seen # None /\ (Reply(s, "403") \/ Reply(s, "ok"))
      BY <2>4 DEF Handle
    <3> QED BY <1>2, <3>1 DEF Answers
  <2>5. CASE Fail(s)
    BY <1>2, <2>5 DEF Fail, Answers
  <2> QED BY <2>1, <2>2, <2>3, <2>4, <2>5 DEF Work
<1> QED BY <1>1, <1>4 DEF Typed, TypeOK, ReqsTyped, InFlight, server

\* What an answer does to the tab it was sent from.
LEMMA SettledTab ==
    ASSUME NEW r \in Request, Shaped(r), r.kind = "me", NEW tab \in Tab
    PROVE  Settled(r, tab) \in Tab
<1>1. CASE r.answer = "ok"
  <2>1. r.seen # None /\ r.token # None
    BY <1>1 DEF Shaped
  <2>2. [id |-> r.token.sub, may |-> r.seen] \in Shown
    BY <2>1 DEF Request, Token, Shown
  <2> QED BY <1>1, <2>2 DEF Settled, Tab
<1>2. CASE r.answer # "ok"
  BY <1>2 DEF Settled, Tab
<1> QED BY <1>1, <1>2

\* So does whatever the browser does,
LEMMA BrowserTyped == Typed /\ Browser => Typed'
<1> SUFFICES ASSUME Typed, Browser PROVE Typed'
  OBVIOUS
<1>0. /\ UNCHANGED server /\ tabs \in [Tabs -> Tab]
      /\ stored \in Token \union {None} /\ mixed \subseteq Tabs
  BY DEF Browser, Mount, RunEffect, SubmitLogin, MakeCall, Logout, Receive, Typed, TypeOK
<1>1. ASSUME ReqsTyped', stored' \in Token \union {None}, tabs' \in [Tabs -> Tab],
             mixed' \subseteq Tabs
      PROVE  Typed'
  BY <1>0, <1>1 DEF Typed, TypeOK, ReqsTyped, InFlight, server
<1>2. ASSUME NEW t \in Tabs PROVE /\ Cleared(t) \in Tab
                                  /\ \A token \in Token : Entered(t, token) \in Tab
  BY <1>0 DEF Cleared, Entered, Tab
<1>3. ASSUME NEW t \in Tabs, ClearSession(t)
      PROVE  /\ stored' \in Token \union {None} /\ tabs' \in [Tabs -> Tab]
             /\ mixed' \subseteq Tabs
  BY <1>0, <1>2, <1>3 DEF ClearSession, Others
<1>4. UNCHANGED reqs => ReqsTyped'
  BY DEF Typed, TypeOK, ReqsTyped, InFlight
<1>5. ASSUME NEW t \in Tabs, Mount(t) PROVE Typed'
  <2>1. ReqsTyped'
    <3> DEFINE f == [s \in Slots |-> IF s \in InFlight /\ reqs[s].tab = t
                                       THEN None ELSE reqs[s]]
    <3>1. \A s \in Slots : f[s] # None => reqs[s] # None /\ Same(f[s], reqs[s])
      BY DEF InFlight, Same, Typed, TypeOK
    <3>2. reqs' = [s \in Slots |-> f[s]]
      BY <1>5 DEF Mount
    <3> HIDE DEF f
    <3> QED BY <3>1, <3>2, SameRequests
  <2>2. [token |-> stored, user |-> None, loading |-> stored # None, due |-> TRUE] \in Tab
    <3>1. (stored # None) \in BOOLEAN
      OBVIOUS
    <3> QED BY <1>0, <3>1 DEF Tab
  <2> QED BY <1>0, <1>1, <1>5, <2>1, <2>2 DEF Mount
<1>6. ASSUME NEW t \in Tabs, RunEffect(t) PROVE Typed'
  <2> DEFINE old == CleanUp(t)
  <2>1. \A s \in Slots : /\ old[s] # None <=> reqs[s] # None
                         /\ old[s] # None => Same(old[s], reqs[s]) /\ Shaped(old[s])
    BY CleanedUp, SameShape DEF Typed, InFlight
  <2>2. tabs[t] \in Tab /\ old = [s \in Slots |-> old[s]]
    BY <1>0 DEF CleanUp
  <2>3. CASE tabs[t].token = None
    <3>1. tabs' = [tabs EXCEPT ![t].due = FALSE, ![t].user = None, ![t].loading = FALSE]
          /\ reqs' = old /\ UNCHANGED <<stored, mixed>>
      BY <1>6, <2>3 DEF RunEffect, CleanUp
    <3> HIDE DEF old
    <3>2. ReqsTyped'
      BY <2>1, <2>2, <3>1, SameRequests
    <3>3. tabs' \in [Tabs -> Tab]
      BY <1>0, <3>1 DEF Tab
    <3> QED BY <1>0, <1>1, <3>1, <3>2, <3>3
  <2>4. CASE tabs[t].token # None
    <3>1. PICK s \in Slots :
            /\ tabs' = [tabs EXCEPT ![t].due = FALSE, ![t].loading = TRUE]
            /\ reqs' = [old EXCEPT ![s] = Sent(t, "me", None, FALSE)]
            /\ UNCHANGED <<stored, mixed>>
      BY <1>6, <2>4 DEF RunEffect, CleanUp
    <3>2. Sent(t, "me", None, FALSE) \in Request /\ Shaped(Sent(t, "me", None, FALSE))
      <4>1. "me" \in Kinds
        BY DEF Kinds
      <4> QED BY <4>1, SentRequest DEF Typed
    <3> HIDE DEF old
    <3>3. ReqsTyped'
      BY <2>1, <2>2, <3>1, <3>2 DEF ReqsTyped, Same
    <3>4. tabs' \in [Tabs -> Tab]
      BY <1>0, <3>1 DEF Tab
    <3> QED BY <1>0, <1>1, <3>1, <3>3, <3>4
  <2> QED BY <2>3, <2>4
<1>7. ASSUME NEW t \in Tabs,
             \/ MakeCall(t) \/ \E u \in Users, right \in BOOLEAN : SubmitLogin(t, u, right)
      PROVE  Typed'
  <2>1. PICK s \in Slots, kind \in Kinds, name \in Users \union {None}, right \in BOOLEAN :
          /\ reqs' = [reqs EXCEPT ![s] = Sent(t, kind, name, right)]
          /\ kind = "login" => name # None
          /\ UNCHANGED <<stored, tabs, mixed>>
    <3>0. "call" \in Kinds /\ "login" \in Kinds /\ FALSE \in BOOLEAN
          /\ None \in Users \union {None} /\ None \notin Users
      BY SessionsAssumption DEF SessionsAssumption, Kinds
    <3>1. CASE MakeCall(t)
      <4>1. PICK s \in Slots : reqs' = [reqs EXCEPT ![s] = Sent(t, "call", None, FALSE)]
        BY <3>1 DEF MakeCall
      <4>2. UNCHANGED <<stored, tabs, mixed>>
        BY <3>1 DEF MakeCall
      <4> QED BY <3>0, <4>1, <4>2
    <3>2. CASE \E u \in Users, right \in BOOLEAN : SubmitLogin(t, u, right)
      <4>1. PICK u \in Users, right \in BOOLEAN : SubmitLogin(t, u, right)
        BY <3>2
      <4>2. PICK s \in Slots : reqs' = [reqs EXCEPT ![s] = Sent(t, "login", u, right)]
        BY <4>1 DEF SubmitLogin
      <4>3. UNCHANGED <<stored, tabs, mixed>>
        BY <4>1 DEF SubmitLogin
      <4>4. u \in Users \union {None} /\ u # None
        BY <3>0
      <4> QED BY <3>0, <4>2, <4>3, <4>4
    <3> QED BY <1>7, <3>1, <3>2
  <2>2. ReqsTyped'
    BY <2>1, SentRequest, OneRequest DEF Typed
  <2> QED BY <1>0, <1>1, <2>1, <2>2
<1>8. ASSUME NEW t \in Tabs, Logout(t) PROVE Typed'
  BY <1>1, <1>3, <1>4, <1>8 DEF Logout
<1>9. ASSUME NEW s \in Slots, Receive(s) PROVE Typed'
  <2> DEFINE r == reqs[s]
  <2>1. r \in Request /\ Shaped(r) /\ reqs' = [reqs EXCEPT ![s] = None]
    BY <1>9 DEF Receive, InFlight, Typed, TypeOK
  <2>2. ReqsTyped' /\ r.tab \in Tabs
    BY <2>1, OneRequest DEF Request
  <2>3. CASE EndsSession(r)
    BY <1>1, <1>3, <1>9, <2>2, <2>3 DEF Receive
  <2>4. CASE ~EndsSession(r) /\ r.kind = "login" /\ r.answer = "ok"
    <3>1. r.issued \in Token
      BY <2>1, <2>4 DEF Shaped, Request
    <3>2. /\ stored' = r.issued /\ tabs' = [tabs EXCEPT ![r.tab] = Entered(r.tab, r.issued)]
          /\ mixed' = (mixed \ {r.tab}) \union Others(r.tab)
      BY <1>9, <2>4 DEF Receive
    <3> QED BY <1>0, <1>1, <1>2, <2>2, <3>1, <3>2 DEF Others
  <2>5. CASE ~EndsSession(r) /\ ~(r.kind = "login" /\ r.answer = "ok")
    <3>1. /\ tabs' = IF Wanted(r) THEN [tabs EXCEPT ![r.tab] = Settled(r, tabs[r.tab])] ELSE tabs
          /\ UNCHANGED <<stored, mixed>>
      BY <1>9, <2>5 DEF Receive
    <3>2. Wanted(r) => Settled(r, tabs[r.tab]) \in Tab
      BY <1>0, <2>1, <2>2, SettledTab DEF Wanted
    <3> QED BY <1>0, <1>1, <2>2, <3>1, <3>2
  <2> QED BY <2>3, <2>4, <2>5
<1> QED BY <1>5, <1>6, <1>7, <1>8, <1>9 DEF Browser

\* and whatever happens to accounts, clock and process.
LEMMA WorldTyped ==
    Typed /\ ((\E u \in Changing : ChangeUser(u)) \/ Tick \/ Restart) => Typed'
<1> SUFFICES ASSUME Typed, (\E u \in Changing : ChangeUser(u)) \/ Tick \/ Restart
             PROVE  Typed'
  OBVIOUS
<1>1. ASSUME NEW us, NEW k, NEW n, reqs' = Watched(us, k, n) PROVE ReqsTyped'
  <2>1. \A s \in Slots : LET e == Watched(us, k, n)[s]
                         IN  e # None => reqs[s] # None /\ Same(e, reqs[s])
    BY WatchedRequest DEF Typed
  <2>2. reqs' = [s \in Slots |-> Watched(us, k, n)[s]]
    BY <1>1 DEF Watched
  <2> QED BY <2>1, <2>2, SameRequests
<1>2. ASSUME NEW u \in Changing, ChangeUser(u) PROVE Typed'
  <2>1. users[u] \in User /\ u \in Users
    BY SessionsAssumption DEF SessionsAssumption, Typed, TypeOK
  <2>2. PICK row \in {[users[u] EXCEPT !.active = ~@], [users[u] EXCEPT !.may = ~@],
                      [exists |-> FALSE, active |-> FALSE, may |-> FALSE]} :
          users' = [users EXCEPT ![u] = row]
    BY <1>2 DEF ChangeUser
  <2>3. row \in User
    <3> DEFINE x == ~users[u].active
               y == ~users[u].may
    <3>1. x \in BOOLEAN /\ y \in BOOLEAN
      OBVIOUS
    <3>2. row \in {[users[u] EXCEPT !.active = x], [users[u] EXCEPT !.may = y],
                   [exists |-> FALSE, active |-> FALSE, may |-> FALSE]}
      BY <2>2
    <3> HIDE DEF x, y
    <3>3. /\ [users[u] EXCEPT !.active = x] \in User
          /\ [users[u] EXCEPT !.may = y] \in User
      BY <2>1, <3>1 DEF User
    <3>4. [exists |-> FALSE, active |-> FALSE, may |-> FALSE] \in User
      BY DEF User
    <3> QED BY <3>2, <3>3, <3>4
  <2>4. ReqsTyped'
    BY <1>1, <1>2 DEF ChangeUser
  <2> QED BY <1>2, <2>2, <2>3, <2>4 DEF ChangeUser, Typed, TypeOK, ReqsTyped, InFlight
<1>3. CASE Tick
  <2>1. ReqsTyped'
    BY <1>1, <1>3 DEF Tick
  <2> QED BY <1>3, <2>1, SessionsAssumption
          DEF SessionsAssumption, Tick, Typed, TypeOK, ReqsTyped, InFlight
<1>4. CASE Restart
  <2>1. ReqsTyped'
    <3>1. \A s \in Slots : LET r == reqs[s]
                               e == Answered(r, "error")
                           IN  r # None /\ r.answer = "none" => e \in Request /\ Shaped(e)
      BY AnsweredRequest DEF Typed, TypeOK, InFlight, Answers
    <3>2. reqs' = [s \in Slots |-> IF s \in InFlight /\ reqs[s].answer = "none"
                                     THEN Answered(reqs[s], "error") ELSE reqs[s]]
      BY <1>4 DEF Restart
    <3> QED BY <3>1, <3>2 DEF ReqsTyped, Typed, TypeOK, InFlight
  <2>2. key' \in 0..MaxKey
    BY <1>4, SessionsAssumption DEF SessionsAssumption, Restart, Typed, TypeOK
  <2> QED BY <1>4, <2>1, <2>2 DEF Restart, Typed, TypeOK, ReqsTyped, InFlight
<1> QED BY <1>2, <1>3, <1>4

\* Type and shape are inductive.
LEMMA TypedHolds == Spec => []Typed
<1>1. Init => Typed
  BY SessionsAssumption DEF SessionsAssumption, Init, Typed, TypeOK, InFlight, User, Tab
<1>2. Typed /\ [Next]_vars => Typed'
  <2> SUFFICES ASSUME Typed, [Next]_vars PROVE Typed'
    OBVIOUS
  <2>1. CASE UNCHANGED vars
    BY <2>1 DEF vars, server, Typed, TypeOK, InFlight
  <2> QED BY <2>1, ServerTyped, BrowserTyped, WorldTyped DEF Next
<1> QED BY <1>1, <1>2, PTL DEF Spec

\* Users, tokens, tabs and requests keep their shape, whatever the bounds.
THEOREM TypeCorrect == Spec => []TypeOK
  BY TypedHolds, PTL DEF Typed

-----------------------------------------------------------------------------
(* What a step does to a request *)

\* The moment counts for the request.
JudgedNow(r) ==
    /\ Deserves(r, users, key, now) => r.fit
    /\ ~Deserves(r, users, key, now) => r.unfit

\* A request that was just sent.
Fresh(r) ==
    /\ r \in Request /\ r.seen = None /\ r.answer = "none" /\ r.token = stored
    /\ r.issued = None /\ JudgedNow(r)

\* What one step does to one request: it stays the same, is answered by the server or
\* by a restart, or is new.
LEMMA RequestStep ==
    ASSUME Typed, Next, NEW s \in Slots, reqs'[s] # None
    PROVE  \/ /\ reqs[s] # None /\ Same(reqs'[s], reqs[s])
              /\ UNCHANGED server \/ reqs[s].answer # "none" \/ JudgedNow(reqs[s])'
           \/ UNCHANGED server /\ Fresh(reqs'[s])
           \/ UNCHANGED server /\ Work(s)
           \/ /\ reqs[s] # None /\ reqs[s].answer = "none"
              /\ reqs'[s] = Answered(reqs[s], "error")
<1> DEFINE Goal ==
           \/ /\ reqs[s] # None /\ Same(reqs'[s], reqs[s])
              /\ UNCHANGED server \/ reqs[s].answer # "none" \/ JudgedNow(reqs[s])'
           \/ UNCHANGED server /\ Fresh(reqs'[s])
           \/ UNCHANGED server /\ Work(s)
           \/ /\ reqs[s] # None /\ reqs[s].answer = "none"
              /\ reqs'[s] = Answered(reqs[s], "error")
<1>1. reqs \in [Slots -> Request \union {None}] /\ TypeOK
  BY DEF Typed, TypeOK
<1>2. ASSUME reqs'[s] = reqs[s] /\ UNCHANGED server PROVE Goal
  BY <1>1, <1>2 DEF Same
<1>3. ASSUME NEW v \in Slots, reqs' = [reqs EXCEPT ![v] = None], UNCHANGED server
      PROVE  Goal
  <2>1. reqs'[s] = reqs[s]
    BY <1>1, <1>3
  <2> QED BY <1>2, <1>3, <2>1
<1>4. ASSUME NEW t \in Tabs, NEW kind \in Kinds, NEW name \in Users \union {None},
             NEW right \in BOOLEAN, kind = "login" => name # None, UNCHANGED server,
             reqs'[s] = Sent(t, kind, name, right)
      PROVE  Goal
  <2>1. Fresh(Sent(t, kind, name, right))
    BY <1>1, <1>4, SentRequest DEF Fresh, JudgedNow
  <2> QED BY <1>4, <2>1
<1>5. ASSUME NEW t \in Tabs, Mount(t) PROVE Goal
  <2>1. reqs'[s] = reqs[s] /\ UNCHANGED server
    BY <1>5 DEF Mount
  <2> QED BY <1>2, <2>1
<1>6. ASSUME NEW t \in Tabs, RunEffect(t) PROVE Goal
  <2> DEFINE f == CleanUp(t)
  <2>1. /\ f[s] = None \/ Same(f[s], reqs[s])
        /\ f[s] # None => reqs[s] # None
        /\ f \in [Slots -> Request \union {None}]
    <3>1. \A v \in Slots : /\ f[v] # None <=> reqs[v] # None
                           /\ reqs[v] # None => Same(f[v], reqs[v])
      BY <1>1, CleanedUp
    <3>2. f = [v \in Slots |-> f[v]]
      BY DEF CleanUp
    <3> HIDE DEF f
    <3> QED BY <3>1, <3>2 DEF Same
  <2>2. UNCHANGED server
    BY <1>6 DEF RunEffect
  <2>3. \/ reqs' = f
        \/ \E v \in Slots : reqs' = [f EXCEPT ![v] = Sent(t, "me", None, FALSE)]
    BY <1>6 DEF RunEffect, CleanUp
  <2>4. "me" \in Kinds
    BY DEF Kinds
  <2> HIDE DEF f
  <2>5. CASE reqs' = f
    BY <2>1, <2>2, <2>5
  <2>6. ASSUME NEW v \in Slots, reqs' = [f EXCEPT ![v] = Sent(t, "me", None, FALSE)]
        PROVE  Goal
    <3>1. reqs'[s] = f[s] \/ reqs'[s] = Sent(t, "me", None, FALSE)
      BY <2>1, <2>6
    <3>2. CASE reqs'[s] = f[s]
      BY <2>1, <2>2, <3>2
    <3>3. ASSUME reqs'[s] = Sent(t, "me", None, FALSE) PROVE Goal
      <4>1. PICK kind \in Kinds, name \in Users \union {None}, right \in BOOLEAN :
              kind = "me" /\ name = None /\ right = FALSE
        BY <2>4
      <4> QED BY <1>4, <2>2, <3>3, <4>1
    <3> QED BY <3>1, <3>2, <3>3
  <2> QED BY <2>3, <2>5, <2>6
<1>7. ASSUME NEW t \in Tabs, NEW v \in Slots, NEW kind \in Kinds,
             NEW name \in Users \union {None}, NEW right \in BOOLEAN,
             kind = "login" => name # None, UNCHANGED server,
             reqs' = [reqs EXCEPT ![v] = Sent(t, kind, name, right)]
      PROVE  Goal
  <2>1. reqs'[s] = reqs[s] \/ reqs'[s] = Sent(t, kind, name, right)
    BY <1>1, <1>7
  <2> QED BY <1>2, <1>4, <1>7, <2>1
<1>8. ASSUME NEW t \in Tabs, MakeCall(t) PROVE Goal
  <2>1. PICK v \in Slots : reqs' = [reqs EXCEPT ![v] = Sent(t, "call", None, FALSE)]
    BY <1>8 DEF MakeCall
  <2>2. UNCHANGED server /\ "call" \in Kinds
    BY <1>8 DEF MakeCall, Kinds
  <2> QED BY <1>7, <2>1, <2>2
<1>9. ASSUME NEW t \in Tabs, NEW u \in Users, NEW right \in BOOLEAN, SubmitLogin(t, u, right)
      PROVE  Goal
  <2>1. PICK v \in Slots : reqs' = [reqs EXCEPT ![v] = Sent(t, "login", u, right)]
    BY <1>9 DEF SubmitLogin
  <2>2. UNCHANGED server /\ "login" \in Kinds /\ u # None
    BY <1>9, SessionsAssumption DEF SubmitLogin, Kinds, SessionsAssumption
  <2> QED BY <1>7, <2>1, <2>2
<1>10. ASSUME NEW t \in Tabs, Logout(t) PROVE Goal
  BY <1>2, <1>10 DEF Logout
<1>11. ASSUME NEW v \in Slots, Receive(v) PROVE Goal
  BY <1>3, <1>11 DEF Receive
<1>12. ASSUME NEW v \in Slots, Work(v) PROVE Goal
  <2>1. v = s \/ reqs'[s] = reqs[s]
    BY <1>1, <1>12 DEF Work, ReadAccount, Issue, Authenticate, Handle, Fail, Reply
  <2>2. UNCHANGED server
    BY <1>12 DEF Work, ReadAccount, Issue, Authenticate, Handle, Fail
  <2> QED BY <1>2, <1>12, <2>1, <2>2
<1>13. ASSUME reqs' = Watched(users', key', now') PROVE Goal
  BY <1>1, <1>13, WatchedRequest DEF JudgedNow, Same
<1>14. ASSUME Restart PROVE Goal
  <2>1. \/ reqs'[s] = reqs[s] /\ reqs[s].answer # "none"
        \/ reqs[s].answer = "none" /\ reqs'[s] = Answered(reqs[s], "error")
    BY <1>14 DEF Restart, InFlight
  <2>2. reqs[s] # None
    BY <1>14 DEF Restart, InFlight
  <2> QED BY <1>1, <2>1, <2>2 DEF Same
<1> HIDE DEF Goal
<1>15. ASSUME Browser PROVE Goal
  BY <1>5, <1>6, <1>8, <1>9, <1>10, <1>11, <1>15 DEF Browser
<1>16. ASSUME \E u \in Changing : ChangeUser(u) PROVE Goal
  BY <1>13, <1>16 DEF ChangeUser
<1>17. ASSUME Tick PROVE Goal
  BY <1>13, <1>17 DEF Tick
<1>18. Goal
  BY <1>12, <1>14, <1>15, <1>16, <1>17 DEF Next
<1> QED BY <1>18 DEF Goal

-----------------------------------------------------------------------------
(* Answers are fair *)

\* What was read so far lets the request through, or not, and did so rightly.
Decided(r) ==
    LET good == (r.kind = "login" => r.right /\ r.seen) /\ (r.kind = "call" => r.seen)
    IN  (good => r.fit) /\ (~good => r.unfit)

\* A request under way is judged by the present, what was read of its user was so
\* at a moment of its way, and an answer agrees with one of the moments.
Judged(r) ==
    /\ r.answer = "none" => JudgedNow(r)
    /\ r.answer = "none" /\ r.seen # None => Decided(r)
    /\ r.answer = "ok" => r.fit
    /\ r.answer \in {"401", "403"} => r.unfit

AllJudged == \A s \in InFlight : Judged(reqs[s])

\* The server's own steps.
LEMMA WorkJudged ==
    ASSUME Typed, NEW s \in Slots, Work(s), Judged(reqs[s])
    PROVE  Judged(reqs[s])'
<1> DEFINE r == reqs[s]
<1>1. /\ r \in Request /\ Shaped(r) /\ r.answer = "none" /\ UNCHANGED server /\ TypeOK
      /\ JudgedNow(r)
      /\ r.seen # None => Decided(r)
  BY DEF Work, ReadAccount, Issue, Authenticate, Handle, Fail, InFlight, Typed, TypeOK, Judged
<1>2. ASSUME NEW answer \in Answers \ {"none"}, Reply(s, answer),
             r.kind = "me" /\ answer = "ok" => r.seen # None,
             answer = "ok" => r.fit, answer \in {"401", "403"} => r.unfit
      PROVE  Judged(reqs[s])'
  <2>1. LET e == Answered(r, answer)
        IN  /\ e.answer = answer
            /\ answer = "ok" /\ r.fit => e.fit
            /\ answer \in {"401", "403"} /\ r.unfit => e.unfit
    BY <1>1, <1>2, AnsweredRequest
  <2>2. reqs'[s] = Answered(r, answer)
    BY <1>1, <1>2 DEF Reply, TypeOK
  <2> QED BY <1>2, <2>1, <2>2 DEF Judged
<1>3. ASSUME NEW x \in BOOLEAN, reqs' = [reqs EXCEPT ![s].seen = x],
             LET good == (r.kind = "login" => r.right /\ x) /\ (r.kind = "call" => x)
             IN  (good => r.fit) /\ (~good => r.unfit)
      PROVE  Judged(reqs[s])'
  <2> DEFINE e == [r EXCEPT !.seen = x]
  <2>1. /\ e.seen = x /\ e.fit = r.fit /\ e.unfit = r.unfit
        /\ e.kind = r.kind /\ e.token = r.token /\ e.name = r.name
        /\ e.right = r.right /\ e.answer = r.answer
    BY <1>1, <1>3, SeenFields
  <2>2. reqs'[s] = e
    BY <1>1, <1>3 DEF TypeOK
  <2> HIDE DEF e
  <2>3. Decided(e)
    BY <1>3, <2>1 DEF Decided
  <2>4. JudgedNow(reqs[s])'
    BY <1>1, <2>1, <2>2 DEF JudgedNow, Deserves, server
  <2>5. Decided(reqs[s])'
    BY <2>2, <2>3 DEF Decided
  <2> QED BY <1>1, <2>1, <2>2, <2>4, <2>5 DEF Judged, Request
<1>4. CASE ReadAccount(s)
  <2> DEFINE u == users[r.name]
  <2>1. r.kind = "login" /\ u \in User
    BY <1>1, <1>4 DEF ReadAccount, Shaped, Request, TypeOK
  <2>2. CASE u.exists
    <3>1. reqs' = [reqs EXCEPT ![s].seen = u.active] /\ u.active \in BOOLEAN
      BY <1>4, <2>1, <2>2 DEF ReadAccount, User
    <3>2. LET good == r.right /\ u.active IN (good => r.fit) /\ (~good => r.unfit)
      BY <1>1, <2>1, <2>2 DEF JudgedNow, Deserves
    <3> QED BY <1>3, <2>1, <3>1, <3>2
  <2>3. CASE ~u.exists
    <3>1. Reply(s, "401") /\ r.unfit
      BY <1>1, <1>4, <2>1, <2>3 DEF ReadAccount, JudgedNow, Deserves
    <3> QED BY <1>2, <3>1 DEF Answers
  <2> QED BY <2>2, <2>3
<1>5. CASE Issue(s)
  <2>1. r.kind = "login" /\ Decided(r)
    BY <1>1, <1>5 DEF Issue
  <2>2. \/ Reply(s, "401") /\ r.unfit
        \/ Reply(s, "ok") /\ r.fit
        \/ Reply(s, "403") /\ r.unfit
    BY <1>5, <2>1 DEF Issue, Decided
  <2> QED BY <1>2, <2>1, <2>2 DEF Answers
<1>6. CASE Authenticate(s)
  <2> DEFINE u == users[r.token.sub]
  <2>1. r.kind \in {"me", "call"}
    BY <1>1, <1>6 DEF Authenticate, Request, Kinds
  <2>2. CASE ~Valid(r.token, key, now)
    <3>1. Reply(s, "401") /\ r.unfit
      BY <1>1, <1>6, <2>1, <2>2 DEF Authenticate, Valid, JudgedNow, Deserves
    <3> QED BY <1>2, <3>1 DEF Answers
  <2>3. CASE Valid(r.token, key, now) /\ Standing(u) # "ok"
    <3>1. r.unfit
      BY <1>1, <2>1, <2>3 DEF Standing, JudgedNow, Deserves
    <3>2. Reply(s, "401") \/ Reply(s, "403")
      BY <1>6, <2>3 DEF Authenticate, Standing
    <3> QED BY <1>2, <3>1, <3>2 DEF Answers
  <2>4. CASE Valid(r.token, key, now) /\ Standing(u) = "ok"
    <3>1. reqs' = [reqs EXCEPT ![s].seen = u.may]
      BY <1>6, <2>4 DEF Authenticate
    <3>2. u.may \in BOOLEAN
      BY <1>1, <2>4 DEF Valid, Request, Token, TypeOK, User
    <3>3. LET good == (r.kind = "call" => u.may) IN (good => r.fit) /\ (~good => r.unfit)
      BY <1>1, <2>1, <2>4 DEF Valid, Standing, JudgedNow, Deserves
    <3> QED BY <1>3, <2>1, <3>1, <3>2, <3>3
  <2> QED BY <2>2, <2>3, <2>4
<1>7. CASE Handle(s)
  <2>1. r.kind \in {"me", "call"} /\ r.seen # None /\ Decided(r)
    BY <1>1, <1>7 DEF Handle, Request, Kinds
  <2>2. \/ Reply(s, "403") /\ r.unfit
        \/ Reply(s, "ok") /\ r.fit
    BY <1>7, <2>1 DEF Handle, Decided
  <2> QED BY <1>2, <2>1, <2>2 DEF Answers
<1>8. CASE Fail(s)
  BY <1>2, <1>8 DEF Fail, Answers
<1> QED BY <1>4, <1>5, <1>6, <1>7, <1>8 DEF Work

\* Every step leaves the judgement in order.
LEMMA JudgedStep ==
    ASSUME Typed, AllJudged, [Next]_vars
    PROVE  AllJudged'
<1> SUFFICES ASSUME Next, NEW s \in Slots, reqs'[s] # None PROVE Judged(reqs[s])'
  BY DEF AllJudged, InFlight, Judged, JudgedNow, Deserves, vars, server
<1>1. reqs[s] # None => Judged(reqs[s]) /\ reqs[s] \in Request /\ Shaped(reqs[s])
  BY DEF AllJudged, InFlight, Typed, TypeOK
<1>2. CASE /\ reqs[s] # None /\ Same(reqs'[s], reqs[s])
           /\ UNCHANGED server \/ reqs[s].answer # "none" \/ JudgedNow(reqs[s])'
  <2>1. reqs'[s].answer = "none" => JudgedNow(reqs[s])'
    <3>1. CASE UNCHANGED server
      BY <1>1, <1>2, <3>1 DEF Same, Judged, JudgedNow, Deserves, server
    <3> QED BY <1>2, <3>1 DEF Same
  <2>2. Decided(reqs[s]) => Decided(reqs'[s])
    BY <1>2 DEF Same, Decided
  <2> QED BY <1>1, <1>2, <2>1, <2>2 DEF Same, Judged, Decided
<1>3. CASE UNCHANGED server /\ Fresh(reqs'[s])
  BY <1>3 DEF Fresh, Judged, JudgedNow, Deserves, server
<1>4. CASE Work(s)
  BY <1>1, <1>4, WorkJudged
  DEF Work, ReadAccount, Issue, Authenticate, Handle, Fail, InFlight
<1>5. CASE /\ reqs[s] # None /\ reqs[s].answer = "none"
           /\ reqs'[s] = Answered(reqs[s], "error")
  <2>1. "error" \in Answers \ {"none"}
    BY DEF Answers
  <2>2. reqs'[s].answer = "error"
    BY <1>1, <1>5, <2>1, AnsweredRequest DEF Typed
  <2> QED BY <2>2 DEF Judged
<1> QED BY <1>2, <1>3, <1>4, <1>5, RequestStep

\* Who is let through deserved it at some moment of the request, and who is refused
\* did not, for every number of users, tabs and requests, any lifetime of tokens and
\* any changes, expirations and restarts in between.
THEOREM AnswersAlwaysFair == Spec => []AnswersAreFair
<1>1. Init => AllJudged
  BY DEF Init, AllJudged, InFlight
<1>2. AllJudged => AnswersAreFair
  BY DEF AllJudged, Judged, AnswersAreFair
<1> QED BY <1>1, <1>2, JudgedStep, TypedHolds, PTL DEF Spec
-----------------------------------------------------------------------------
(* A tab shows its user *)

\* A request of a tab that logs in, and one whose answer still shows its user.
LogsIn(r, t) == r.tab = t /\ r.kind = "login"
Asks(r, t) == r.tab = t /\ Wanted(r)

\* A tab that is logged out, or that has just got its token, shows no user and asks
\* for none; it logs in once at a time, and without a token; and unless another tab
\* wrote the storage its token is the stored one, as are those of its questions.
TabSound(t) ==
    /\ (tabs[t].due <=> tabs[t].token # None) =>
         /\ tabs[t].user = None
         /\ \A s \in InFlight : ~Asks(reqs[s], t)
    /\ \A s \in InFlight : LogsIn(reqs[s], t) =>
         /\ tabs[t].token = None /\ ~tabs[t].due
         /\ \A v \in InFlight : LogsIn(reqs[v], t) => v = s
    /\ t \notin mixed /\ tabs[t].token # None =>
         /\ tabs[t].token = stored
         /\ ~tabs[t].due =>
              /\ tabs[t].user # None => tabs[t].user.id = tabs[t].token.sub
              /\ \A s \in InFlight : Asks(reqs[s], t) => reqs[s].token = tabs[t].token

TabsSound == \A t \in Tabs : TabSound(t)

\* The requests of a tab, calls aside, are what is left of those it had.
Follows(e, r, t) ==
    e # None /\ e.tab = t /\ e.kind # "call" =>
      /\ r # None /\ r.tab = t /\ r.kind = e.kind /\ r.token = e.token
      /\ e.live => r.live

NoneNew(t) == \A s \in Slots : Follows(reqs'[s], reqs[s], t)

\* A tab that is left alone stays sound.
LEMMA TabKept ==
    ASSUME NEW t \in Tabs, TabSound(t), NoneNew(t), tabs'[t] = tabs[t],
           t \notin mixed' /\ tabs[t].token # None => t \notin mixed /\ stored' = stored
    PROVE  TabSound(t)'
<1>1. \A s \in InFlight' : Asks(reqs'[s], t) =>
        s \in InFlight /\ Asks(reqs[s], t) /\ reqs'[s].token = reqs[s].token
  BY DEF InFlight, NoneNew, Follows, Asks, Wanted
<1>2. \A s \in InFlight' : LogsIn(reqs'[s], t) => s \in InFlight /\ LogsIn(reqs[s], t)
  BY DEF InFlight, NoneNew, Follows, LogsIn
<1> QED BY <1>1, <1>2 DEF TabSound
\* An answer keeps whose request it is, and whether it is waited for.
LEMMA AnsweredFollows ==
    ASSUME NEW r \in Request, NEW answer, NEW t
    PROVE  Follows(Answered(r, answer), r, t)
<1> DEFINE issued == IF answer = "ok" /\ r.kind = "login"
                       THEN [sub |-> r.name, key |-> key, exp |-> now + ttl] ELSE None
           seen == IF answer = "ok" /\ r.kind = "me" THEN r.seen ELSE None
           fit == r.fit /\ answer = "ok"
           unfit == r.unfit /\ answer \in {"401", "403"}
           e == [r EXCEPT !.answer = answer, !.name = None, !.right = FALSE,
                          !.issued = issued, !.seen = seen, !.fit = fit, !.unfit = unfit]
<1>1. Answered(r, answer) = e
  BY DEF Answered
<1> HIDE DEF issued, seen, fit, unfit
<1>2. e.tab = r.tab /\ e.kind = r.kind /\ e.token = r.token /\ e.live = r.live
  BY DEF Request
<1> HIDE DEF e
<1> QED BY <1>1, <1>2, NoneIsNoRecord DEF Follows

\* What the server and the world do leaves every tab sound.
LEMMA WorldTabs ==
    ASSUME Typed, NEW t \in Tabs, TabSound(t),
           \/ \E s \in Slots : Work(s)
           \/ \E u \in Changing : ChangeUser(u)
           \/ Tick \/ Restart
    PROVE  TabSound(t)'
<1>1. UNCHANGED <<stored, tabs, mixed>>
  BY DEF Work, ReadAccount, Issue, Authenticate, Handle, Fail, ChangeUser, Tick, Restart
<1>2. reqs \in [Slots -> Request \union {None}] /\ TypeOK
  BY DEF Typed, TypeOK
<1>3. NoneNew(t)
  <2>1. ASSUME NEW s \in Slots, Work(s) PROVE NoneNew(t)
    <3> DEFINE r == reqs[s]
    <3>1. r \in Request
      BY <1>2, <2>1 DEF Work, ReadAccount, Issue, Authenticate, Handle, Fail, InFlight
    <3>2. \/ \E answer : reqs' = [reqs EXCEPT ![s] = Answered(@, answer)]
          \/ \E x : reqs' = [reqs EXCEPT ![s].seen = x]
      BY <2>1 DEF Work, ReadAccount, Issue, Authenticate, Handle, Fail, Reply
    <3>3. ASSUME NEW answer, reqs' = [reqs EXCEPT ![s] = Answered(@, answer)]
          PROVE  NoneNew(t)
      BY <1>2, <3>1, <3>3, AnsweredFollows DEF NoneNew, Follows
    <3>4. ASSUME NEW x, reqs' = [reqs EXCEPT ![s].seen = x]
          PROVE  NoneNew(t)
      <4> DEFINE e == [r EXCEPT !.seen = x]
      <4>1. e.tab = r.tab /\ e.kind = r.kind /\ e.token = r.token /\ e.live = r.live
        BY <3>1 DEF Request
      <4>2. reqs' = [reqs EXCEPT ![s] = e]
        BY <3>4
      <4> HIDE DEF e
      <4> QED BY <1>2, <3>1, <4>1, <4>2, NoneIsNoRecord DEF NoneNew, Follows
    <3> QED BY <3>2, <3>3, <3>4
  <2>2. ASSUME reqs' = Watched(users', key', now') PROVE NoneNew(t)
    BY <1>2, <2>2, WatchedRequest DEF NoneNew, Follows, Same
  <2>3. CASE Restart
    <3>1. \A s \in Slots : \/ reqs'[s] = reqs[s]
                           \/ reqs[s] # None /\ reqs'[s] = Answered(reqs[s], "error")
      BY <2>3 DEF Restart, InFlight
    <3>2. \A s \in Slots : reqs[s] # None => Follows(Answered(reqs[s], "error"), reqs[s], t)
      BY <1>2, AnsweredFollows
    <3> QED BY <3>1, <3>2 DEF NoneNew, Follows
  <2> QED BY <2>1, <2>2, <2>3 DEF ChangeUser, Tick
<1> QED BY <1>1, <1>3, TabKept
\* A request that a tab sends is no other tab's, and no call is waited for.
LEMMA SentFollows ==
    ASSUME Typed, NEW t \in Tabs, NEW v \in Tabs, NEW kind \in Kinds,
           NEW name \in Users \union {None}, NEW right \in BOOLEAN,
           kind = "login" => name # None, kind = "call" \/ v # t, NEW s \in Slots,
           reqs' = [reqs EXCEPT ![s] = Sent(v, kind, name, right)]
    PROVE  NoneNew(t)
<1>1. LET e == Sent(v, kind, name, right) IN e.tab = v /\ e.kind = kind
  BY SentRequest DEF Typed
<1>2. \A r \in Slots : reqs'[r] = reqs[r] \/ reqs'[r] = Sent(v, kind, name, right)
  BY DEF Typed, TypeOK
<1> QED BY <1>1, <1>2 DEF NoneNew, Follows

\* What the token effect sends.
LEMMA QuestionSent ==
    ASSUME TypeOK, NEW t \in Tabs
    PROVE  LET r == Sent(t, "me", None, FALSE)
           IN  r.tab = t /\ r.kind = "me" /\ r.token = stored
<1>1. ASSUME NEW kind \in Kinds, NEW name \in Users \union {None}, NEW right \in BOOLEAN,
             kind = "login" => name # None
      PROVE  LET r == Sent(t, kind, name, right)
             IN  r.tab = t /\ r.kind = kind /\ r.token = stored
  BY <1>1, SentRequest
<1> QED BY <1>1 DEF Kinds

\* What another tab does leaves a tab sound, or knowing that it was overtaken.
LEMMA OthersTabs ==
    ASSUME Typed, NEW t \in Tabs, TabSound(t), NEW v \in Tabs, v # t,
           \/ Mount(v) \/ RunEffect(v) \/ Logout(v)
           \/ \E u \in Users, right \in BOOLEAN : SubmitLogin(v, u, right)
           \/ \E s \in Slots : Receive(s) /\ reqs[s].tab = v
    PROVE  TabSound(t)'
<1>1. reqs \in [Slots -> Request \union {None}] /\ tabs \in [Tabs -> Tab] /\ TypeOK
  BY DEF Typed, TypeOK
<1>2. ASSUME UNCHANGED <<stored, mixed>> \/ mixed' = (mixed \ {v}) \union Others(v),
             tabs' = [tabs EXCEPT ![v] = tabs'[v]], NoneNew(t)
      PROVE  TabSound(t)'
  <2>1. tabs'[t] = tabs[t]
    BY <1>1, <1>2
  <2>2. t \notin mixed' /\ tabs[t].token # None => t \notin mixed /\ stored' = stored
    BY <1>2 DEF Others
  <2> QED BY <1>2, <2>1, <2>2, TabKept
<1>3. CASE Mount(v)
  <2>1. NoneNew(t)
    BY <1>1, <1>3 DEF Mount, InFlight, NoneNew, Follows
  <2>2. tabs'[t] = tabs[t] /\ stored' = stored /\ mixed' = mixed \ {v}
    BY <1>1, <1>3 DEF Mount
  <2> QED BY <2>1, <2>2, TabKept
<1>4. CASE RunEffect(v)
  <2>1. NoneNew(t)
    <3> DEFINE f == CleanUp(v)
    <3>1. \A s \in Slots : Follows(f[s], reqs[s], t)
      <4>1. ASSUME NEW s \in Slots PROVE Follows(f[s], reqs[s], t)
        BY <1>1, CleanedUp DEF Same, Follows
      <4> QED BY <4>1
    <3>2. \/ reqs' = f
          \/ \E s \in Slots : reqs' = [f EXCEPT ![s] = Sent(v, "me", None, FALSE)]
      BY <1>4 DEF RunEffect, CleanUp
    <3>3. f = [s \in Slots |-> f[s]]
      BY DEF CleanUp
    <3>4. Sent(v, "me", None, FALSE).tab = v
      BY <1>1, QuestionSent
    <3> HIDE DEF f
    <3> QED BY <3>1, <3>2, <3>3, <3>4 DEF NoneNew, Follows
  <2>2. UNCHANGED <<stored, mixed>> /\ tabs'[t] = tabs[t]
    BY <1>1, <1>4 DEF RunEffect
  <2> QED BY <2>1, <2>2, TabKept
<1>5. ASSUME NEW u \in Users, NEW right \in BOOLEAN, SubmitLogin(v, u, right)
      PROVE  TabSound(t)'
  <2>1. PICK s \in Slots : reqs' = [reqs EXCEPT ![s] = Sent(v, "login", u, right)]
    BY <1>5 DEF SubmitLogin
  <2>2. "login" \in Kinds /\ u # None
    BY SessionsAssumption DEF SessionsAssumption, Kinds
  <2>3. NoneNew(t)
    BY <2>1, <2>2, SentFollows
  <2> QED BY <1>5, <2>3, TabKept DEF SubmitLogin
<1>6. CASE Logout(v)
  <2>1. NoneNew(t)
    BY <1>6 DEF Logout, NoneNew, Follows
  <2> QED BY <1>1, <1>2, <1>6, <2>1 DEF Logout, ClearSession
<1>7. ASSUME NEW s \in Slots, Receive(s), reqs[s].tab = v PROVE TabSound(t)'
  <2>1. NoneNew(t)
    BY <1>1, <1>7 DEF Receive, NoneNew, Follows
  <2>2. \/ UNCHANGED <<stored, mixed>> \/ mixed' = (mixed \ {v}) \union Others(v)
    BY <1>7 DEF Receive, ClearSession
  <2>3. tabs'[t] = tabs[t]
    BY <1>1, <1>7 DEF Receive, ClearSession
  <2>4. t \notin mixed' /\ tabs[t].token # None => t \notin mixed /\ stored' = stored
    BY <1>7, <2>2 DEF Others
  <2> QED BY <2>1, <2>3, <2>4, TabKept
<1> QED BY <1>3, <1>4, <1>5, <1>6, <1>7
\* What a tab does itself leaves it sound.
LEMMA OwnSteps ==
    ASSUME Typed, NEW t \in Tabs, TabSound(t),
           \/ Mount(t) \/ RunEffect(t) \/ MakeCall(t) \/ Logout(t)
           \/ \E u \in Users, right \in BOOLEAN : SubmitLogin(t, u, right)
    PROVE  TabSound(t)'
<1>1. reqs \in [Slots -> Request \union {None}] /\ tabs \in [Tabs -> Tab] /\ TypeOK
  BY DEF Typed, TypeOK
<1>2. CASE Mount(t)
  <2>1. /\ tabs'[t].token = stored /\ tabs'[t].user = None /\ tabs'[t].due
        /\ stored' = stored
    BY <1>1, <1>2 DEF Mount
  <2>2. \A s \in InFlight' : reqs'[s].tab # t
    BY <1>1, <1>2 DEF Mount, InFlight
  <2> QED BY <2>1, <2>2 DEF TabSound, LogsIn, Asks
<1>3. CASE RunEffect(t)
  <2> DEFINE f == CleanUp(t)
  <2>1. UNCHANGED <<stored, mixed>> /\ tabs[t].due /\ tabs[t] \in Tab
    BY <1>1, <1>3 DEF RunEffect
  <2>2. \A s \in Slots : f[s] # None => ~Asks(f[s], t) /\ ~LogsIn(f[s], t)
    <3>1. ASSUME NEW s \in Slots, f[s] # None PROVE ~Asks(f[s], t) /\ ~LogsIn(f[s], t)
      <4>1. reqs[s] # None /\ Same(f[s], reqs[s])
            /\ (reqs[s].tab = t /\ reqs[s].kind = "me" => ~f[s].live)
        BY <1>1, <3>1, CleanedUp
      <4>2. ~LogsIn(reqs[s], t)
        BY <2>1, <4>1 DEF TabSound, InFlight
      <4> QED BY <4>1, <4>2 DEF Same, Asks, Wanted, LogsIn
    <3> QED BY <3>1
  <2>3. f = [s \in Slots |-> f[s]]
    BY DEF CleanUp
  <2>4. CASE tabs[t].token = None
    <3>1. reqs' = f /\ tabs' = [tabs EXCEPT ![t].due = FALSE, ![t].user = None,
                                            ![t].loading = FALSE]
      BY <1>3, <2>4 DEF RunEffect, CleanUp
    <3>2. ~tabs'[t].due /\ tabs'[t].token = None /\ tabs'[t].user = None
      BY <1>1, <2>1, <2>4, <3>1 DEF Tab
    <3> HIDE DEF f
    <3> QED BY <2>2, <3>1, <3>2 DEF TabSound, InFlight
  <2>5. CASE tabs[t].token # None
    <3>1. PICK v \in Slots : reqs' = [f EXCEPT ![v] = Sent(t, "me", None, FALSE)]
      BY <1>3, <2>5 DEF RunEffect, CleanUp
    <3>2. tabs' = [tabs EXCEPT ![t].due = FALSE, ![t].loading = TRUE]
      BY <1>3, <2>5 DEF RunEffect
    <3>3. /\ ~tabs'[t].due /\ tabs'[t].token = tabs[t].token
          /\ tabs'[t].user = tabs[t].user
      BY <1>1, <2>1, <3>2 DEF Tab
    <3>4. tabs[t].user = None
      BY <2>1, <2>5 DEF TabSound
    <3> DEFINE e == Sent(t, "me", None, FALSE)
    <3>5. e.kind = "me" /\ e.token = stored
      BY <1>1, QuestionSent
    <3> HIDE DEF e, f
    <3>6. \A s \in Slots : reqs'[s] = e \/ reqs'[s] = f[s]
      BY <2>3, <3>1 DEF e
    <3>7. \A s \in InFlight' : ~LogsIn(reqs'[s], t)
      BY <2>2, <3>5, <3>6 DEF InFlight, LogsIn
    <3>8. \A s \in InFlight' : Asks(reqs'[s], t) => reqs'[s].token = stored
      BY <2>2, <3>5, <3>6 DEF InFlight
    <3> QED BY <2>1, <2>5, <3>3, <3>4, <3>7, <3>8 DEF TabSound
  <2> QED BY <2>4, <2>5
<1>4. CASE MakeCall(t)
  <2>1. PICK s \in Slots : reqs' = [reqs EXCEPT ![s] = Sent(t, "call", None, FALSE)]
    BY <1>4 DEF MakeCall
  <2>2. ASSUME NEW kind \in Kinds, NEW name \in Users \union {None}, NEW right \in BOOLEAN,
               kind = "call", reqs' = [reqs EXCEPT ![s] = Sent(t, kind, name, right)]
        PROVE  NoneNew(t)
    BY <2>2, SentFollows
  <2>3. NoneNew(t)
    BY <2>1, <2>2 DEF Kinds
  <2> QED BY <1>4, <2>3, TabKept DEF MakeCall
<1>5. CASE Logout(t)
  <2>1. UNCHANGED reqs /\ tabs' = [tabs EXCEPT ![t] = Cleared(t)] /\ tabs[t] \in Tab
    BY <1>1, <1>5 DEF Logout, ClearSession
  <2>2. tabs[t].token # None /\ ~tabs[t].due
    BY <1>5 DEF Logout
  <2>3. tabs'[t].token = None /\ tabs'[t].due
    BY <1>1, <2>1, <2>2 DEF Cleared, Tab
  <2> QED BY <2>1, <2>2, <2>3 DEF TabSound, InFlight
<1>6. ASSUME NEW u \in Users, NEW right \in BOOLEAN, SubmitLogin(t, u, right)
      PROVE  TabSound(t)'
  <2> DEFINE e == Sent(t, "login", u, right)
  <2>1. PICK s \in Slots : reqs' = [reqs EXCEPT ![s] = e]
    BY <1>6 DEF SubmitLogin
  <2>2. "login" \in Kinds /\ u # None
    BY SessionsAssumption DEF SessionsAssumption, Kinds
  <2>3. e.kind = "login"
    <3>1. ASSUME NEW kind \in Kinds, kind = "login"
          PROVE  Sent(t, kind, u, right).kind = kind
      BY <1>1, <2>2, <3>1, SentRequest
    <3> QED BY <2>2, <3>1
  <2> HIDE DEF e
  <2>4. \A v \in Slots : reqs'[v] = (IF v = s THEN e ELSE reqs[v])
    BY <1>1, <2>1
  <2>5. /\ UNCHANGED <<stored, tabs, mixed>> /\ tabs[t].token = None /\ ~tabs[t].due
        /\ \A v \in InFlight : ~LogsIn(reqs[v], t)
    BY <1>6 DEF SubmitLogin, LogsIn
  <2>6. \A v \in InFlight' : Asks(reqs'[v], t) => v \in InFlight /\ Asks(reqs[v], t)
    BY <2>3, <2>4 DEF InFlight, Asks, Wanted
  <2>7. \A v \in InFlight' : LogsIn(reqs'[v], t) => v = s
    BY <2>4, <2>5 DEF InFlight
  <2> QED BY <2>5, <2>6, <2>7 DEF TabSound
<1> QED BY <1>2, <1>3, <1>4, <1>5, <1>6
\* An answer that reaches a tab leaves it sound.
LEMMA ReceiveTab ==
    ASSUME Typed, NEW s \in Slots, Receive(s), NEW t \in Tabs, reqs[s].tab = t, TabSound(t)
    PROVE  TabSound(t)'
<1> DEFINE r == reqs[s]
           tab == tabs[t]
<1>1. /\ r \in Request /\ Shaped(r) /\ s \in InFlight /\ r.answer # "none"
      /\ reqs \in [Slots -> Request \union {None}]
      /\ tabs \in [Tabs -> Tab] /\ tab \in Tab
      /\ reqs' = [reqs EXCEPT ![s] = None]
  BY DEF Receive, Typed, TypeOK, InFlight
<1>2. /\ InFlight' = InFlight \ {s}
      /\ \A v \in InFlight' : reqs'[v] = reqs[v]
  BY <1>1 DEF InFlight
<1>3. CASE EndsSession(r)
  <2>1. tabs' = [tabs EXCEPT ![t] = Cleared(t)]
    BY <1>3 DEF Receive, ClearSession
  <2>2. /\ tabs'[t].token = None /\ tabs'[t].user = None
        /\ tabs'[t].due = (tab.due \/ tab.token # None)
    BY <1>1, <2>1 DEF Cleared, Tab
  <2>3. tab.token # None /\ ~tab.due => \A v \in InFlight : ~LogsIn(reqs[v], t)
    BY DEF TabSound
  <2> QED BY <1>2, <2>2, <2>3 DEF TabSound
<1>4. CASE r.kind = "login" /\ r.answer = "ok"
  <2>1. ~EndsSession(r)
    BY <1>4 DEF EndsSession
  <2>2. stored' = r.issued /\ tabs' = [tabs EXCEPT ![t] = Entered(t, r.issued)]
    BY <1>4, <2>1 DEF Receive
  <2>3. tabs'[t].token = r.issued /\ tabs'[t].user = tab.user /\ tabs'[t].due
    BY <1>1, <2>2 DEF Entered, Tab
  <2>4. /\ tab.token = None /\ ~tab.due
        /\ \A v \in InFlight : LogsIn(reqs[v], t) => v = s
    BY <1>1, <1>4 DEF TabSound, LogsIn
  <2>5. tab.user = None /\ \A v \in InFlight : ~Asks(reqs[v], t)
    BY <2>4 DEF TabSound
  <2>6. \A v \in InFlight' : ~Asks(reqs'[v], t) /\ ~LogsIn(reqs'[v], t)
    BY <1>2, <2>4, <2>5
  <2> QED BY <1>1, <1>4, <2>2, <2>3, <2>5, <2>6 DEF TabSound, Shaped
<1>5. CASE ~EndsSession(r) /\ ~(r.kind = "login" /\ r.answer = "ok")
  <2>1. /\ UNCHANGED <<stored, mixed>>
        /\ tabs' = IF Wanted(r) THEN [tabs EXCEPT ![t] = Settled(r, @)] ELSE tabs
    BY <1>5 DEF Receive
  <2>2. CASE ~Wanted(r)
    <3>1. NoneNew(t)
      BY <1>1 DEF NoneNew, Follows
    <3> QED BY <2>1, <2>2, <3>1, TabKept
  <2>3. CASE Wanted(r)
    <3>1. Asks(r, t) /\ tabs' = [tabs EXCEPT ![t] = Settled(r, tab)]
      BY <2>1, <2>3 DEF Asks
    <3>2. tabs'[t] = Settled(r, tab)
      BY <1>1, <3>1
    <3>3. /\ tabs'[t].token = tab.token /\ tabs'[t].due = tab.due
          /\ tabs'[t].user = tab.user \/ tabs'[t].user = [id |-> r.token.sub, may |-> r.seen]
      BY <1>1, <3>2 DEF Settled, Tab
    <3>4. ~(tab.due <=> tab.token # None)
      BY <1>1, <3>1 DEF TabSound
    <3>5. tab.token # None /\ t \notin mixed => r.token = tab.token /\ ~tab.due
      BY <1>1, <3>1, <3>4 DEF TabSound, Tab
    <3>6. \A v \in InFlight' : LogsIn(reqs'[v], t) => LogsIn(reqs[v], t) /\ v \in InFlight
      BY <1>2
    <3>7. \A v \in InFlight' : Asks(reqs'[v], t) =>
             Asks(reqs[v], t) /\ v \in InFlight /\ reqs'[v].token = reqs[v].token
      BY <1>2
    <3>8. \A v \in InFlight' : ~LogsIn(reqs'[v], t)
      BY <1>1, <3>4, <3>6 DEF TabSound, Tab
    <3>9. tab.token # None /\ t \notin mixed /\ tabs'[t].user # None =>
             tabs'[t].user.id = tab.token.sub
      BY <3>3, <3>5 DEF TabSound
    <3>10. tab.token # None /\ t \notin mixed =>
             /\ tab.token = stored
             /\ \A v \in InFlight' : Asks(reqs'[v], t) => reqs'[v].token = tab.token
      BY <3>5, <3>7 DEF TabSound
    <3> QED BY <1>1, <2>1, <3>3, <3>4, <3>8, <3>9, <3>10 DEF TabSound, Tab
  <2> QED BY <2>2, <2>3
<1> QED BY <1>3, <1>4, <1>5

\* Every step leaves every tab sound.
LEMMA TabStep ==
    ASSUME Typed, TabsSound, [Next]_vars
    PROVE  TabsSound'
<1>1. CASE UNCHANGED vars
  BY <1>1 DEF vars, TabsSound, TabSound, InFlight
<1>2. CASE Next
  <2> SUFFICES ASSUME NEW t \in Tabs PROVE TabSound(t)'
    BY DEF TabsSound
  <2>1. TabSound(t)
    BY DEF TabsSound
  <2>2. ASSUME NEW v \in Tabs, Mount(v) \/ RunEffect(v) \/ MakeCall(v) \/ Logout(v)
                 \/ \E u \in Users, right \in BOOLEAN : SubmitLogin(v, u, right)
        PROVE  TabSound(t)'
    <3>1. CASE v = t
      BY <2>1, <2>2, <3>1, OwnSteps
    <3>2. CASE v # t /\ MakeCall(v)
      <4>1. PICK s \in Slots : reqs' = [reqs EXCEPT ![s] = Sent(v, "call", None, FALSE)]
        BY <3>2 DEF MakeCall
      <4>2. ASSUME NEW kind \in Kinds, NEW name \in Users \union {None}, NEW right \in BOOLEAN,
                   kind = "call", reqs' = [reqs EXCEPT ![s] = Sent(v, kind, name, right)]
            PROVE  NoneNew(t)
        BY <4>2, SentFollows
      <4>3. NoneNew(t)
        BY <4>1, <4>2 DEF Kinds
      <4> QED BY <2>1, <3>2, <4>3, TabKept DEF MakeCall
    <3> QED BY <2>1, <2>2, <3>1, <3>2, OthersTabs
  <2>3. ASSUME NEW s \in Slots, Receive(s) PROVE TabSound(t)'
    <3>1. reqs[s].tab \in Tabs
      BY <2>3 DEF Receive, InFlight, Typed, TypeOK, Request
    <3> QED BY <2>1, <2>3, <3>1, ReceiveTab, OthersTabs
  <2>4. CASE \/ \E s \in Slots : Work(s)
             \/ \E u \in Changing : ChangeUser(u)
             \/ Tick \/ Restart
    BY <2>1, <2>4, WorldTabs
  <2> QED BY <1>2, <2>2, <2>3, <2>4 DEF Next, Browser
<1> QED BY <1>1, <1>2

\* A tab shows the user its token names and holds the stored token, whatever answers
\* come late or out of order and however often it logs out and in, as long as no
\* other tab has written the storage: for every number of tabs and requests.
THEOREM TabsShowTheirUsers == Spec => []TabShowsItsUser
<1>1. Init => TabsSound
  BY DEF Init, TabsSound, TabSound, InFlight
<1>2. Typed /\ TabsSound => TabShowsItsUser
  BY DEF Typed, TypeOK, Tab, TabsSound, TabSound, TabShowsItsUser
<1> QED BY <1>1, <1>2, TabStep, TypedHolds, PTL DEF Spec
-----------------------------------------------------------------------------
(* A good token is kept *)

\* A token that no request will be let through with, now or later.
Spent(token) == token.key < key \/ token.exp <= now \/ ~users[token.sub].exists

\* No token is signed with a key to come, and who is sent away for good carried a
\* spent token, or none.
Dated(r) ==
    /\ r.token # None => r.token.key <= key
    /\ r.issued # None => r.issued.key <= key
    /\ EndsSession(r) /\ r.token # None => Spent(r.token)

AllDated ==
    /\ stored # None => stored.key <= key
    /\ \A s \in InFlight : Dated(reqs[s])

\* Keys follow each other, the clock does not go back, and no user comes back.
LEMMA ServerAdvances ==
    ASSUME Typed, Next
    PROVE  /\ key' \in Int /\ now' \in Int /\ key <= key' /\ now <= now'
           /\ \A u \in Users : users'[u].exists => users[u].exists
<1>1. key \in Int /\ now \in Int /\ users \in [Users -> User]
  BY SessionsAssumption DEF SessionsAssumption, Typed, TypeOK
<1>2. ASSUME UNCHANGED server
      PROVE  /\ key' \in Int /\ now' \in Int /\ key <= key' /\ now <= now'
             /\ \A u \in Users : users'[u].exists => users[u].exists
  BY <1>1, <1>2 DEF server
<1>3. CASE Browser
  <2>1. UNCHANGED server
    BY <1>3 DEF Browser, Mount, RunEffect, SubmitLogin, MakeCall, Logout, Receive
  <2> QED BY <1>2, <2>1
<1>4. CASE \E s \in Slots : Work(s)
  <2>1. UNCHANGED server
    BY <1>4 DEF Work, ReadAccount, Issue, Authenticate, Handle, Fail
  <2> QED BY <1>2, <2>1
<1>5. ASSUME NEW u \in Changing, ChangeUser(u)
      PROVE  /\ key' \in Int /\ now' \in Int /\ key <= key' /\ now <= now'
             /\ \A v \in Users : users'[v].exists => users[v].exists
  <2>1. users[u].exists /\ UNCHANGED <<key, now>>
    BY <1>5 DEF ChangeUser
  <2>2. \A v \in Users : v = u \/ users'[v] = users[v]
    BY <1>1, <1>5 DEF ChangeUser
  <2> QED BY <1>1, <2>1, <2>2
<1>6. CASE Tick
  BY <1>1, <1>6 DEF Tick
<1>7. CASE Restart
  BY <1>1, <1>7 DEF Restart
<1> QED BY <1>3, <1>4, <1>5, <1>6, <1>7 DEF Next

\* What was spent stays so, and what was signed was signed before.
LEMMA StillDated ==
    ASSUME Typed, Next, NEW r \in Request, Dated(r)
    PROVE  Dated(r)'
<1>1. key \in Int /\ now \in Int
  BY SessionsAssumption DEF SessionsAssumption, Typed, TypeOK
<1>2. ASSUME NEW token \in Token
      PROVE  /\ token.key <= key => token.key <= key'
             /\ Spent(token) => Spent(token)'
  <2>1. token.key \in Int /\ token.exp \in Int /\ token.sub \in Users
    BY TtlNat, SessionsAssumption DEF SessionsAssumption, Token
  <2> QED BY <1>1, <2>1, ServerAdvances DEF Spent
<1>3. r.token \in Token \union {None} /\ r.issued \in Token \union {None}
  BY DEF Request
<1> QED BY <1>2, <1>3 DEF Dated, EndsSession

\* The server sends only those away for good that carry a spent token, or none.
LEMMA WorkDated ==
    ASSUME Typed, NEW s \in Slots, Work(s), Dated(reqs[s])
    PROVE  Dated(reqs[s])'
<1> DEFINE r == reqs[s]
<1>1. /\ r \in Request /\ Shaped(r) /\ r.answer = "none" /\ UNCHANGED server /\ TypeOK
      /\ reqs \in [Slots -> Request \union {None}]
  BY DEF Work, ReadAccount, Issue, Authenticate, Handle, Fail, InFlight, Typed, TypeOK
<1>2. key \in Int /\ now \in Int
  BY <1>1, SessionsAssumption DEF SessionsAssumption, TypeOK
<1>3. ASSUME NEW answer \in Answers \ {"none"}, Reply(s, answer),
             r.kind = "me" /\ answer = "ok" => r.seen # None,
             answer = "401" /\ r.kind # "login" /\ r.token # None => Spent(r.token)
      PROVE  Dated(reqs[s])'
  <2> DEFINE e == Answered(r, answer)
  <2>1. /\ e.kind = r.kind /\ e.token = r.token /\ e.answer = answer
        /\ e.issued # None => e.issued.key = key
    BY <1>1, <1>3, AnsweredRequest
  <2>2. reqs'[s] = e
    BY <1>1, <1>3 DEF Reply
  <2> HIDE DEF e
  <2> QED BY <1>1, <1>2, <1>3, <2>1, <2>2 DEF Dated, EndsSession, Spent, server
<1>4. ASSUME NEW x \in BOOLEAN, reqs' = [reqs EXCEPT ![s].seen = x]
      PROVE  Dated(reqs[s])'
  <2> DEFINE e == [r EXCEPT !.seen = x]
  <2>1. /\ e.kind = r.kind /\ e.token = r.token /\ e.answer = r.answer
        /\ e.issued = r.issued
    BY <1>1, <1>4, SeenFields
  <2>2. reqs'[s] = e
    BY <1>1, <1>4
  <2> HIDE DEF e
  <2> QED BY <1>1, <2>1, <2>2 DEF Dated, EndsSession, Spent, server
<1>5. CASE ReadAccount(s)
  <2>1. r.kind = "login" /\ users[r.name] \in User
    BY <1>1, <1>5 DEF ReadAccount, Shaped, Request, TypeOK
  <2>2. \/ reqs' = [reqs EXCEPT ![s].seen = users[r.name].active] \/ Reply(s, "401")
    BY <1>5 DEF ReadAccount
  <2> QED BY <1>3, <1>4, <2>1, <2>2 DEF Answers, User
<1>6. CASE Issue(s)
  <2>1. r.kind = "login" /\ (Reply(s, "401") \/ Reply(s, "ok") \/ Reply(s, "403"))
    BY <1>6 DEF Issue
  <2> QED BY <1>3, <2>1 DEF Answers
<1>7. CASE Authenticate(s)
  <2> DEFINE u == users[r.token.sub]
  <2>1. CASE ~Valid(r.token, key, now)
    <3>1. Reply(s, "401")
      BY <1>7, <2>1 DEF Authenticate
    <3>2. r.token # None => r.token \in Token /\ r.token.key <= key
      BY <1>1 DEF Dated, Request
    <3>3. r.token # None => r.token.key \in Int /\ r.token.exp \in Int
      BY <3>2, TtlNat, SessionsAssumption DEF SessionsAssumption, Token
    <3>4. r.token # None => Spent(r.token)
      BY <1>2, <2>1, <3>2, <3>3 DEF Valid, Spent
    <3> QED BY <1>3, <3>1, <3>4 DEF Answers
  <2>2. CASE Valid(r.token, key, now) /\ Standing(u) # "ok"
    <3>1. \/ Reply(s, "401") /\ Spent(r.token)
          \/ Reply(s, "403")
      BY <1>7, <2>2 DEF Authenticate, Standing, Spent
    <3> QED BY <1>3, <3>1 DEF Answers
  <2>3. CASE Valid(r.token, key, now) /\ Standing(u) = "ok"
    <3>1. reqs' = [reqs EXCEPT ![s].seen = u.may]
      BY <1>7, <2>3 DEF Authenticate
    <3>2. u.may \in BOOLEAN
      BY <1>1, <2>3 DEF Valid, Request, Token, TypeOK, User
    <3> QED BY <1>4, <3>1, <3>2
  <2> QED BY <2>1, <2>2, <2>3
<1>8. CASE Handle(s)
  <2>1. r.seen # None /\ (Reply(s, "403") \/ Reply(s, "ok"))
    BY <1>8 DEF Handle
  <2> QED BY <1>3, <2>1 DEF Answers
<1>9. CASE Fail(s)
  BY <1>3, <1>9 DEF Fail, Answers
<1> QED BY <1>5, <1>6, <1>7, <1>8, <1>9 DEF Work

\* Every step leaves requests and storage dated.
LEMMA DatedStep ==
    ASSUME Typed, AllDated, [Next]_vars
    PROVE  AllDated'
<1>1. CASE UNCHANGED vars
  BY <1>1 DEF AllDated, InFlight, Dated, Spent, EndsSession, vars, server
<1>2. CASE Next
  <2>1. key \in Int /\ key' \in Int /\ key <= key'
    BY <1>2, ServerAdvances, SessionsAssumption DEF SessionsAssumption, Typed, TypeOK
  <2>2. \A token \in Token : token.key \in Int
    BY SessionsAssumption DEF SessionsAssumption, Token
  <2>3. stored' # None => stored'.key <= key'
    <3>1. \/ stored' = stored \/ stored' = None
          \/ \E s \in InFlight : stored' = reqs[s].issued
      BY <1>2 DEF Next, Browser, Mount, RunEffect, SubmitLogin, MakeCall, Logout, ClearSession,
                  Receive, Work, ReadAccount, Issue, Authenticate, Handle, Fail,
                  ChangeUser, Tick, Restart
    <3>2. stored \in Token \union {None}
      BY DEF Typed, TypeOK
    <3>3. \A s \in InFlight : reqs[s].issued \in Token \union {None}
      BY DEF InFlight, Typed, TypeOK, Request
    <3> QED BY <2>1, <2>2, <3>1, <3>2, <3>3 DEF AllDated, Dated
  <2>4. ASSUME NEW s \in Slots, reqs'[s] # None PROVE Dated(reqs[s])'
    <3>1. reqs[s] # None => Dated(reqs[s]) /\ reqs[s] \in Request /\ Shaped(reqs[s])
      BY DEF AllDated, InFlight, Typed, TypeOK
    <3>2. CASE reqs[s] # None /\ Same(reqs'[s], reqs[s])
      <4> DEFINE r == reqs[s]
      <4>1. \A e \in Request : Dated(e) => Dated(e)'
        BY <1>2, StillDated
      <4>2. Dated(reqs'[s])
        BY <3>1, <3>2 DEF Same, Dated, EndsSession
      <4>3. reqs'[s] \in Request
        BY <3>2 DEF Same
      <4> QED BY <2>1, <4>1, <4>2, <4>3 DEF Dated, EndsSession, Spent
    <3>3. CASE UNCHANGED server /\ Fresh(reqs'[s])
      BY <3>3 DEF Fresh, AllDated, Dated, EndsSession, server
    <3>4. CASE Work(s)
      BY <3>1, <3>4, WorkDated
      DEF Work, ReadAccount, Issue, Authenticate, Handle, Fail, InFlight
    <3>5. CASE /\ reqs[s] # None /\ reqs[s].answer = "none"
               /\ reqs'[s] = Answered(reqs[s], "error")
      <4>1. "error" \in Answers \ {"none"}
        BY DEF Answers
      <4>2. /\ reqs'[s].answer = "error" /\ reqs'[s].token = reqs[s].token
            /\ reqs'[s].issued # None => reqs'[s].issued.key = key
        BY <3>1, <3>5, <4>1, AnsweredRequest DEF Typed
      <4>3. reqs[s].token # None => reqs[s].token.key \in Int /\ reqs[s].token.key <= key
        BY <2>2, <3>1, <3>5 DEF Dated, Request
      <4> QED BY <2>1, <4>2, <4>3 DEF Dated, EndsSession
    <3> QED BY <1>2, <2>4, <3>2, <3>3, <3>4, <3>5, RequestStep
  <2> QED BY <2>3, <2>4 DEF AllDated, InFlight
<1> QED BY <1>1, <1>2

\* The storage is emptied under a good token by a logout, or because a request was
\* refused that carried another token.
LEMMA KeptStep ==
    ASSUME Typed, AllDated, Next, stored # None, stored' = None,
           Valid(stored, key, now), users[stored.sub].exists
    PROVE  \/ \E t \in Tabs : Logout(t)
           \/ \E s \in InFlight : /\ reqs'[s] = None /\ reqs[s].answer = "401"
                                  /\ reqs[s].kind # "login" /\ reqs[s].token # stored
<1>1. \/ \E t \in Tabs : Logout(t)
      \/ \E s \in Slots : Receive(s)
  BY DEF Next, Browser, Mount, RunEffect, SubmitLogin, MakeCall, Work, ReadAccount, Issue,
         Authenticate, Handle, Fail, ChangeUser, Tick, Restart
<1>2. ASSUME NEW s \in Slots, Receive(s)
      PROVE  \E v \in InFlight : /\ reqs'[v] = None /\ reqs[v].answer = "401"
                                 /\ reqs[v].kind # "login" /\ reqs[v].token # stored
  <2>1. /\ s \in InFlight /\ Shaped(reqs[s]) /\ Dated(reqs[s])
        /\ reqs'[s] = None
    BY <1>2 DEF Receive, Typed, TypeOK, AllDated
  <2>2. EndsSession(reqs[s])
    BY <1>2, <2>1 DEF Receive, Shaped
  <2>3. ~Spent(stored)
    <3>1. /\ stored \in Token /\ now \in Int /\ key \in Int
      BY SessionsAssumption DEF SessionsAssumption, Typed, TypeOK
    <3>2. stored.exp \in Int /\ stored.key \in Int
      BY <3>1, TtlNat, SessionsAssumption DEF SessionsAssumption, Token
    <3> QED BY <3>1, <3>2 DEF Valid, Spent
  <2>4. reqs[s].token # stored
    BY <2>1, <2>2, <2>3 DEF Dated
  <2> QED BY <2>1, <2>2, <2>4 DEF EndsSession
<1> QED BY <1>1, <1>2

\* A token in good standing leaves the storage by a logout alone, or by the late
\* refusal of a request that carried another one, for every lifetime of tokens and
\* any number of tabs, requests, restarts and changed accounts.
THEOREM GoodTokenAlwaysKept == Spec => GoodTokenIsKept
<1>1. Init => AllDated
  BY DEF Init, AllDated, InFlight
<1>2. ASSUME Typed, AllDated, [Next]_vars
      PROVE  [stored # None /\ stored' = None /\ Valid(stored, key, now) /\ users[stored.sub].exists
              => \/ \E t \in Tabs : Logout(t)
                 \/ \E s \in InFlight : /\ reqs'[s] = None /\ reqs[s].answer = "401"
                                        /\ reqs[s].kind # "login" /\ reqs[s].token # stored]_vars
  BY <1>2, KeptStep
<1> QED BY <1>1, <1>2, DatedStep, TypedHolds, PTL DEF Spec, GoodTokenIsKept
=============================================================================
