------------------------------ MODULE Sessions ------------------------------
(***************************************************************************)
(* Sessions of the panel, from the login form to the middleware: stateless *)
(* signed tokens, the user row looked up again for every request, and the  *)
(* browser that keeps one token for all its tabs.  Requests travel, are    *)
(* worked on and are answered in any order; accounts, the clock and the    *)
(* signing key change meanwhile.                                           *)
(***************************************************************************)
EXTENDS Integers, FiniteSets

CONSTANTS
    Users, Tabs,
    Slots,        \* bound: requests in flight
    Changing,     \* bound: the users whose accounts are changed
    Persistent,   \* AUTH_TOKEN_SECRET is set
    TTL,          \* AUTH_TOKEN_TTL_HOURS
    DefaultTTL,
    MaxTime, MaxKey,    \* bounds: the clock, starts with a new key
    None

ASSUME SessionsAssumption ==
    /\ Persistent \in BOOLEAN /\ TTL \in Int /\ DefaultTTL \in Nat \ {0}
    /\ Changing \subseteq Users /\ None \notin Users \union Tabs /\ MaxTime \in Nat /\ MaxKey \in Nat

VARIABLES
    users,    \* the table of users
    key,      \* the signing key of the running process
    now,
    stored,   \* the token in localStorage
    tabs,     \* AuthProvider's state in each tab
    reqs,     \* requests in flight
    mixed     \* tabs whose storage another tab has written (history)

server == <<users, key, now>>
vars == <<server, stored, tabs, reqs, mixed>>

-----------------------------------------------------------------------------
(* Data *)

\* `may': the permission that calls ask for, by role, directly or as wildcard.
User == [exists: BOOLEAN, active: BOOLEAN, may: BOOLEAN]

ttl == IF TTL <= 0 THEN DefaultTTL ELSE TTL

Token == [sub: Users, key: 0..MaxKey, exp: 0..(MaxTime + ttl)]

Shown == [id: Users, may: BOOLEAN]
Tab == [token: Token \union {None}, user: Shown \union {None},
        loading: BOOLEAN, due: BOOLEAN]      \* due: the token effect has to run

Kinds   == {"login", "me", "call"}
Answers == {"none", "ok", "401", "403", "error"}

\* `fit' and `unfit': at some moment since it was sent the request deserved the
\* one answer, or the other (history).
Request ==
    [tab: Tabs, kind: Kinds, token: Token \union {None},
     name: Users \union {None}, right: BOOLEAN,        \* credentials
     live: BOOLEAN,                                    \* the effect that sent it stands
     seen: BOOLEAN \union {None},       \* of the row as read: active, or may
     answer: Answers, issued: Token \union {None},
     fit: BOOLEAN, unfit: BOOLEAN]

ASSUME NoneIsNoRecord ==
    None \notin BOOLEAN \union Token \union Shown \union Request

InFlight == {s \in Slots : reqs[s] # None}

\* Validate.
Valid(token, k, n) == token # None /\ token.key = k /\ n < token.exp

Deserves(r, us, k, n) ==
    IF r.kind = "login" THEN r.right /\ us[r.name].exists /\ us[r.name].active
    ELSE /\ r.token # None /\ r.token.key = k /\ n < r.token.exp
         /\ us[r.token.sub].exists /\ us[r.token.sub].active
         /\ r.kind = "call" => us[r.token.sub].may

\* The requests on their way see the server change.
Watched(us, k, n) ==
    [s \in Slots |->
       IF reqs[s] = None \/ reqs[s].answer # "none" THEN reqs[s]
       ELSE [reqs[s] EXCEPT !.fit = @ \/ Deserves(reqs[s], us, k, n),
                            !.unfit = @ \/ ~Deserves(reqs[s], us, k, n)]]

-----------------------------------------------------------------------------
(* The browser *)

\* The request interceptor adds the stored token, to a login too.
Sent(t, kind, name, right) ==
    LET r == [tab |-> t, kind |-> kind, token |-> stored, name |-> name, right |-> right,
              live |-> TRUE, seen |-> None, answer |-> "none", issued |-> None,
              fit |-> FALSE, unfit |-> FALSE]
        d == Deserves(r, users, key, now)
    IN  [r EXCEPT !.fit = d, !.unfit = ~d]

\* What storage holds is news to the other tabs that have a token of their own.
Others(t) == {v \in Tabs \ {t} : tabs[v].token # None}

\* A tab mounts, or is loaded anew: nobody waits for its old requests.
Mount(t) ==
    /\ tabs' = [tabs EXCEPT ![t] = [token |-> stored, user |-> None,
                                    loading |-> stored # None, due |-> TRUE]]
    /\ reqs' = [s \in Slots |-> IF s \in InFlight /\ reqs[s].tab = t
                                  THEN None ELSE reqs[s]]
    /\ mixed' = mixed \ {t}
    /\ UNCHANGED <<server, stored>>

\* The effect on the token: the one before is cleaned up, and /auth/me is asked.
RunEffect(t) ==
    /\ tabs[t].due
    /\ LET old == [s \in Slots |->
                     IF s \in InFlight /\ reqs[s].tab = t /\ reqs[s].kind = "me"
                       THEN [reqs[s] EXCEPT !.live = FALSE] ELSE reqs[s]]
       IN  IF tabs[t].token = None
             THEN /\ tabs' = [tabs EXCEPT ![t].due = FALSE, ![t].user = None,
                                          ![t].loading = FALSE]
                  /\ reqs' = old
             ELSE \E s \in Slots \ InFlight :
                    /\ tabs' = [tabs EXCEPT ![t].due = FALSE, ![t].loading = TRUE]
                    /\ reqs' = [old EXCEPT ![s] = Sent(t, "me", None, FALSE)]
    /\ UNCHANGED <<server, stored, mixed>>

\* The login form is shown without a token, and is submitted once at a time.
SubmitLogin(t, u, right) ==
    /\ tabs[t].token = None /\ ~tabs[t].due
    /\ \A s \in InFlight : ~(reqs[s].tab = t /\ reqs[s].kind = "login")
    /\ \E s \in Slots \ InFlight : reqs' = [reqs EXCEPT ![s] = Sent(t, "login", u, right)]
    /\ UNCHANGED <<server, stored, tabs, mixed>>

\* A page of the panel asks for something.
MakeCall(t) ==
    /\ tabs[t].token # None /\ ~tabs[t].due
    /\ \E s \in Slots \ InFlight : reqs' = [reqs EXCEPT ![s] = Sent(t, "call", None, FALSE)]
    /\ UNCHANGED <<server, stored, tabs, mixed>>

\* The state a tab is left in by clearSession, and by a login.
Cleared(t) == [tabs[t] EXCEPT !.token = None, !.user = None, !.loading = FALSE,
                              !.due = @ \/ tabs[t].token # None]
Entered(t, token) == [tabs[t] EXCEPT !.token = token, !.due = TRUE]

ClearSession(t) ==
    /\ stored' = None
    /\ tabs' = [tabs EXCEPT ![t] = Cleared(t)]
    /\ mixed' = (mixed \ {t}) \union Others(t)

Logout(t) ==
    /\ tabs[t].token # None /\ ~tabs[t].due
    /\ ClearSession(t)
    /\ UNCHANGED <<server, reqs>>

\* The response interceptor: a 401 to anything but a login.
EndsSession(r) == r.answer = "401" /\ r.kind # "login"

\* Seeded fault: the answer is used although the effect was cleaned up.
WantedAlways(r) == r.kind = "me"

Wanted(r) == r.kind = "me" /\ r.live

\* Seeded fault: nothing is done after a failure.
SettledOnSuccess(r, tab) ==
    IF r.answer # "ok" THEN tab
    ELSE [tab EXCEPT !.user = [id |-> r.token.sub, may |-> r.seen], !.loading = FALSE]

\* Seeded fault: whatever is answered is taken for a user.
SettledUnchecked(r, tab) ==
    [tab EXCEPT !.user = [id |-> r.token.sub, may |-> r.seen], !.loading = FALSE]

\* then, catch and finally of getMe.
Settled(r, tab) ==
    IF r.answer = "ok" THEN [tab EXCEPT !.user = [id |-> r.token.sub, may |-> r.seen],
                                        !.loading = FALSE]
                       ELSE [tab EXCEPT !.loading = FALSE]

\* An answer reaches its tab.
Receive(s) ==
    LET r == reqs[s]
        t == r.tab
    IN  /\ s \in InFlight /\ r.answer # "none"
        /\ reqs' = [reqs EXCEPT ![s] = None]
        /\ IF EndsSession(r) THEN ClearSession(t)
           ELSE IF r.kind = "login" /\ r.answer = "ok"
             THEN /\ stored' = r.issued
                  /\ tabs' = [tabs EXCEPT ![t] = Entered(t, r.issued)]
                  /\ mixed' = (mixed \ {t}) \union Others(t)
           ELSE /\ tabs' = IF Wanted(r) THEN [tabs EXCEPT ![t] = Settled(r, @)] ELSE tabs
                /\ UNCHANGED <<stored, mixed>>
        /\ UNCHANGED server

-----------------------------------------------------------------------------
(* The server *)

\* An answer, and of its request only what still matters to the browser and to
\* the judgement of the answer.
Answered(r, answer) ==
    [r EXCEPT !.answer = answer, !.name = None, !.right = FALSE,
              !.issued = IF answer = "ok" /\ r.kind = "login"
                           THEN [sub |-> r.name, key |-> key, exp |-> now + ttl] ELSE None,
              !.seen = IF answer = "ok" /\ r.kind = "me" THEN @ ELSE None,
              !.fit = @ /\ answer = "ok",
              !.unfit = @ /\ answer \in {"401", "403"}]

Reply(s, answer) ==
    reqs' = [reqs EXCEPT ![s] = Answered(@, answer)]

\* Login looks the account up and takes its time over the password.
ReadAccount(s) ==
    LET r == reqs[s]
        u == users[r.name]
    IN  /\ s \in InFlight /\ r.kind = "login" /\ r.answer = "none" /\ r.seen = None
        /\ IF u.exists THEN reqs' = [reqs EXCEPT ![s].seen = u.active]
                       ELSE Reply(s, "401")
        /\ UNCHANGED <<server, stored, tabs, mixed>>

Issue(s) ==
    LET r == reqs[s]
    IN  /\ s \in InFlight /\ r.kind = "login" /\ r.answer = "none" /\ r.seen # None
        /\ IF ~r.right THEN Reply(s, "401")
           ELSE Reply(s, IF r.seen THEN "ok" ELSE "403")
        /\ UNCHANGED <<server, stored, tabs, mixed>>

\* Seeded fault: the account's state is not looked at.
StandingAny(u) == IF ~u.exists THEN "401" ELSE "ok"

\* Seeded fault: a disabled account is answered like a bad token.
StandingUnknown(u) == IF u.exists /\ u.active THEN "ok" ELSE "401"

\* What Auth makes of the row it loads.
Standing(u) == IF ~u.exists THEN "401" ELSE IF ~u.active THEN "403" ELSE "ok"

\* Auth: the token first, then the row, with its permissions, for this request.
Authenticate(s) ==
    LET r == reqs[s]
        u == users[r.token.sub]
    IN  /\ s \in InFlight /\ r.kind # "login" /\ r.answer = "none" /\ r.seen = None
        /\ IF ~Valid(r.token, key, now) THEN Reply(s, "401")
           ELSE IF Standing(u) # "ok" THEN Reply(s, Standing(u))
           ELSE reqs' = [reqs EXCEPT ![s].seen = u.may]
        /\ UNCHANGED <<server, stored, tabs, mixed>>

\* RequirePermission and the handler go by what Auth has read.
Handle(s) ==
    LET r == reqs[s]
    IN  /\ s \in InFlight /\ r.kind # "login" /\ r.answer = "none" /\ r.seen # None
        /\ Reply(s, IF r.kind = "call" /\ ~r.seen THEN "403" ELSE "ok")
        /\ UNCHANGED <<server, stored, tabs, mixed>>

\* A connection breaks, or the database fails.
Fail(s) ==
    /\ s \in InFlight /\ reqs[s].answer = "none"
    /\ Reply(s, "error")
    /\ UNCHANGED <<server, stored, tabs, mixed>>

\* UserHandler, seen from here; a deleted id does not come back.
ChangeUser(u) ==
    /\ users[u].exists
    /\ \E row \in {[users[u] EXCEPT !.active = ~@], [users[u] EXCEPT !.may = ~@],
                   [exists |-> FALSE, active |-> FALSE, may |-> FALSE]} :
         users' = [users EXCEPT ![u] = row]
    /\ reqs' = Watched(users', key, now)
    /\ UNCHANGED <<key, now, stored, tabs, mixed>>

Tick ==
    /\ now < MaxTime /\ now' = now + 1
    /\ reqs' = Watched(users, key, now')
    /\ UNCHANGED <<users, key, stored, tabs, mixed>>

\* The process starts again; without a secret it signs with a new key.
Restart ==
    /\ key' = IF Persistent THEN key ELSE key + 1
    /\ key' <= MaxKey
    /\ reqs' = [s \in Slots |-> IF s \in InFlight /\ reqs[s].answer = "none"
                                  THEN Answered(reqs[s], "error") ELSE reqs[s]]
    /\ UNCHANGED <<users, now, stored, tabs, mixed>>

-----------------------------------------------------------------------------

Init ==
    /\ users = [u \in Users |-> [exists |-> TRUE, active |-> TRUE, may |-> TRUE]]
    /\ key = 0 /\ now = 0 /\ stored = None
    /\ tabs = [t \in Tabs |-> [token |-> None, user |-> None, loading |-> FALSE, due |-> FALSE]]
    /\ reqs = [s \in Slots |-> None]
    /\ mixed = {}

Browser ==
    \/ \E t \in Tabs : \/ Mount(t) \/ RunEffect(t) \/ MakeCall(t) \/ Logout(t)
                       \/ \E u \in Users, right \in BOOLEAN : SubmitLogin(t, u, right)
    \/ \E s \in Slots : Receive(s)

Work(s) == ReadAccount(s) \/ Issue(s) \/ Authenticate(s) \/ Handle(s) \/ Fail(s)

Next ==
    \/ Browser
    \/ \E s \in Slots : Work(s)
    \/ \E u \in Changing : ChangeUser(u)
    \/ Tick \/ Restart

Spec == Init /\ [][Next]_vars

\* Effects run, and what is sent is worked on, answered or given up, and received.
FairSpec ==
    /\ Spec
    /\ \A t \in Tabs : SF_vars(RunEffect(t))
    /\ \A s \in Slots : WF_vars(Work(s)) /\ WF_vars(Receive(s))

-----------------------------------------------------------------------------
(* Properties *)

TypeOK ==
    /\ users \in [Users -> User]
    /\ key \in 0..MaxKey /\ now \in 0..MaxTime
    /\ stored \in Token \union {None}
    /\ tabs \in [Tabs -> Tab]
    /\ reqs \in [Slots -> Request \union {None}]
    /\ mixed \subseteq Tabs

\* A request is let through only if at some moment since it was sent its token was
\* good and its user active and permitted, and refused only if at some moment they
\* were not: whatever was changed, expired or started again while it was under way.
AnswersAreFair ==
    \A s \in InFlight :
      /\ reqs[s].answer = "ok" => reqs[s].fit
      /\ reqs[s].answer \in {"401", "403"} => reqs[s].unfit

\* A tab shows the user its token names, whatever late answers to earlier sessions
\* arrive, as long as no other tab has changed the token under it.
TabShowsItsUser ==
    \A t \in Tabs \ mixed :
      /\ tabs[t].token # None => tabs[t].token = stored
      /\ ~tabs[t].due /\ tabs[t].user # None =>
           tabs[t].token # None /\ tabs[t].user.id = tabs[t].token.sub

\* A token in good standing leaves the storage by a logout alone, or by the late
\* refusal of a request that carried another one.
GoodTokenIsKept ==
    [][stored # None /\ stored' = None /\ Valid(stored, key, now) /\ users[stored.sub].exists
       => \/ \E t \in Tabs : Logout(t)
          \/ \E s \in InFlight : /\ reqs'[s] = None /\ reqs[s].answer = "401"
                                 /\ reqs[s].kind # "login" /\ reqs[s].token # stored]_vars

\* No tab is left waiting for /auth/me, if it is not loaded anew all the time.
LoadingEnds ==
    \A t \in Tabs :
      <>[][~Mount(t)]_vars => (tabs[t].loading ~> ~tabs[t].loading)
=============================================================================
