--------------------------------- MODULE Auth ---------------------------------
(***************************************************************************)
(* The account, the mailed links and the sessions of one user.             *)
(*                                                                         *)
(* Each request of the API is a member of Requests while it is in flight;  *)
(* it takes effect with its first read, and each later statement is a step *)
(* of its own.  A transaction is one step.  Names and passwords are not    *)
(* modelled: a login either compares well or is refused.  No code suspends *)
(* a user.  The mailbox, the browsers and the passing of time are          *)
(* external.                                                               *)
(***************************************************************************)
EXTENDS Integers, Sequences, FiniteSets

CONSTANTS
    Requests,     \* requests in flight
    Browsers,     \* browsers, each with its cookies
    MaxLinks,     \* links created
    MaxSessions,  \* sessions created
    MaxRows,      \* links and sessions created together
    MaxTurn       \* rotations of a session's refresh token

ASSUME AuthAssumption ==
    /\ IsFiniteSet(Requests)
    /\ MaxLinks \in Nat
    /\ MaxSessions \in Nat
    /\ MaxRows \in Nat
    /\ MaxTurn \in Nat

VARIABLES
    account,   \* the User row: none, not verified, verified
    links,     \* VerificationToken rows in the order of their creation; "used" is
               \* one with usedAt, "expired" one without
    mailed,    \* those the user was mailed
    row,       \* Session rows; rows are numbered in the order of their creation
    turn,      \* rotations of its token, which say which token is valid
    cookie,    \* per browser: the refresh_token cookie
    pc,        \* per request: the statement it is about to execute
    req,       \* per request: what it works on
    spent,     \* history: links a password was set with
    ended,     \* history: sessions a request has ended
    cut,       \* history: was a request ever cut off just before it made a link?
    orderly    \* history: browsers that waited for each answer and got it

user    == <<account, links, mailed>>
session == <<row, turn, cookie>>
request == <<pc, req>>
history == <<spent, ended, cut, orderly>>
vars    == <<user, session, request, history>>

Sessions == 1 .. MaxSessions
NoCookie == <<>>
Rows == Len(links) + Cardinality({s \in Sessions : row[s] # "none"})
Exists(s) == s \in Sessions /\ row[s] \in {"live", "expired"}
Open(l) == links[l].status = "open"
Labels == {"idle", "createUser", "invalidate", "createLink", "mail", "setPassword",
           "resetPassword", "createSession", "findSession", "rotate",
           "dropSession", "answer"}

Init ==
    /\ account = "none"
    /\ links = <<>>
    /\ mailed = {}
    /\ row = [s \in Sessions |-> "none"]
    /\ turn = [s \in Sessions |-> 0]
    /\ cookie = [b \in Browsers |-> NoCookie]
    /\ pc = [h \in Requests |-> "idle"]
    /\ req = [h \in Requests |-> [op |-> "none"]]
    /\ spent = {}
    /\ ended = {}
    /\ cut = FALSE
    /\ orderly = Browsers

Begin(h, label, what) ==
    /\ pc[h] = "idle"
    /\ pc' = [pc EXCEPT ![h] = label]
    /\ req' = [req EXCEPT ![h] = what]

Proceed(h, label) ==
    /\ pc' = [pc EXCEPT ![h] = label]
    /\ UNCHANGED req

Done(h) ==
    /\ pc' = [pc EXCEPT ![h] = "idle"]
    /\ req' = [req EXCEPT ![h] = [op |-> "none"]]

-----------------------------------------------------------------------------
\* The requests that mail a link.

LinkRequest(h, label, kind) ==
    /\ Begin(h, label, [op |-> "link", kind |-> kind])
    /\ UNCHANGED <<user, session, history>>

Register(h) ==
    \/ account = "none" /\ LinkRequest(h, "createUser", "EMAIL_VERIFY")
    \/ account = "unverified" /\ LinkRequest(h, "invalidate", "EMAIL_VERIFY")

\* Mutation: the links mailed before stay valid.
MutResend(h) == account = "unverified" /\ LinkRequest(h, "createLink", "EMAIL_VERIFY")

Resend(h) == account = "unverified" /\ LinkRequest(h, "invalidate", "EMAIL_VERIFY")

Forgot(h) == account = "verified" /\ LinkRequest(h, "invalidate", "PASSWORD_RESET")

\* If another request has created the user, this one throws (Abort).
CreateUser(h) ==
    /\ pc[h] = "createUser"
    /\ account = "none"
    /\ account' = "unverified"
    /\ Proceed(h, "createLink")
    /\ UNCHANGED <<links, mailed, session, history>>

\* Mutation: the links of the other kind are invalidated too.
MutInvalidate(h) ==
    /\ pc[h] = "invalidate"
    /\ links' = [l \in DOMAIN links |-> [links[l] EXCEPT !.status = "used"]]
    /\ Proceed(h, "createLink")
    /\ UNCHANGED <<account, mailed, session, history>>

Invalidate(h) ==
    /\ pc[h] = "invalidate"
    /\ links' = [l \in DOMAIN links |->
                   IF links[l].kind = req[h].kind
                   THEN [links[l] EXCEPT !.status = "used"] ELSE links[l]]
    /\ Proceed(h, "createLink")
    /\ UNCHANGED <<account, mailed, session, history>>

CreateLink(h) ==
    /\ pc[h] = "createLink"
    /\ Len(links) < MaxLinks
    /\ Rows < MaxRows
    /\ links' = Append(links, [kind |-> req[h].kind, status |-> "open"])
    /\ pc' = [pc EXCEPT ![h] = "mail"]
    /\ req' = [req EXCEPT ![h] = [op |-> "link", kind |-> req[h].kind,
                                  link |-> Len(links) + 1]]
    /\ UNCHANGED <<account, mailed, session, history>>

SendMail(h) ==
    /\ pc[h] = "mail"
    /\ mailed' = mailed \cup {req[h].link}
    /\ Done(h)
    /\ UNCHANGED <<account, links, session, history>>

-----------------------------------------------------------------------------
\* The requests behind the links.

\* validateToken; the two forms send a link only to the endpoint of its kind.
ValidateToken(h, l) ==
    /\ Open(l)
    /\ Begin(h, IF links[l].kind = "EMAIL_VERIFY" THEN "setPassword" ELSE "resetPassword",
             [op |-> "password", link |-> l])
    /\ UNCHANGED <<user, session, history>>

UseLink(l) ==
    /\ links' = [links EXCEPT ![l].status = "used"]
    /\ spent' = spent \cup {l}

SetPassword(h) ==
    /\ pc[h] = "setPassword"
    /\ account' = "verified"
    /\ UseLink(req[h].link)
    /\ Done(h)
    /\ UNCHANGED <<mailed, session, ended, cut, orderly>>

ResetPassword(h) ==
    /\ pc[h] = "resetPassword"
    /\ UseLink(req[h].link)
    /\ row' = [s \in Sessions |-> IF Exists(s) THEN "deleted" ELSE row[s]]
    /\ ended' = ended \cup {s \in Sessions : Exists(s)}
    /\ Done(h)
    /\ UNCHANGED <<account, mailed, turn, cookie, cut, orderly>>

-----------------------------------------------------------------------------
\* The requests of a browser.

InFlight(b) == \E h \in Requests : req[h].op = "session" /\ req[h].browser = b

BrowserRequest(h, b, label, what) ==
    /\ Begin(h, label, what)
    /\ orderly' = IF InFlight(b) THEN orderly \ {b} ELSE orderly
    /\ UNCHANGED <<user, turn, cookie, spent, cut>>

\* What a request of b works on: the session, and the token to be answered.
For(b, s, t) == [op |-> "session", browser |-> b, session |-> s, token |-> t]

\* The password compared well.
Login(h, b) ==
    /\ account = "verified"
    /\ BrowserRequest(h, b, "createSession", For(b, 0, NoCookie))
    /\ UNCHANGED <<row, ended>>

CreateSession(h) ==
    /\ pc[h] = "createSession"
    /\ Rows < MaxRows
    /\ \E s \in Sessions :
         /\ row[s] = "none"
         /\ \A t \in 1 .. s - 1 : row[t] # "none"
         /\ row' = [row EXCEPT ![s] = "live"]
         /\ req' = [req EXCEPT ![h] = For(req[h].browser, s, <<s, 0>>)]
    /\ pc' = [pc EXCEPT ![h] = "answer"]
    /\ UNCHANGED <<user, turn, cookie, history>>

\* The session whose token it is.
Accepts(s, token) == Exists(s) /\ token = <<s, turn[s]>>

\* The token verified: it expires with its session, not after it.
Refresh(h, b) ==
    /\ cookie[b] # NoCookie
    /\ row[cookie[b][1]] # "expired"
    /\ BrowserRequest(h, b, "findSession", For(b, 0, cookie[b]))
    /\ UNCHANGED <<row, ended>>

\* The session may have expired since, or its token may have been rotated.
FindSession(h) ==
    /\ pc[h] = "findSession"
    /\ \E s \in Sessions :
         /\ Accepts(s, req[h].token)
         /\ pc' = [pc EXCEPT ![h] = IF row[s] = "live" THEN "rotate" ELSE "dropSession"]
         /\ req' = [req EXCEPT ![h] = For(req[h].browser, s, NoCookie)]
    /\ UNCHANGED <<user, session, history>>

SessionNotFound(h) ==
    /\ pc[h] = "findSession"
    /\ \A s \in Sessions : ~Accepts(s, req[h].token)
    /\ Done(h)
    /\ UNCHANGED <<user, session, history>>

\* Mutation: a session that is gone is created again.
MutRotate(h) ==
    LET s == req[h].session
    IN /\ pc[h] = "rotate"
       /\ turn[s] < MaxTurn
       /\ row' = [row EXCEPT ![s] = "live"]
       /\ turn' = [turn EXCEPT ![s] = @ + 1]
       /\ pc' = [pc EXCEPT ![h] = "answer"]
       /\ req' = [req EXCEPT ![h].token = <<s, turn[s] + 1>>]
       /\ UNCHANGED <<user, cookie, history>>

\* The update names the row's id: a session that is gone makes it throw (Abort).
Rotate(h) ==
    LET s == req[h].session
    IN /\ pc[h] = "rotate"
       /\ Exists(s)
       /\ turn[s] < MaxTurn
       /\ row' = [row EXCEPT ![s] = "live"]
       /\ turn' = [turn EXCEPT ![s] = @ + 1]
       /\ pc' = [pc EXCEPT ![h] = "answer"]
       /\ req' = [req EXCEPT ![h].token = <<s, turn[s] + 1>>]
       /\ UNCHANGED <<user, cookie, history>>

\* It may have been rotated, and so renewed, since it was found to be expired.
DropSession(h) ==
    LET s == req[h].session
    IN /\ pc[h] = "dropSession"
       /\ Exists(s)
       /\ row' = [row EXCEPT ![s] = "deleted"]
       /\ ended' = ended \cup {s}
       /\ Done(h)
       /\ UNCHANGED <<user, turn, cookie, spent, cut, orderly>>

Logout(h, b) ==
    LET gone == {s \in Sessions : Accepts(s, cookie[b])}
    IN /\ BrowserRequest(h, b, "answer", For(b, 0, NoCookie))
       /\ row' = [s \in Sessions |-> IF s \in gone THEN "deleted" ELSE row[s]]
       /\ ended' = ended \cup gone

\* Mutation: a browser keeps the cookie it has.
MutAnswer(h) ==
    LET b == req[h].browser
    IN /\ pc[h] = "answer"
       /\ cookie' = [cookie EXCEPT ![b] = IF cookie[b] # NoCookie /\ req[h].token # NoCookie
                                          THEN @ ELSE req[h].token]
       /\ Done(h)
       /\ UNCHANGED <<user, row, turn, history>>

\* The answer, with its Set-Cookie, arrives.
Answer(h) ==
    /\ pc[h] = "answer"
    /\ cookie' = [cookie EXCEPT ![req[h].browser] = req[h].token]
    /\ Done(h)
    /\ UNCHANGED <<user, row, turn, history>>

-----------------------------------------------------------------------------

\* A call throws, the process dies, or the answer is lost.
Abort(h) ==
    /\ pc[h] # "idle"
    /\ cut' = (cut \/ pc[h] = "createLink")
    /\ orderly' = IF req[h].op = "session" THEN orderly \ {req[h].browser} ELSE orderly
    /\ Done(h)
    /\ UNCHANGED <<user, session, spent, ended>>

LinkExpires(l) ==
    /\ Open(l)
    /\ links' = [links EXCEPT ![l].status = "expired"]
    /\ UNCHANGED <<account, mailed, session, request, history>>

SessionExpires(s) ==
    /\ row[s] = "live"
    /\ row' = [row EXCEPT ![s] = "expired"]
    /\ UNCHANGED <<user, turn, cookie, request, history>>

LinkStep(h) ==
    \/ Register(h) \/ Resend(h) \/ Forgot(h)
    \/ CreateUser(h) \/ Invalidate(h) \/ CreateLink(h) \/ SendMail(h)

PasswordStep(h) ==
    (\E l \in mailed : ValidateToken(h, l)) \/ SetPassword(h) \/ ResetPassword(h)

SessionStep(h) ==
    \/ \E b \in Browsers : Login(h, b) \/ Refresh(h, b) \/ Logout(h, b)
    \/ CreateSession(h) \/ FindSession(h) \/ SessionNotFound(h)
    \/ Rotate(h) \/ DropSession(h) \/ Answer(h)

Time == (\E l \in DOMAIN links : LinkExpires(l)) \/ (\E s \in Sessions : SessionExpires(s))

Next ==
    \/ \E h \in Requests : LinkStep(h) \/ PasswordStep(h) \/ SessionStep(h) \/ Abort(h)
    \/ Time

Spec == Init /\ [][Next]_vars

-----------------------------------------------------------------------------

Kinds == {"EMAIL_VERIFY", "PASSWORD_RESET"}
Tokens == {NoCookie} \cup (Sessions \X (0 .. MaxTurn))

OpenLinks(kind) == {l \in DOMAIN links : links[l].kind = kind /\ Open(l)}

\* However register, resend and forgot requests interleave, the links of a kind
\* that are valid at once are at most as many as the requests in flight at once.
LinksBounded == \A kind \in Kinds : Cardinality(OpenLinks(kind)) <= Cardinality(Requests)

\* When no request is under way, the newest link of a kind is valid for its time,
\* unless a password was set with it.  Only a request cut off after it invalidated
\* the links and before it made its own breaks this; one whose mail fails does not.
NewestLinkWorks ==
    ~cut /\ (\A h \in Requests : pc[h] = "idle") =>
        \A l \in DOMAIN links :
            (\A k \in DOMAIN links : k > l => links[k].kind # links[l].kind)
            => links[l].status # "used" \/ l \in spent

\* A session that a reset, a logout or its expiry has ended stays ended, also if
\* a refresh that had found it is still under way.
EndedStaysEnded == \A s \in ended : ~Exists(s)

\* A browser that sends one request at a time and gets every answer stays signed
\* in: its cookie is the token its session accepts, until the session is ended.
StaysSignedIn ==
    \A b \in orderly : ~InFlight(b) /\ cookie[b] # NoCookie =>
        LET s == cookie[b][1] IN s \in ended \/ Accepts(s, cookie[b])
==============================================================================
